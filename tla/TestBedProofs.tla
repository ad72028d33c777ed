--------------------------- MODULE TestBedProofs ---------------------------
(***************************************************************************)
(* Theorems about TestBed: what the actors promise holds for any number of *)
(* clients, whatever they call in whatever order, and whichever of them    *)
(* are cancelled.                                                          *)
(***************************************************************************)
EXTENDS TestBed, ActorProofs, FiniteSetTheorems

\* The steps of the clients, the cancelled ones included.
ClientsStep == \E c \in Client : (ClientStep(c) \/ GiveUp(c)) /\ UNCHANGED resources

VsSide ==
  /\ VsStep \/ VS!SpawnFails \/ \E ip \in IP : VS!BecomesReady(ip)
  /\ UNCHANGED <<fwVars, pxVars, dnsVars, tls_files>>

\* The nodes that wait_for_ready has passed run and answer, and no other call
\* counts nodes.
VsInv ==
  /\ vs_nodes \in Seq(VS!NodeState)
  /\ vs_waited \in 0 .. Len(vs_nodes)
  /\ vs_ready \subseteq IP
  /\ \A i \in 1 .. vs_waited : vs_nodes[i].child /\ vs_nodes[i].ip \in vs_ready
  /\ current["vs"] = None \/ current["vs"].op # "WaitForReady" => vs_waited = 0

\* While the old addresses are removed no other route is left; while new ones are
\* added, what is not there yet is still to come.
FwInv ==
  /\ fw_disabled_ips \in Seq(IP) /\ fw_left \in Seq(IP)
  /\ fw_phase \in {"idle", "remove", "add"}
  /\ fw_phase # "idle" => current["fw"] # None
  /\ fw_phase = "remove" => fw_disabled_ips = <<>>
  /\ fw_phase = "add" => ToSet(fw_left) \subseteq ToSet(fw_disabled_ips)
  /\ \A ip \in IP \ fw_unsettled :
       /\ ip \in fw_routes => ip \in ToSet(IF fw_phase = "remove" THEN fw_left ELSE fw_disabled_ips)
       /\ ip \in ToSet(fw_disabled_ips) =>
            ip \in fw_routes \/ (fw_phase = "add" /\ ip \in ToSet(fw_left))

\* The last proxy runs unless it was refused, and nobody else listens.
PxInv ==
  /\ ~ px_refused => px_offered \subseteq px_listening
  /\ px_listening = px_proxy

\* The files are there until all clients have gone.
TlsInv == tls_files = TLS!Paths \/ \A c \in Client : call[c] = "closed"

BedInv == ProtocolInv /\ DiesOnlyOfFaults /\ VsInv /\ FwInv /\ PxInv /\ TlsInv

-----------------------------------------------------------------------------
\* Vector Store cluster: every way a call ends is one of Serves (Processes::Finish,
\* Processes::Crash).
LEMMA VsProtocol ==
  ASSUME ProtocolInv, VsSide
  PROVE  OwnStep("vs")
<1>1. "vs" \in Actors /\ disturbed \subseteq Actors
  BY TestBedAssumption DEF ProtocolInv, ProtocolType
<1>2. ASSUME NEW ns, NEW lost, VS!Crash(ns, lost), current["vs"] # None,
             disturbed' \in {disturbed, disturbed \cup {"vs"}},
             Unheard("vs") \/ "vs" \in disturbed'
      PROVE  Serves("vs")
  BY <1>1, <1>2 DEF VS!Crash, VS!Panic, VS!None, VS!clientVars, Panic, None, clientVars, Serves
<1>3. ASSUME NEW ns, NEW lost, NEW result, VS!Finish(ns, lost, result), current["vs"] # None,
             UNCHANGED disturbed
      PROVE  Serves("vs")
  <2>1. CASE Unheard("vs")
    <3>1. VS!Crash(ns, lost)
      BY <1>3, <2>1 DEF VS!Finish, VS!Unheard, Unheard
    <3> QED  BY <1>2, <1>3, <2>1, <3>1
  <2>2. CASE ~ Unheard("vs")
    <3>1. VS!Reply("vs", result)
      BY <1>3, <2>2 DEF VS!Finish, VS!Unheard, Unheard
    <3>2. Reply("vs", result)
      BY <3>1 DEF VS!Reply, VS!None, VS!NoAnswer, VS!clientVars, Reply, None, NoAnswer, clientVars
    <3> QED  BY <1>3, <3>2 DEF Serves
  <2> QED  BY <2>1, <2>2
<1>4. \A ops : VS!Serving(ops) => current["vs"].op \in ops
  BY DEF VS!Serving, VS!Processing
<1>5. None.op = "None"
  BY DEF None
<1>6. CASE VS!Version
  BY <1>3, <1>4, <1>5, <1>6 DEF VS!Version, VS!FinishWith, OwnStep
<1>7. CASE VS!start
  BY <1>3, <1>4, <1>5, <1>7 DEF VS!start, VS!FinishWith, OwnStep
<1>8. CASE VS!start_node
  BY <1>3, <1>4, <1>5, <1>8 DEF VS!start_node, OwnStep
<1>9. CASE VS!stop
  BY <1>3, <1>4, <1>5, <1>9 DEF VS!stop, VS!FinishWith, OwnStep
<1>10. CASE VS!stop_node
  BY <1>3, <1>4, <1>5, <1>10 DEF VS!stop_node, VS!FinishWith, OwnStep
<1>11. CASE VS!wait_for_node
  BY <1>11 DEF VS!wait_for_node, VS!actorVars, VS!clientVars, actorVars, clientVars, OwnStep
<1>12. CASE VS!WaitTimesOut
  BY <1>2, <1>4, <1>5, <1>12 DEF VS!WaitTimesOut, VS!Asked, OwnStep
<1>13. CASE VS!wait_for_ready
  BY <1>3, <1>4, <1>5, <1>13 DEF VS!wait_for_ready, VS!FinishWith, OwnStep
<1>14. CASE VS!Shutdown
  BY <1>14 DEF VS!Shutdown, VS!Ends, VS!None, VS!clientVars, Ends, None, clientVars, OwnStep
<1>15. CASE VS!SpawnFails
  BY <1>2, <1>4, <1>5, <1>15 DEF VS!SpawnFails, OwnStep
<1>16. CASE \E ip \in IP : VS!BecomesReady(ip)
  BY <1>16 DEF VS!BecomesReady, VS!actorVars, VS!clientVars, actorVars, clientVars, OwnStep
<1>17. CASE Taken("vs")
  BY <1>17 DEF Taken, OwnStep
<1> QED
  BY <1>6, <1>7, <1>8, <1>9, <1>10, <1>11, <1>12, <1>13, <1>14, <1>15, <1>16, <1>17
  DEF VsSide, VsStep, VS!process

\* Firewall: the requests to the kernel leave the message where it is
\* (Firewall::Done).
LEMMA FwProtocol ==
  ASSUME ProtocolInv, FwStep
  PROVE  OwnStep("fw")
<1>1. "fw" \in Actors /\ disturbed \subseteq Actors
  BY TestBedAssumption DEF ProtocolInv, ProtocolType
<1>2. CASE FW!Done
  <2>1. current["fw"] # None /\ UNCHANGED disturbed /\ FW!ExpectReply("fw", FW!NoAnswer)
    BY <1>2 DEF FW!Done, FW!Working, FW!None, None
  <2>2. CASE Unheard("fw")
    <3>1. Panic("fw")
      BY <2>1, <2>2 DEF FW!ExpectReply, FW!Unheard, FW!Panic, FW!None, FW!clientVars,
                        Unheard, Panic, None, clientVars
    <3> QED  BY <1>1, <2>1, <2>2, <3>1 DEF Serves, OwnStep
  <2>3. CASE ~ Unheard("fw")
    <3>1. Reply("fw", NoAnswer)
      BY <2>1, <2>3 DEF FW!ExpectReply, FW!Unheard, FW!Reply, FW!None, FW!NoAnswer, FW!clientVars,
                        Unheard, Reply, None, NoAnswer, clientVars
    <3> QED  BY <2>1, <3>1 DEF Serves, OwnStep
  <2> QED  BY <2>2, <2>3
<1>3. CASE FW!Shutdown
  BY <1>3 DEF FW!Shutdown, FW!Ends, FW!None, FW!clientVars, Ends, None, clientVars, OwnStep
<1>4. CASE \/ FW!turn_off_rules \/ FW!drop_traffic
           \/ FW!remove_unreachable_route \/ FW!add_unreachable_route
  BY <1>4 DEF FW!turn_off_rules, FW!drop_traffic, FW!remove_unreachable_route,
              FW!add_unreachable_route, FW!Change, FW!actorVars, FW!clientVars,
              actorVars, clientVars, OwnStep
<1>5. CASE Taken("fw")
  BY <1>5 DEF Taken, OwnStep
<1> QED  BY <1>2, <1>3, <1>4, <1>5 DEF FwStep, FW!process

\* Proxy: every call ends with an expected reply (ScyllaProxyCluster::process).
LEMMA PxProtocol ==
  ASSUME ProtocolInv, PxStep
  PROVE  OwnStep("px")
<1>1. "px" \in Actors /\ disturbed \subseteq Actors
  BY TestBedAssumption DEF ProtocolInv, ProtocolType
<1>2. ASSUME NEW result, PX!ExpectReply("px", result), current["px"] # None, UNCHANGED disturbed
      PROVE  OwnStep("px")
  <2>1. CASE Unheard("px")
    <3>1. Panic("px")
      BY <1>2, <2>1 DEF PX!ExpectReply, PX!Unheard, PX!Panic, PX!None, PX!clientVars,
                        Unheard, Panic, None, clientVars
    <3> QED  BY <1>1, <1>2, <2>1, <3>1 DEF Serves, OwnStep
  <2>2. CASE ~ Unheard("px")
    <3>1. Reply("px", result)
      BY <1>2, <2>2 DEF PX!ExpectReply, PX!Unheard, PX!Reply, PX!None, PX!NoAnswer, PX!clientVars,
                        Unheard, Reply, None, NoAnswer, clientVars
    <3> QED  BY <1>2, <3>1 DEF Serves, OwnStep
  <2> QED  BY <2>1, <2>2
<1>3. \A ops : PX!Processing("px", ops) => current["px"].op \in ops
  BY DEF PX!Processing
<1>4. None.op = "None"
  BY DEF None
<1>5. CASE PX!start
  BY <1>2, <1>3, <1>4, <1>5 DEF PX!start
<1>6. CASE PX!stop
  BY <1>2, <1>3, <1>4, <1>6 DEF PX!stop
<1>7. CASE PX!change_request_rules
  BY <1>2, <1>3, <1>4, <1>7 DEF PX!change_request_rules, PX!Change
<1>8. CASE PX!change_response_rules
  BY <1>2, <1>3, <1>4, <1>8 DEF PX!change_response_rules, PX!Change
<1>9. CASE PX!turn_off_rules
  BY <1>2, <1>3, <1>4, <1>9 DEF PX!turn_off_rules
<1>10. CASE PX!Shutdown
  BY <1>10 DEF PX!Shutdown, PX!Ends, PX!None, PX!clientVars, Ends, None, clientVars, OwnStep
<1>11. CASE Taken("px")
  BY <1>11 DEF Taken, OwnStep
<1> QED  BY <1>5, <1>6, <1>7, <1>8, <1>9, <1>10, <1>11 DEF PxStep, PX!process

\* DNS: a name that cannot be parsed is counted as a disturbance (Dns::ParseFails).
LEMMA DnsProtocol ==
  ASSUME ProtocolInv, DnsStep
  PROVE  OwnStep("dns")
<1>1. "dns" \in Actors /\ disturbed \subseteq Actors
  BY TestBedAssumption DEF ProtocolInv, ProtocolType
<1>2. \A ops : DNS!Processing("dns", ops) => current["dns"].op \in ops
  BY DEF DNS!Processing
<1>3. None.op = "None"
  BY DEF None
<1>4. ASSUME DNS!Reply("dns", DNS!NoAnswer), current["dns"] # None, UNCHANGED disturbed
      PROVE  OwnStep("dns")
  <2>1. Reply("dns", NoAnswer)
    BY <1>4 DEF DNS!Reply, DNS!None, DNS!NoAnswer, DNS!clientVars, Reply, None, NoAnswer, clientVars
  <2> QED  BY <1>4, <2>1 DEF Serves, OwnStep
<1>5. ASSUME DNS!Panic("dns"), current["dns"] # None,
             disturbed' \in {disturbed, disturbed \cup {"dns"}},
             Unheard("dns") \/ "dns" \in disturbed'
      PROVE  OwnStep("dns")
  BY <1>1, <1>5 DEF DNS!Panic, DNS!None, DNS!clientVars, Panic, None, clientVars, Serves, OwnStep
<1>6. CASE DNS!Query
  <2>1. current["dns"] # None
    BY <1>2, <1>3, <1>6 DEF DNS!Query
  <2> QED  BY <1>4, <1>5, <1>6, <2>1 DEF DNS!Query, DNS!ExpectReply, DNS!Unheard, Unheard
<1>7. CASE DNS!remove
  BY <1>2, <1>3, <1>4, <1>7 DEF DNS!remove
<1>8. CASE DNS!upsert
  BY <1>2, <1>3, <1>4, <1>8 DEF DNS!upsert
<1>9. CASE DNS!ParseFails
  BY <1>2, <1>3, <1>5, <1>9 DEF DNS!ParseFails
<1>10. CASE DNS!Shutdown
  BY <1>10 DEF DNS!Shutdown, DNS!Ends, DNS!None, DNS!clientVars, Ends, None, clientVars, OwnStep
<1>11. CASE Taken("dns")
  BY <1>11 DEF Taken, OwnStep
<1> QED  BY <1>6, <1>7, <1>8, <1>9, <1>10, <1>11 DEF DnsStep, DNS!process

\* TLS: a reply that nobody receives is no failure (Tls::Serve).
LEMMA TlsProtocol ==
  ASSUME ProtocolInv, TlsStep
  PROVE  OwnStep("tls")
<1>1. CASE TLS!Serve
  <2>1. current["tls"] # None
    BY <1>1 DEF TLS!Serve, TLS!Processing, None
  <2>2. Reply("tls", TLS!Served)
    BY <1>1 DEF TLS!Serve, TLS!Reply, TLS!None, TLS!NoAnswer, TLS!clientVars, Reply, None, NoAnswer, clientVars
  <2> QED  BY <1>1, <2>1, <2>2 DEF TLS!Serve, Serves, OwnStep
<1>2. CASE TLS!Shutdown
  BY <1>2 DEF TLS!Shutdown, TLS!Ends, TLS!None, TLS!clientVars, Ends, None, clientVars, OwnStep
<1>3. CASE Taken("tls")
  BY <1>3 DEF Taken, OwnStep
<1> QED  BY <1>1, <1>2, <1>3 DEF TlsStep, TLS!process

-----------------------------------------------------------------------------
\* Every step is one of the clients or of one actor (TestBed::Next).
LEMMA NextSplits ==
  ASSUME [Next]_vars
  PROVE  ClientsStep \/ VsSide \/ FwStep \/ PxStep \/ DnsStep \/ TlsStep \/ UNCHANGED vars
<1>1. VsStep => UNCHANGED <<fwVars, pxVars, dnsVars, tls_files>>
  BY DEF VsStep, Taken, resources
<1> QED  BY <1>1 DEF Next, ClientsStep, VsSide, Environment, ClientOf

\* Whatever happens is a step of the protocol of Actor.
LEMMA NextIsProtocolStep ==
  ASSUME ProtocolInv, [Next]_vars
  PROVE  ProtocolStep
<1>1. {"vs", "fw", "px", "dns", "tls"} = Actors
  BY TestBedAssumption
<1>2. ASSUME NEW a \in Actors, OwnStep(a) PROVE ProtocolStep
  BY <1>2 DEF OwnStep, ProtocolStep
<1>3. CASE ClientsStep
  BY <1>3 DEF ClientsStep, ClientStep, ProtocolStep
<1>4. CASE VsSide
  BY <1>1, <1>2, <1>4, VsProtocol
<1>5. CASE FwStep
  BY <1>1, <1>2, <1>5, FwProtocol
<1>6. CASE PxStep
  BY <1>1, <1>2, <1>6, PxProtocol
<1>7. CASE DnsStep
  BY <1>1, <1>2, <1>7, DnsProtocol
<1>8. CASE TlsStep
  BY <1>1, <1>2, <1>8, TlsProtocol
<1>9. CASE UNCHANGED vars
  BY <1>9 DEF vars, ProtocolStep
<1> QED  BY <1>3, <1>4, <1>5, <1>6, <1>7, <1>8, <1>9, NextSplits

\* All of its invariants hold at the start.
LEMMA InitBed == Init => BedInv
<1> SUFFICES ASSUME Init PROVE BedInv
  OBVIOUS
<1>1. ActorInit
  BY DEF Init
<1>2. ProtocolInv
  BY <1>1, InitProtocol
<1>3. VsInv
  BY <1>1, TestBedAssumption DEF Init, VS!ProcessesInit, VsInv, ActorInit
<1>4. FwInv
  BY <1>1, TestBedAssumption DEF Init, FW!FirewallInit, FwInv, ActorInit, ToSet
<1>5. PxInv
  BY DEF Init, PX!ProxyInit, PxInv
<1>6. TlsInv
  BY DEF Init, TLS!TlsInit, TlsInv
<1>7. DiesOnlyOfFaults
  BY <1>1 DEF ActorInit, DiesOnlyOfFaults
<1> QED  BY <1>2, <1>3, <1>4, <1>5, <1>6, <1>7 DEF BedInv

\* ScyllaProxyCluster: start stops the running proxy before it makes the next.
LEMMA PxKeeps ==
  ASSUME PxInv, [Next]_vars
  PROVE  PxInv'
<1>1. CASE PxStep
  <2>1. CASE PX!start
    <3>1. CASE UNCHANGED pxVars
      BY <3>1 DEF pxVars, PxInv
    <3>2. CASE PX!Run(current["px"].arg, px_listening \ px_proxy)
      BY <3>2 DEF PX!Run, PxInv
    <3> QED  BY <2>1, <3>1, <3>2 DEF PX!start, PX!proxyVars, pxVars
  <2>2. CASE PX!Finished
    BY <2>2 DEF PX!Finished, PxInv
  <2>3. CASE UNCHANGED <<px_proxy, px_listening, px_offered, px_refused>>
    BY <2>3 DEF PxInv
  <2> QED  BY <1>1, <2>1, <2>2, <2>3
           DEF PxStep, PX!process, PX!stop, PX!Shutdown, PX!change_request_rules,
               PX!change_response_rules, PX!Change, PX!turn_off_rules, Taken, resources, pxVars
<1>2. CASE UNCHANGED pxVars
  BY <1>2 DEF pxVars, PxInv
<1> QED  BY <1>1, <1>2, NextSplits DEF ClientsStep, VsSide, FwStep, DnsStep, TlsStep,
                                       Taken, resources, vars

\* The addresses that are asked for are a sequence of addresses.
LEMMA Addresses ==
  ASSUME ProtocolInv, NEW a \in Actors, current[a] # None,
         (a = "vs" /\ current[a].op = "Start") \/ (a = "fw" /\ current[a].op = "DropTraffic")
  PROVE  current[a].arg \in Seq(IP)
BY IsCalled, TestBedAssumption

\* Firewall: one route after the other, removed or added or refused
\* (Firewall::remove_unreachable_route, Firewall::add_unreachable_route).
LEMMA FwKeeps ==
  ASSUME BedInv, [Next]_vars
  PROVE  FwInv'
<1>1. FwInv /\ ProtocolInv /\ "fw" \in Actors
  BY TestBedAssumption DEF BedInv
<1>2. ASSUME UNCHANGED fwVars, fw_phase # "idle" => current'["fw"] # None PROVE FwInv'
  BY <1>1, <1>2 DEF FwInv, fwVars
<1>3. ASSUME NEW s \in Seq(IP), s # <<>>
      PROVE  /\ Tail(s) \in Seq(IP) /\ Head(s) \in IP
             /\ ToSet(s) = ToSet(Tail(s)) \cup {Head(s)}
  <2>1. Head(s) = s[1] /\ Tail(s) \in Seq(IP) /\ Len(s) > 0 /\ Len(Tail(s)) = Len(s) - 1
        /\ \A i \in 1 .. Len(s) - 1 : Tail(s)[i] = s[i + 1]
    BY <1>3
  <2>2. ToSet(s) \subseteq ToSet(Tail(s)) \cup {Head(s)}
    <3> SUFFICES ASSUME NEW i \in 1 .. Len(s) PROVE s[i] \in ToSet(Tail(s)) \cup {Head(s)}
      BY <1>3 DEF ToSet
    <3>1. CASE i = 1
      BY <2>1, <3>1
    <3>2. CASE i # 1
      <4>1. i - 1 \in 1 .. Len(s) - 1 /\ Tail(s)[i - 1] = s[i]
        BY <1>3, <2>1, <3>2
      <4>2. i - 1 \in DOMAIN Tail(s)
        BY <2>1, <4>1
      <4> QED  BY <4>1, <4>2 DEF ToSet
    <3> QED  BY <3>1, <3>2
  <2>3. ToSet(Tail(s)) \cup {Head(s)} \subseteq ToSet(s)
    <3>1. Head(s) \in ToSet(s)
      BY <1>3, <2>1 DEF ToSet
    <3>2. ASSUME NEW i \in 1 .. Len(s) - 1 PROVE Tail(s)[i] \in ToSet(s)
      <4>1. i + 1 \in 1 .. Len(s) /\ Tail(s)[i] = s[i + 1]
        BY <1>3, <2>1
      <4> QED  BY <1>3, <4>1 DEF ToSet
    <3> QED  BY <2>1, <3>1, <3>2 DEF ToSet
  <2> QED  BY <1>3, <2>1, <2>2, <2>3
<1>4. ToSet(<<>>) = {}
  BY DEF ToSet
<1>5. CASE FwStep
  <2>1. CASE Taken("fw")
    <3>1. current["fw"] = None
      BY <2>1 DEF Taken, Receive
    <3> QED  BY <1>1, <1>2, <2>1, <3>1 DEF Taken, resources, FwInv
  <2>2. CASE FW!turn_off_rules
    BY <1>1, <1>4, <2>2 DEF FW!turn_off_rules, FW!Working, FW!None, None, FW!actorVars, FwInv
  <2>3. CASE FW!drop_traffic
    <3>1. current["fw"].arg \in Seq(IP)
      BY <1>1, <2>3, Addresses DEF FW!drop_traffic, FW!Working, FW!None, None
    <3> QED  BY <1>1, <1>4, <2>3, <3>1 DEF FW!drop_traffic, FW!Working, FW!None, None, FW!actorVars, FwInv
  <2>4. CASE FW!remove_unreachable_route
    BY <1>1, <1>3, <1>4, <2>4 DEF FW!remove_unreachable_route, FW!Change, FW!Working, FW!actorVars, FwInv
  <2>5. CASE FW!add_unreachable_route
    <3>1. fw_phase = "add" /\ fw_left # <<>> /\ fw_left \in Seq(IP)
      BY <1>1, <2>5 DEF FW!add_unreachable_route, FW!Change, FW!Working, FwInv
    <3>2. ToSet(fw_left) = ToSet(Tail(fw_left)) \cup {Head(fw_left)} /\ Tail(fw_left) \in Seq(IP)
      BY <1>3, <3>1
    <3>3. fw_left' = Tail(fw_left) /\ UNCHANGED <<fw_disabled_ips, fw_phase, current>>
      BY <2>5 DEF FW!add_unreachable_route, FW!Change, FW!actorVars
    <3>4. \/ /\ fw_routes' = fw_routes \cup {Head(fw_left)}
             /\ fw_unsettled' = fw_unsettled \ {Head(fw_left)}
          \/ /\ fw_routes' = fw_routes
             /\ fw_unsettled' = fw_unsettled \cup {Head(fw_left)}
      BY <2>5 DEF FW!add_unreachable_route, FW!Change
    <3>5. ASSUME NEW ip \in IP \ fw_unsettled'
          PROVE  /\ ip \in fw_routes' => ip \in ToSet(fw_disabled_ips)
                 /\ ip \in ToSet(fw_disabled_ips) => ip \in fw_routes' \/ ip \in ToSet(Tail(fw_left))
      <4>1. CASE ip = Head(fw_left)
        BY <1>1, <3>1, <3>2, <3>4, <3>5, <4>1 DEF FwInv
      <4>2. CASE ip # Head(fw_left)
        BY <1>1, <3>1, <3>2, <3>4, <3>5, <4>2 DEF FwInv
      <4> QED  BY <4>1, <4>2
    <3> QED  BY <1>1, <3>1, <3>2, <3>3, <3>5 DEF FwInv
  <2>6. CASE FW!Done
    BY <1>1, <1>4, <2>6 DEF FW!Done, FW!Working, FwInv
  <2>7. CASE FW!Shutdown
    <3>1. UNCHANGED current /\ UNCHANGED fwVars
      BY <2>7 DEF FW!Shutdown, FW!Ends, FW!firewallVars, fwVars
    <3> QED  BY <1>1, <1>2, <3>1 DEF FwInv
  <2> QED  BY <1>5, <2>1, <2>2, <2>3, <2>4, <2>5, <2>6, <2>7 DEF FwStep, FW!process
<1>6. ASSUME NEW a \in Actors, a # "fw", OwnStep(a), UNCHANGED fwVars PROVE FwInv'
  <2>1. current'["fw"] = current["fw"]
    BY <1>1, <1>6, OthersKeep
  <2> QED  BY <1>1, <1>2, <1>6, <2>1 DEF FwInv
<1>7. CASE VsSide
  BY <1>1, <1>6, <1>7, VsProtocol, TestBedAssumption DEF VsSide
<1>8. CASE PxStep
  BY <1>1, <1>6, <1>8, PxProtocol, TestBedAssumption DEF PxStep, Taken, resources
<1>9. CASE DnsStep
  BY <1>1, <1>6, <1>9, DnsProtocol, TestBedAssumption DEF DnsStep, Taken, resources
<1>10. CASE TlsStep
  BY <1>1, <1>6, <1>10, TlsProtocol, TestBedAssumption DEF TlsStep, Taken, resources
<1>11. CASE ClientsStep
  <2>1. UNCHANGED fwVars /\ (current'["fw"] = None <=> current["fw"] = None)
    BY <1>1, <1>11, ClientsKeep DEF ClientsStep, resources
  <2> QED  BY <1>1, <1>2, <2>1 DEF FwInv
<1>12. CASE UNCHANGED vars
  BY <1>1, <1>2, <1>12 DEF vars, actorVars, FwInv
<1> QED  BY <1>5, <1>7, <1>8, <1>9, <1>10, <1>11, <1>12, NextSplits

\* Tls::Shutdown comes after the last client, and no client comes back.
LEMMA TlsKeeps ==
  ASSUME BedInv, [Next]_vars
  PROVE  TlsInv'
<1>1. TlsInv /\ ProtocolInv /\ ProtocolStep
  BY NextIsProtocolStep DEF BedInv
<1>2. CASE \A c \in Client : call[c] = "closed"
  BY <1>1, <1>2, ClosedStays DEF TlsInv
<1>3. CASE tls_files = TLS!Paths
  <2>1. TLS!Shutdown => \A c \in Client : call[c] = "closed"
    BY DEF TLS!Shutdown, TLS!Ends
  <2>2. CASE UNCHANGED tls_files
    BY <1>3, <2>2 DEF TlsInv, TLS!Paths
  <2>3. TLS!Shutdown \/ UNCHANGED tls_files
    BY NextSplits DEF ClientsStep, VsSide, FwStep, PxStep, DnsStep, TlsStep, TLS!process,
                      TLS!Serve, Taken, resources, vars
  <2> QED  BY <1>2, <2>1, <2>2, <2>3
<1> QED  BY <1>1, <1>2, <1>3 DEF TlsInv

\* Killing and restarting leave the nodes in their places.
LEMMA NodesChanged ==
  ASSUME vs_nodes \in Seq(VS!NodeState), NEW I
  PROVE  VS!Killed(I) \in Seq(VS!NodeState) /\ VS!Restarted(I) \in Seq(VS!NodeState)
<1>1. DOMAIN vs_nodes = 1 .. Len(vs_nodes) /\ Len(vs_nodes) \in Nat
  OBVIOUS
<1>2. ASSUME NEW n \in VS!NodeState, NEW b \in BOOLEAN
      PROVE  [n EXCEPT !.child = b] \in VS!NodeState
  BY <1>2 DEF VS!NodeState
<1>3. \A i \in DOMAIN vs_nodes : vs_nodes[i] \in VS!NodeState
  OBVIOUS
<1>4. \A i \in DOMAIN vs_nodes : /\ [vs_nodes[i] EXCEPT !.child = @ /\ i \notin I] \in VS!NodeState
                                 /\ [vs_nodes[i] EXCEPT !.child = @ \/ i \in I] \in VS!NodeState
  BY <1>2, <1>3
<1>5. VS!Killed(I) \in [1 .. Len(vs_nodes) -> VS!NodeState]
  BY <1>1, <1>4 DEF VS!Killed
<1>6. VS!Restarted(I) \in [1 .. Len(vs_nodes) -> VS!NodeState]
  BY <1>1, <1>4 DEF VS!Restarted
<1> QED  BY <1>1, <1>5, <1>6, FunctionIsSeq

\* One new node for each address.
LEMMA NodesStarted ==
  ASSUME NEW ips \in Seq(IP)
  PROVE  VS!Started(ips) \in Seq(VS!NodeState)
<1>1. DOMAIN ips = 1 .. Len(ips) /\ Len(ips) \in Nat /\ \A i \in DOMAIN ips : ips[i] \in IP
  OBVIOUS
<1>2. \A i \in DOMAIN ips : [ip |-> ips[i], child |-> TRUE] \in VS!NodeState
  BY <1>1 DEF VS!NodeState
<1>3. VS!Started(ips) \in [1 .. Len(ips) -> VS!NodeState]
  BY <1>1, <1>2 DEF VS!Started
<1> QED  BY <1>1, <1>3, FunctionIsSeq

\* VectorStoreCluster: nodes come and go only between two waits, and a node that
\* was seen serving serves until then (VectorStoreCluster::wait_for_node).
LEMMA VsKeeps ==
  ASSUME BedInv, [Next]_vars
  PROVE  VsInv'
<1>1. VsInv /\ ProtocolInv /\ "vs" \in Actors
  BY TestBedAssumption DEF BedInv
<1>0. vs_ready' \subseteq IP
  <2>1. vs_ready \subseteq IP
    BY <1>1 DEF VsInv
  <2>2. CASE VsSide
    BY <2>1, <2>2
    DEF VsSide, VsStep, VS!process, Taken, resources, vsVars, VS!Version, VS!start, VS!start_node, VS!stop,
        VS!stop_node, VS!wait_for_node, VS!wait_for_ready, VS!WaitTimesOut, VS!Shutdown, VS!SpawnFails,
        VS!BecomesReady, VS!Answering
  <2>3. CASE UNCHANGED vsVars
    BY <2>1, <2>3 DEF vsVars
  <2> QED
    BY <2>2, <2>3, NextSplits DEF ClientsStep, FwStep, PxStep, DnsStep, TlsStep, Taken, resources, vars
<1>2. ASSUME vs_nodes' \in Seq(VS!NodeState), vs_waited' = 0 PROVE VsInv'
  <2>1. Len(vs_nodes') \in Nat
    BY <1>2
  <2> QED  BY <1>0, <1>2, <2>1 DEF VsInv
<1>3. <<>> \in Seq(VS!NodeState)
  OBVIOUS
<1>4. ASSUME NEW ns, ns \in Seq(VS!NodeState), NEW lost, NEW result, VS!Finish(ns, lost, result)
      PROVE  VsInv'
  BY <1>2, <1>3, <1>4 DEF VS!Finish, VS!Crash
<1>5. \A ops : VS!Serving(ops) /\ "None" \notin ops => current["vs"].op \in ops /\ current["vs"] # None
  BY DEF VS!Serving, VS!Processing, None
<1>6. \A I : VS!Killed(I) \in Seq(VS!NodeState) /\ VS!Restarted(I) \in Seq(VS!NodeState)
  BY <1>1, NodesChanged DEF VsInv
<1>7. CASE VsSide
  <2>1. CASE VS!Version
    BY <1>1, <1>4, <2>1 DEF VS!Version, VS!FinishWith, VsInv
  <2>2. CASE VS!start
    <3>1. current["vs"].op = "Start" /\ current["vs"] # None
      BY <1>5, <2>2 DEF VS!start
    <3>2. current["vs"].arg \in Seq(IP)
      BY <1>1, <3>1, Addresses
    <3>3. VS!Started(current["vs"].arg) \in Seq(VS!NodeState)
      BY <3>2, NodesStarted
    <3>4. vs_nodes \o VS!Started(current["vs"].arg) \in Seq(VS!NodeState)
      BY <1>1, <3>3 DEF VsInv
    <3> QED  BY <1>4, <2>2, <3>4 DEF VS!start, VS!FinishWith
  <2>3. CASE VS!start_node
    BY <1>4, <1>6, <2>3 DEF VS!start_node
  <2>4. CASE VS!stop
    BY <1>3, <1>4, <2>4 DEF VS!stop, VS!FinishWith
  <2>5. CASE VS!stop_node
    BY <1>4, <1>6, <2>5 DEF VS!stop_node, VS!FinishWith
  <2>6. CASE VS!WaitTimesOut \/ VS!SpawnFails
    BY <1>2, <1>3, <2>6 DEF VS!WaitTimesOut, VS!SpawnFails, VS!Crash
  <2>7. CASE VS!wait_for_ready
    BY <1>1, <1>4, <2>7 DEF VS!wait_for_ready, VS!FinishWith, VsInv
  <2>8. CASE VS!wait_for_node
    <3>1. /\ current["vs"] # None /\ current["vs"].op = "WaitForReady"
          /\ vs_waited + 1 <= Len(vs_nodes) /\ vs_nodes[vs_waited + 1].child
      BY <1>5, <2>8 DEF VS!wait_for_node, VS!Asked
    <3>2. /\ vs_nodes[vs_waited + 1].ip \in vs_ready
          /\ vs_waited' = vs_waited + 1 /\ UNCHANGED <<current, vs_nodes, vs_ready>>
      BY <2>8 DEF VS!wait_for_node, VS!actorVars
    <3>3. vs_waited \in Nat /\ Len(vs_nodes) \in Nat
      BY <1>1 DEF VsInv
    <3> QED  BY <1>1, <3>1, <3>2, <3>3 DEF VsInv
  <2>9. CASE VS!Shutdown
    <3>1. vs_waited = 0
      BY <1>1, <2>9 DEF VS!Shutdown, VS!Ends, VS!None, None, VsInv
    <3> QED  BY <1>2, <1>3, <2>9, <3>1 DEF VS!Shutdown
  <2>10. CASE \E ip \in IP : VS!BecomesReady(ip)
    BY <1>1, <2>10 DEF VS!BecomesReady, VS!actorVars, VsInv
  <2>11. CASE Taken("vs")
    <3>1. vs_waited = 0
      BY <1>1, <2>11 DEF Taken, Receive, VsInv
    <3> QED  BY <1>1, <1>2, <2>11, <3>1 DEF Taken, resources, vsVars, VsInv
  <2> QED
    BY <1>7, <2>1, <2>2, <2>3, <2>4, <2>5, <2>6, <2>7, <2>8, <2>9, <2>10, <2>11
    DEF VsSide, VsStep, VS!process
<1>8. ASSUME NEW a \in Actors, a # "vs", OwnStep(a), UNCHANGED vsVars PROVE VsInv'
  <2>1. current'["vs"] = current["vs"]
    BY <1>1, <1>8, OthersKeep
  <2> QED  BY <1>1, <1>8, <2>1 DEF VsInv, vsVars
<1>9. CASE FwStep
  BY <1>1, <1>8, <1>9, FwProtocol, TestBedAssumption DEF FwStep, Taken, resources
<1>10. CASE PxStep
  BY <1>1, <1>8, <1>10, PxProtocol, TestBedAssumption DEF PxStep, Taken, resources
<1>11. CASE DnsStep
  BY <1>1, <1>8, <1>11, DnsProtocol, TestBedAssumption DEF DnsStep, Taken, resources
<1>12. CASE TlsStep
  BY <1>1, <1>8, <1>12, TlsProtocol, TestBedAssumption DEF TlsStep, Taken, resources
<1>13. CASE ClientsStep
  <2>1. UNCHANGED vsVars /\ (current'["vs"] = None <=> current["vs"] = None)
        /\ current'["vs"].op = current["vs"].op
    BY <1>1, <1>13, ClientsKeep DEF ClientsStep, resources
  <2> QED  BY <1>1, <2>1 DEF VsInv, vsVars
<1>14. CASE UNCHANGED vars
  BY <1>1, <1>14 DEF vars, actorVars, vsVars, VsInv
<1> QED  BY <1>7, <1>9, <1>10, <1>11, <1>12, <1>13, <1>14, NextSplits

\* wait_for_ready says true after it has passed every node
\* (VectorStoreCluster::wait_for_ready).
LEMMA TrueMeansReady ==
  ASSUME BedInv, [Next]_vars, NEW c \in Client,
         From(current["vs"], c), current["vs"].op = "WaitForReady",
         current'["vs"] = None, actor'["vs"] = "run", answer'[c] = Answer(TRUE)
  PROVE  \A i \in DOMAIN vs_nodes : vs_nodes[i].child /\ vs_nodes[i].ip \in vs_ready
<1>1. VsInv /\ ProtocolInv /\ "vs" \in Actors /\ current["vs"] # None
  BY TestBedAssumption DEF BedInv, From
<1>2. VsSide
  <2>1. ASSUME NEW a \in Actors, a # "vs", OwnStep(a) PROVE FALSE
    BY <1>1, <2>1, OthersKeep
  <2>2. ~ ClientsStep
    BY <1>1, ClientsKeep DEF ClientsStep
  <2>3. ~ UNCHANGED vars
    BY <1>1 DEF vars, actorVars
  <2>4. "fw" \in Actors /\ "px" \in Actors /\ "dns" \in Actors /\ "tls" \in Actors
    BY TestBedAssumption
  <2> QED  BY <1>1, <2>1, <2>2, <2>3, <2>4, NextSplits, FwProtocol, PxProtocol, DnsProtocol, TlsProtocol
<1>3. actor'["vs"] # "dead"
  OBVIOUS
<1>4. ASSUME NEW ns, NEW lost, VS!Crash(ns, lost) PROVE FALSE
  BY <1>1, <1>3, <1>4 DEF VS!Crash, VS!Panic, ProtocolInv, ProtocolType
<1>5. ASSUME VS!FinishWith(vs_nodes, VS!Answer(FALSE)) PROVE FALSE
  <2>1. VS!Reply("vs", {})
    BY <1>4, <1>5 DEF VS!FinishWith, VS!Finish, VS!Answer, VS!NoAnswer
  <2>2. answer'[c] = {}
    BY <1>1, <2>1, ActorAssumption DEF VS!Reply, From, ProtocolInv, ProtocolType
  <2> QED  BY <2>2 DEF Answer
<1>6. VS!wait_for_ready
  <2>1. \A ops : VS!Serving(ops) => current["vs"].op \in ops
    BY DEF VS!Serving, VS!Processing
  <2>2. ~ Taken("vs") /\ ~ VS!Shutdown
    BY <1>1 DEF Taken, Receive, VS!Shutdown, VS!Ends, VS!None, None
  <2>3. ~ VS!wait_for_node /\ ~ \E ip \in IP : VS!BecomesReady(ip)
    BY <1>1 DEF VS!wait_for_node, VS!BecomesReady, VS!actorVars
  <2>4. ~ VS!WaitTimesOut /\ ~ VS!SpawnFails
    BY <1>4 DEF VS!WaitTimesOut, VS!SpawnFails
  <2>5. ~ VS!Version /\ ~ VS!start /\ ~ VS!start_node /\ ~ VS!stop /\ ~ VS!stop_node
    BY <2>1 DEF VS!Version, VS!start, VS!start_node, VS!stop, VS!stop_node
  <2> QED  BY <1>2, <2>2, <2>3, <2>4, <2>5 DEF VsSide, VsStep, VS!process
<1>7. vs_waited = Len(vs_nodes)
  BY <1>5, <1>6 DEF VS!wait_for_ready
<1> QED  BY <1>1, <1>7 DEF VsInv

-----------------------------------------------------------------------------
(***************************************************************************)
(* The ends of the actors.                                                 *)
(***************************************************************************)

\* NothingLeftBehind, by its parts: the Child of every process is there, the final stop
\* has reached all of them, and the other actors have let go of what they had.
StoresKept == actor["vs"] # "dead" => vs_orphans = VS!NothingLost

StoresEmptied == actor["vs"] = "finished" => vs_nodes = <<>> /\ vs_ready = {}

ServersGone ==
  /\ actor["px"] = "finished" => px_listening = {}
  /\ actor["dns"] # "run" => ~dns_server
  /\ actor["tls"] # "run" => tls_files = {}

\* Cardinality, as the instance has it.
LEMMA SameCardinality == \A S : VS!Cardinality(S) = Cardinality(S)
BY DEF VS!Cardinality, Cardinality

\* No process counts for an empty cluster (Processes::Children).
LEMMA NoChildren == \A ip : VS!Children(<<>>, ip) = 0
<1> SUFFICES ASSUME NEW ip PROVE VS!Children(<<>>, ip) = 0
  OBVIOUS
<1>1. {i \in DOMAIN <<>> : <<>>[i].ip = ip /\ <<>>[i].child} = {}
  OBVIOUS
<1> QED  BY <1>1, SameCardinality, FS_EmptySet DEF VS!Children

\* Only start_node overwrites a Child, and not one that runs if the callers see to it
\* (VectorStoreCluster::start_node).
LEMMA StoresKeptStep ==
  ASSUME BedInv, StoresKept, StoresNotStartedTwice, [Next]_vars
  PROVE  StoresKept'
<1>1. ProtocolInv /\ "vs" \in Actors /\ actor["vs"] \in {"run", "dead", "finished"}
  BY TestBedAssumption DEF BedInv, ProtocolInv, ProtocolType
<1>2. ASSUME actor'["vs"] = actor["vs"], UNCHANGED vs_orphans PROVE StoresKept'
  BY <1>2 DEF StoresKept, VS!NothingLost
<1>3. CASE VsSide
  <2>1. ASSUME NEW ns, NEW lost, VS!Crash(ns, lost) PROVE StoresKept'
    BY <1>1, <2>1 DEF VS!Crash, VS!Panic, StoresKept, ProtocolInv, ProtocolType
  <2>2. ASSUME NEW ns, NEW lost, lost = VS!NothingLost, NEW r, VS!Finish(ns, lost, r), actor["vs"] = "run"
        PROVE  StoresKept'
    <3>1. CASE VS!Crash(ns, lost)
      BY <2>1, <3>1
    <3>2. CASE ~ VS!Crash(ns, lost)
      <4>1. vs_orphans' = [ip \in IP |-> vs_orphans[ip] + lost[ip]]
        BY <2>2, <3>2 DEF VS!Finish
      <4>2. vs_orphans = VS!NothingLost
        BY <2>2 DEF StoresKept
      <4>3. vs_orphans' = VS!NothingLost
        BY <2>2, <4>1, <4>2 DEF VS!NothingLost
      <4> QED  BY <4>3 DEF StoresKept, VS!NothingLost
    <3> QED  BY <3>1, <3>2
  <2>3. \A ops : VS!Serving(ops) => actor["vs"] = "run"
    BY DEF VS!Serving, VS!Processing
  <2>4. CASE VS!Version \/ VS!start \/ VS!stop \/ VS!stop_node \/ VS!wait_for_ready
    BY <2>2, <2>3, <2>4
    DEF VS!Version, VS!start, VS!stop, VS!stop_node, VS!wait_for_ready, VS!FinishWith
  <2>5. CASE VS!start_node
    <3> DEFINE found == {VS!Find(current["vs"].arg[1])} \ {0}
    <3>1. VS!Serving({"StartNode"}) /\ VS!Finish(VS!Restarted(found), VS!Overwritten(found), VS!NoAnswer)
      BY <2>5 DEF VS!start_node
    <3>2. \A i \in found : ~ vs_nodes[i].child
      BY <3>1 DEF StoresNotStartedTwice, VS!NotStartedTwice
    <3>3. VS!Overwritten(found) = VS!NothingLost
      <4> HIDE DEF found
      <4>1. \A ip \in IP : {i \in found : vs_nodes[i].ip = ip /\ vs_nodes[i].child} = {}
        BY <3>2
      <4> QED  BY <4>1, SameCardinality, FS_EmptySet DEF VS!Overwritten, VS!NothingLost
    <3> QED  BY <2>2, <2>3, <3>1, <3>3
  <2>6. CASE VS!SpawnFails \/ VS!WaitTimesOut
    BY <2>1, <2>6 DEF VS!SpawnFails, VS!WaitTimesOut
  <2>7. CASE Taken("vs") \/ VS!wait_for_node \/ \E ip \in IP : VS!BecomesReady(ip)
    BY <1>2, <2>7 DEF Taken, Receive, resources, vsVars, VS!wait_for_node, VS!BecomesReady, VS!actorVars
  <2>8. CASE VS!Shutdown
    BY <2>8 DEF VS!Shutdown, VS!Ends, StoresKept, VS!NothingLost
  <2> QED  BY <1>3, <2>4, <2>5, <2>6, <2>7, <2>8 DEF VsSide, VsStep, VS!process
<1>4. ASSUME NEW a \in Actors, a # "vs", OwnStep(a), UNCHANGED vsVars PROVE StoresKept'
  BY <1>1, <1>2, <1>4, OthersKeep DEF vsVars
<1>5. CASE FwStep
  BY <1>1, <1>4, <1>5, FwProtocol, TestBedAssumption DEF FwStep, Taken, resources
<1>6. CASE PxStep
  BY <1>1, <1>4, <1>6, PxProtocol, TestBedAssumption DEF PxStep, Taken, resources
<1>7. CASE DnsStep
  BY <1>1, <1>4, <1>7, DnsProtocol, TestBedAssumption DEF DnsStep, Taken, resources
<1>8. CASE TlsStep
  BY <1>1, <1>4, <1>8, TlsProtocol, TestBedAssumption DEF TlsStep, Taken, resources
<1>9. CASE ClientsStep
  <2>1. UNCHANGED vsVars /\ actor' = actor
    BY <1>1, <1>9, ClientsKeep DEF ClientsStep, resources
  <2> QED  BY <1>2, <2>1 DEF vsVars
<1>10. CASE UNCHANGED vars
  BY <1>2, <1>10 DEF vars, actorVars, vsVars
<1> QED  BY <1>3, <1>5, <1>6, <1>7, <1>8, <1>9, <1>10, NextSplits

\* An ended Vector Store actor has no nodes, and nobody gives it any: its final stop
\* reaches every process (VectorStoreCluster::Shutdown).
LEMMA StoresEmptiedStep ==
  ASSUME BedInv, StoresEmptied, StoresKept, [Next]_vars
  PROVE  StoresEmptied'
<1>1. ProtocolInv /\ {"vs", "fw", "px", "dns", "tls"} = Actors
      /\ actor \in [Actors -> {"run", "dead", "finished"}]
  BY TestBedAssumption DEF BedInv, ProtocolInv, ProtocolType
<1>2. CASE VsSide
  <2>1. CASE actor["vs"] = "finished"
    <3>1. vs_nodes = <<>> /\ vs_ready = {} /\ \A ip \in IP : vs_orphans[ip] = 0
      BY <2>1 DEF StoresEmptied, StoresKept, VS!NothingLost
    <3>2. \A ip \in IP : ~ VS!BecomesReady(ip)
      BY <3>1, NoChildren DEF VS!BecomesReady
    <3>3. \A ops : ~ VS!Serving(ops)
      BY <2>1 DEF VS!Serving, VS!Processing
    <3> QED
      BY <1>2, <2>1, <3>2, <3>3
      DEF VsSide, VsStep, VS!process, Taken, Receive, VS!Version, VS!start, VS!start_node, VS!stop,
          VS!stop_node, VS!wait_for_node, VS!wait_for_ready, VS!WaitTimesOut, VS!Asked,
          VS!Shutdown, VS!Ends, VS!SpawnFails
  <2>2. CASE VS!Shutdown
    <3>1. actor["vs"] = "run"
      BY <2>2 DEF VS!Shutdown, VS!Ends
    <3>2. \A ip \in IP : vs_orphans[ip] = 0
      BY <3>1 DEF StoresKept, VS!NothingLost
    <3>3. vs_ready \subseteq IP
      BY DEF BedInv, VsInv
    <3> QED  BY <2>2, <3>2, <3>3, NoChildren DEF VS!Shutdown, VS!Answering, StoresEmptied
  <2>3. CASE actor["vs"] # "finished" /\ ~ VS!Shutdown
    <3>1. actor'["vs"] = actor["vs"] \/ actor'["vs"] = "dead"
      <4>1. ASSUME NEW ns, NEW lost, VS!Crash(ns, lost) PROVE actor'["vs"] = "dead"
        BY <1>1, <4>1 DEF VS!Crash, VS!Panic
      <4>2. ASSUME NEW ns, NEW lost, NEW r, VS!Finish(ns, lost, r)
            PROVE  actor'["vs"] = actor["vs"] \/ actor'["vs"] = "dead"
        BY <4>1, <4>2 DEF VS!Finish, VS!Reply
      <4> QED
        BY <1>2, <2>3, <4>1, <4>2
        DEF VsSide, VsStep, VS!process, Taken, Receive, VS!Version, VS!start, VS!start_node, VS!stop,
            VS!stop_node, VS!wait_for_node, VS!wait_for_ready, VS!WaitTimesOut, VS!FinishWith,
            VS!SpawnFails, VS!BecomesReady, VS!actorVars
    <3> QED  BY <2>3, <3>1 DEF StoresEmptied
  <2> QED  BY <2>1, <2>2, <2>3 DEF StoresEmptied
<1>3. ASSUME actor'["vs"] = actor["vs"], UNCHANGED vsVars PROVE StoresEmptied'
  BY <1>3 DEF StoresEmptied, vsVars
<1>4. ASSUME NEW a \in Actors, a # "vs", OwnStep(a), UNCHANGED vsVars PROVE StoresEmptied'
  BY <1>1, <1>3, <1>4, OthersKeep
<1>5. CASE FwStep
  BY <1>1, <1>4, <1>5, FwProtocol DEF FwStep, Taken, resources
<1>6. CASE PxStep
  BY <1>1, <1>4, <1>6, PxProtocol DEF PxStep, Taken, resources
<1>7. CASE DnsStep
  BY <1>1, <1>4, <1>7, DnsProtocol DEF DnsStep, Taken, resources
<1>8. CASE TlsStep
  BY <1>1, <1>4, <1>8, TlsProtocol DEF TlsStep, Taken, resources
<1>9. ClientsStep => UNCHANGED vsVars /\ actor' = actor
  BY <1>1, ClientsKeep DEF ClientsStep, resources
<1>10. UNCHANGED vars => UNCHANGED vsVars /\ actor' = actor
  BY DEF vars, actorVars
<1> QED  BY <1>2, <1>3, <1>5, <1>6, <1>7, <1>8, <1>9, <1>10, NextSplits

\* What the other actors have let go of does not come back: nobody else touches it.
LEMMA ServersGoneStep ==
  ASSUME BedInv, ServersGone, [Next]_vars
  PROVE  ServersGone'
<1>1. ProtocolInv /\ PxInv /\ {"vs", "fw", "px", "dns", "tls"} = Actors
      /\ actor \in [Actors -> {"run", "dead", "finished"}]
  BY TestBedAssumption DEF BedInv, ProtocolInv, ProtocolType
<1>2. CASE VsSide
  <2>1. \A a \in Actors \ {"vs"} : actor'[a] = actor[a]
    BY <1>1, <1>2, VsProtocol, OthersKeep
  <2>2. UNCHANGED <<px_listening, dns_server, tls_files>>
    BY <1>2 DEF VsSide, pxVars, dnsVars
  <2> QED  BY <1>1, <2>1, <2>2 DEF ServersGone
<1>3. CASE FwStep
  <2>1. \A a \in Actors \ {"fw"} : actor'[a] = actor[a]
    BY <1>1, <1>3, FwProtocol, OthersKeep
  <2> QED  BY <1>1, <1>3, <2>1 DEF FwStep, Taken, resources, pxVars, dnsVars, ServersGone
<1>4. CASE PxStep
  <2>1. \A a \in Actors \ {"px"} : actor'[a] = actor[a]
    BY <1>1, <1>4, PxProtocol, OthersKeep
  <2>2. actor'["px"] = "finished" => px_listening' = {}
    <3>1. ASSUME NEW r, PX!ExpectReply("px", r) PROVE actor'["px"] \in {actor["px"], "dead"}
      BY <1>1, <3>1 DEF PX!ExpectReply, PX!Panic, PX!Reply
    <3>2. \A ops : PX!Processing("px", ops) => actor["px"] = "run"
      BY DEF PX!Processing
    <3>3. CASE PX!Shutdown
      BY <1>1, <3>3 DEF PX!Shutdown, PX!Finished, PxInv
    <3>4. CASE Taken("px")
      BY <3>4 DEF Taken, Receive
    <3>5. CASE ~ PX!Shutdown /\ ~ Taken("px")
      <4>1. actor["px"] = "run" /\ \E r : PX!ExpectReply("px", r)
        BY <1>4, <3>2, <3>5 DEF PxStep, PX!process, PX!start, PX!stop, PX!change_request_rules,
           PX!change_response_rules, PX!Change, PX!turn_off_rules
      <4> QED  BY <3>1, <4>1
    <3> QED  BY <3>3, <3>4, <3>5
  <2> QED  BY <1>1, <1>4, <2>1, <2>2 DEF PxStep, Taken, resources, dnsVars, ServersGone
<1>5. CASE DnsStep
  <2>1. \A a \in Actors \ {"dns"} : actor'[a] = actor[a]
    BY <1>1, <1>5, DnsProtocol, OthersKeep
  <2>2. actor'["dns"] # "run" => ~ dns_server'
    BY <1>1, <1>5
    DEF DnsStep, DNS!process, Taken, Receive, resources, dnsVars, DNS!Processing, DNS!Query, DNS!ExpectReply,
        DNS!Reply, DNS!remove, DNS!upsert, DNS!ParseFails, DNS!Shutdown, ServersGone
  <2> QED  BY <1>1, <1>5, <2>1, <2>2 DEF DnsStep, Taken, resources, pxVars, ServersGone
<1>6. CASE TlsStep
  <2>1. \A a \in Actors \ {"tls"} : actor'[a] = actor[a]
    BY <1>1, <1>6, TlsProtocol, OthersKeep
  <2>2. actor'["tls"] # "run" => tls_files' = {}
    BY <1>1, <1>6
    DEF TlsStep, TLS!process, Taken, Receive, resources, TLS!Serve, TLS!Reply, TLS!Shutdown, ServersGone
  <2> QED  BY <1>1, <1>6, <2>1, <2>2 DEF TlsStep, Taken, resources, pxVars, dnsVars, ServersGone
<1>7. CASE UNCHANGED resources /\ actor' = actor
  BY <1>7 DEF resources, pxVars, dnsVars, ServersGone
<1>8. ClientsStep => UNCHANGED resources /\ actor' = actor
  BY <1>1, ClientsKeep DEF ClientsStep
<1>9. UNCHANGED vars => UNCHANGED resources /\ actor' = actor
  BY DEF vars, actorVars, resources
<1> QED  BY <1>2, <1>3, <1>4, <1>5, <1>6, <1>7, <1>8, <1>9, NextSplits

-----------------------------------------------------------------------------
(***************************************************************************)
(* The rest of the types.                                                  *)
(***************************************************************************)
OrphansType == vs_orphans \in [IP -> Nat]

RoutesType == fw_routes \subseteq IP /\ fw_unsettled \subseteq IP

TypeInv ==
  /\ ClientType /\ OrphansType /\ RoutesType
  /\ PX!ProxyTypeOK /\ DNS!DnsTypeOK /\ TLS!TlsTypeOK

\* Processes are counted in natural numbers (Processes::Children,
\* Processes::Overwritten).
LEMMA CountsProcesses ==
  ASSUME NEW ns \in Seq(VS!NodeState), NEW ip
  PROVE  /\ VS!Children(ns, ip) \in Nat
         /\ \A I \in SUBSET DOMAIN ns : Cardinality({i \in I : ns[i].ip = ip /\ ns[i].child}) \in Nat
<1>1. IsFiniteSet(DOMAIN ns)
  <2>1. DOMAIN ns = 1 .. Len(ns) /\ Len(ns) \in Nat
    OBVIOUS
  <2> QED  BY <2>1, FS_Interval
<1>2. \A I \in SUBSET DOMAIN ns : {i \in I : ns[i].ip = ip /\ ns[i].child} \in SUBSET DOMAIN ns
  OBVIOUS
<1>3. \A I \in SUBSET DOMAIN ns : Cardinality({i \in I : ns[i].ip = ip /\ ns[i].child}) \in Nat
  BY <1>1, <1>2, FS_Subset, FS_CardinalityType
<1>4. VS!Children(ns, ip) = Cardinality({i \in DOMAIN ns : ns[i].ip = ip /\ ns[i].child})
  BY SameCardinality DEF VS!Children
<1> QED  BY <1>3, <1>4

\* Find tells the first node with an address, or 0 (Processes::Find).
LEMMA FindsNode ==
  ASSUME vs_nodes \in Seq(VS!NodeState), NEW ip
  PROVE  \/ /\ VS!Find(ip) \in DOMAIN vs_nodes /\ vs_nodes[VS!Find(ip)].ip = ip
            /\ \A j \in DOMAIN vs_nodes : j < VS!Find(ip) => vs_nodes[j].ip # ip
         \/ VS!Find(ip) = 0 /\ \A j \in DOMAIN vs_nodes : vs_nodes[j].ip # ip
<1> DEFINE I == {i \in 1 .. Len(vs_nodes) : vs_nodes[i].ip = ip}
<1>1. VS!Find(ip) = IF I # {} THEN VS!Min(I) ELSE 0
  BY DEF VS!Find, VS!SelectInSeq
<1>2. CASE I # {}
  <2>1. I \in SUBSET Nat
    OBVIOUS
  <2>2. \E x \in I : \A y \in I : x <= y
    BY <1>2, <2>1, LeastElement
  <2>3. VS!Min(I) \in I /\ \A y \in I : VS!Min(I) <= y
    BY <2>2 DEF VS!Min
  <2>4. ASSUME NEW j \in DOMAIN vs_nodes, j < VS!Min(I) PROVE j \notin I
    <3>1. j \in Nat /\ VS!Min(I) \in Nat
      BY <2>1, <2>3
    <3> QED  BY <2>3, <2>4, <3>1
  <2> QED  BY <1>1, <1>2, <2>3, <2>4
<1>3. CASE I = {}
  BY <1>1, <1>3
<1> QED  BY <1>2, <1>3

\* A process is lost when its Child is overwritten or dropped.
LEMMA OrphansStep ==
  ASSUME BedInv, OrphansType, VsSide
  PROVE  OrphansType'
<1>1. ProtocolInv /\ vs_nodes \in Seq(VS!NodeState) /\ "vs" \in Actors
  BY TestBedAssumption DEF BedInv, VsInv
<1>2. VS!NothingLost \in [IP -> Nat]
  BY DEF VS!NothingLost
<1>3. ASSUME NEW ns \in Seq(VS!NodeState), NEW lost \in [IP -> Nat], VS!Crash(ns, lost)
      PROVE  OrphansType'
  <2>1. \A ip \in IP : VS!Children(ns, ip) \in Nat
    BY CountsProcesses
  <2> QED  BY <1>3, <2>1 DEF VS!Crash, OrphansType
<1>4. ASSUME NEW ns \in Seq(VS!NodeState), NEW lost \in [IP -> Nat], NEW r, VS!Finish(ns, lost, r)
      PROVE  OrphansType'
  BY <1>3, <1>4 DEF VS!Finish, OrphansType
<1>5. \A ops : VS!Serving(ops) /\ "None" \notin ops => current["vs"].op \in ops /\ current["vs"] # None
  BY DEF VS!Serving, VS!Processing, None
<1>6. ASSUME NEW ips \in Seq(IP) PROVE vs_nodes \o VS!Started(ips) \in Seq(VS!NodeState)
  BY <1>1, NodesStarted
<1>7. current["vs"] # None /\ current["vs"].op = "Start" => current["vs"].arg \in Seq(IP)
  BY <1>1, Addresses
<1>8. CASE VS!Version
  BY <1>1, <1>2, <1>4, <1>8 DEF VS!Version, VS!FinishWith
<1>9. CASE VS!start
  <2>1. current["vs"].arg \in Seq(IP)
    BY <1>5, <1>7, <1>9 DEF VS!start
  <2>2. vs_nodes \o VS!Started(current["vs"].arg) \in Seq(VS!NodeState)
    BY <1>6, <2>1
  <2> QED  BY <1>2, <1>4, <1>9, <2>2 DEF VS!start, VS!FinishWith
<1>10. CASE VS!start_node
  <2> DEFINE found == {VS!Find(current["vs"].arg[1])} \ {0}
  <2>1. VS!Finish(VS!Restarted(found), VS!Overwritten(found), VS!NoAnswer)
    BY <1>10 DEF VS!start_node
  <2>2. VS!Overwritten(found) \in [IP -> Nat]
    <3>1. found \in SUBSET DOMAIN vs_nodes
      BY <1>1, FindsNode
    <3> HIDE DEF found
    <3>2. \A ip \in IP : Cardinality({i \in found : vs_nodes[i].ip = ip /\ vs_nodes[i].child}) \in Nat
      BY <1>1, <3>1, CountsProcesses
    <3> QED  BY <3>2, SameCardinality DEF VS!Overwritten
  <2> QED  BY <1>1, <1>4, <2>1, <2>2, NodesChanged
<1>11. CASE VS!stop
  <2>1. <<>> \in Seq(VS!NodeState)
    OBVIOUS
  <2> QED  BY <1>2, <1>4, <1>11, <2>1 DEF VS!stop, VS!FinishWith
<1>12. CASE VS!stop_node
  BY <1>1, <1>2, <1>4, <1>12, NodesChanged DEF VS!stop_node, VS!FinishWith
<1>13. CASE VS!wait_for_ready
  BY <1>1, <1>2, <1>4, <1>13 DEF VS!wait_for_ready, VS!FinishWith
<1>14. CASE VS!WaitTimesOut
  BY <1>1, <1>2, <1>3, <1>14 DEF VS!WaitTimesOut
<1>15. CASE VS!SpawnFails
  <2>1. PICK k \in 0 .. Len(current["vs"].arg) - 1 :
          \/ /\ current["vs"].op = "Start"
             /\ VS!Crash(vs_nodes \o VS!Started(SubSeq(current["vs"].arg, 1, k)), VS!NothingLost)
          \/ VS!Crash(vs_nodes, VS!NothingLost)
    BY <1>15 DEF VS!SpawnFails
  <2>2. CASE current["vs"].op = "Start"
    <3>1. current["vs"].arg \in Seq(IP)
      BY <1>5, <1>7, <1>15, <2>2 DEF VS!SpawnFails
    <3>2. SubSeq(current["vs"].arg, 1, k) \in Seq(IP)
      BY <3>1
    <3> QED  BY <1>1, <1>2, <1>3, <1>6, <2>1, <3>2
  <2>3. CASE current["vs"].op # "Start"
    BY <1>1, <1>2, <1>3, <2>1, <2>3
  <2> QED  BY <2>2, <2>3
<1>16. CASE Taken("vs") \/ VS!wait_for_node \/ VS!Shutdown \/ \E ip \in IP : VS!BecomesReady(ip)
  BY <1>16 DEF Taken, resources, vsVars, VS!wait_for_node, VS!Shutdown, VS!BecomesReady, OrphansType
<1> QED
  BY <1>8, <1>9, <1>10, <1>11, <1>12, <1>13, <1>14, <1>15, <1>16 DEF VsSide, VsStep, VS!process

\* Only routes that were asked for are changed (Firewall::Change).
LEMMA RoutesStep ==
  ASSUME BedInv, RoutesType, FwStep
  PROVE  RoutesType'
<1>1. \A s \in Seq(IP) : s # <<>> => Head(s) \in IP
  OBVIOUS
<1>2. fw_left \in Seq(IP)
  BY DEF BedInv, FwInv
<1> QED
  BY <1>1, <1>2
  DEF FwStep, FW!process, Taken, resources, fwVars, FW!turn_off_rules, FW!drop_traffic, FW!Change,
      FW!remove_unreachable_route, FW!add_unreachable_route, FW!Done, FW!Shutdown, FW!firewallVars, RoutesType

\* A proxy listens on addresses that were asked for (ScyllaProxyCluster::Run).
LEMMA ProxyStep ==
  ASSUME BedInv, PX!ProxyTypeOK, PxStep
  PROVE  PX!ProxyTypeOK'
<1>1. ProtocolInv /\ "px" \in Actors
  BY TestBedAssumption DEF BedInv
<1>2. CASE PX!start
  <2> DEFINE addrs == current["px"].arg
  <2>1. addrs \in SUBSET IP
    <3>1. current["px"] # None /\ current["px"].op = "Start"
      BY <1>2 DEF PX!start, PX!Processing, None
    <3> QED  BY <1>1, <3>1, IsCalled, TestBedAssumption
  <2>2. UNCHANGED pxVars \/ PX!Run(addrs, px_listening \ px_proxy)
    BY <1>2 DEF PX!start, PX!proxyVars, pxVars
  <2> HIDE DEF addrs
  <2>3. CASE PX!Run(addrs, px_listening \ px_proxy)
    <3>1. PICK fails \in BOOLEAN :
            /\ px_proxy' \in {addrs, {}}
            /\ px_listening' = (px_listening \ px_proxy) \cup px_proxy'
            /\ px_rules' = {} /\ px_offered' = addrs /\ px_refused' = fails
      BY <2>3 DEF PX!Run
    <3> QED  BY <2>1, <3>1 DEF PX!ProxyTypeOK
  <2>4. CASE UNCHANGED pxVars
    BY <2>4 DEF pxVars, PX!ProxyTypeOK
  <2> QED  BY <2>2, <2>3, <2>4
<1>3. CASE PX!Finished
  BY <1>3 DEF PX!Finished, PX!ProxyTypeOK
<1>4. CASE PX!change_request_rules \/ PX!change_response_rules
  BY <1>4 DEF PX!change_request_rules, PX!change_response_rules, PX!Change, PX!ProxyTypeOK
<1>5. CASE PX!turn_off_rules \/ UNCHANGED pxVars
  BY <1>5 DEF PX!turn_off_rules, PX!ProxyTypeOK, pxVars
<1> QED
  BY <1>2, <1>3, <1>4, <1>5 DEF PxStep, PX!process, PX!stop, PX!Shutdown, Taken, resources

\* Records hold addresses, and were changed by clients (Dns::upsert, Dns::remove).
LEMMA ZoneStep ==
  ASSUME BedInv, DNS!DnsTypeOK, DnsStep
  PROVE  DNS!DnsTypeOK'
<1>1. ProtocolInv /\ "dns" \in Actors
  BY TestBedAssumption DEF BedInv
<1>2. current["dns"] # None => current["dns"].client \in Client \cup {NoClient}
  BY <1>1, MessageFields DEF ProtocolInv, ProtocolType
<1>3. \A ops : DNS!Processing("dns", ops) /\ "None" \notin ops => current["dns"].op \in ops /\ current["dns"] # None
  BY DEF DNS!Processing, None
<1>4. CASE DNS!upsert
  <2>1. current["dns"] # None /\ current["dns"].op = "Upsert"
    BY <1>3, <1>4 DEF DNS!upsert
  <2>2. current["dns"].arg[2] \in IP
    BY <1>1, <2>1, IsCalled, TestBedAssumption
  <2>3. \E others \in {{}, dns_zone[current["dns"].arg[1]]} :
          dns_zone' = [dns_zone EXCEPT ![current["dns"].arg[1]] = others \cup {current["dns"].arg[2]}]
    BY <1>4 DEF DNS!upsert
  <2>4. dns_zone' \in [Name -> SUBSET IP]
    BY <1>4, <2>2, <2>3 DEF DNS!upsert, DNS!DnsTypeOK
  <2> QED  BY <1>2, <1>4, <2>1, <2>4 DEF DNS!upsert, DNS!DnsTypeOK
<1>5. CASE DNS!remove
  <2>1. current["dns"] # None
    BY <1>3, <1>5 DEF DNS!remove
  <2> QED  BY <1>2, <1>5, <2>1 DEF DNS!remove, DNS!DnsTypeOK
<1>6. CASE DNS!Query \/ DNS!ParseFails \/ DNS!Shutdown
  BY <1>6 DEF DNS!Query, DNS!ParseFails, DNS!Shutdown, DNS!DnsTypeOK
<1>7. CASE Taken("dns")
  BY <1>7 DEF Taken, resources, dnsVars, DNS!DnsTypeOK
<1> QED  BY <1>4, <1>5, <1>6, <1>7 DEF DnsStep, DNS!process

\* The variables have their types at the start.
LEMMA InitTypes == Init => TypeInv
<1> SUFFICES ASSUME Init PROVE TypeInv
  OBVIOUS
<1>1. ClientType
  BY ClientTypeInit DEF Init
<1> QED
  BY <1>1 DEF Init, VS!ProcessesInit, VS!NothingLost, FW!FirewallInit, PX!ProxyInit, DNS!DnsInit, TLS!TlsInit,
     TypeInv, OrphansType, RoutesType, PX!ProxyTypeOK, DNS!DnsTypeOK, TLS!TlsTypeOK

\* Nobody changes the resources of another actor.
LEMMA TypeStep ==
  ASSUME BedInv, TypeInv, [Next]_vars
  PROVE  TypeInv'
<1>1. ClientType'
  BY NextIsProtocolStep, ClientTypeKeeps DEF BedInv, TypeInv
<1>2. VsSide \/ UNCHANGED vsVars
  BY NextSplits DEF ClientsStep, FwStep, PxStep, DnsStep, TlsStep, Taken, resources, vars
<1>3. FwStep \/ UNCHANGED fwVars
  BY NextSplits DEF ClientsStep, VsSide, PxStep, DnsStep, TlsStep, Taken, resources, vars
<1>4. PxStep \/ UNCHANGED pxVars
  BY NextSplits DEF ClientsStep, VsSide, FwStep, DnsStep, TlsStep, Taken, resources, vars
<1>5. DnsStep \/ UNCHANGED dnsVars
  BY NextSplits DEF ClientsStep, VsSide, FwStep, PxStep, TlsStep, Taken, resources, vars
<1>6. TlsStep \/ UNCHANGED tls_files
  BY NextSplits DEF ClientsStep, VsSide, FwStep, PxStep, DnsStep, Taken, resources, vars
<1>7. OrphansType'
  BY <1>2, OrphansStep DEF TypeInv, OrphansType, vsVars
<1>8. RoutesType'
  BY <1>3, RoutesStep DEF TypeInv, RoutesType, fwVars
<1>9. PX!ProxyTypeOK'
  BY <1>4, ProxyStep DEF TypeInv, PX!ProxyTypeOK, pxVars
<1>10. DNS!DnsTypeOK'
  BY <1>5, ZoneStep DEF TypeInv, DNS!DnsTypeOK, dnsVars
<1>11. TLS!TlsTypeOK'
  BY <1>6 DEF TypeInv, TLS!TlsTypeOK, TlsStep, TLS!process, TLS!Serve, TLS!Shutdown, Taken, resources
<1> QED  BY <1>1, <1>7, <1>8, <1>9, <1>10, <1>11 DEF TypeInv

-----------------------------------------------------------------------------
(***************************************************************************)
(* Updates of the zone, which nobody acknowledges, take effect in order.   *)
(***************************************************************************)

\* The places of the changes of n that c has sent and that are still to be served.
Coming(c, n) ==
  {i \in Places("dns") : /\ MsgAt("dns", i) # None /\ MsgAt("dns", i).client = c
                         /\ DNS!Changes(MsgAt("dns", i), n)}

Newest(S, x) == x \in S /\ \A y \in S : x >= y

\* The last change of n that c has called is the last one of c in the mailbox; or none
\* of c is there, and the record is as that change left it unless another client
\* has changed it since.
ZoneOf(c, n) ==
  actor["dns"] = "run" /\ call[c] \in {"idle", "awaiting"} =>
    \A u : Newest(DNS!Updates(c, n), u) =>
      \/ \E i : Newest(Coming(c, n), i) /\ MsgAt("dns", i) = Message(plan[c][u], c)
      \/ /\ Coming(c, n) = {}
         /\ dns_changer[n] \in {c, NoClient} => DNS!InEffect(plan[c][u], n)

ZoneInv == Senders /\ \A c \in Client, n \in Name : ZoneOf(c, n)

\* c goes on with its plan, and neither sends a change of n nor loses one; the record of
\* n is as it was.
Unaffected(c, n) ==
  /\ actor["dns"] = "run" /\ call[c] \in {"idle", "awaiting"}
  /\ DNS!Updates(c, n)' = DNS!Updates(c, n) /\ plan'[c] = plan[c]
  /\ Coming(c, n)' = Coming(c, n)
  /\ \A i \in Coming(c, n) : MsgAt("dns", i)' = MsgAt("dns", i)
  /\ dns_zone'[n] = dns_zone[n] /\ dns_changer'[n] = dns_changer[n]

\* Whatever does not concern c and n (TestBed::ClientOf, TestBed::Taken).
LEMMA ZoneStays ==
  ASSUME NEW c \in Client, NEW n \in Name, ZoneOf(c, n),
         actor'["dns"] = "run" /\ call'[c] \in {"idle", "awaiting"} => Unaffected(c, n)
  PROVE  ZoneOf(c, n)'
<1> SUFFICES ASSUME actor'["dns"] = "run", call'[c] \in {"idle", "awaiting"},
                    NEW u, Newest(DNS!Updates(c, n)', u)
             PROVE  \/ \E i : Newest(Coming(c, n)', i) /\ MsgAt("dns", i)' = Message(plan'[c][u], c)
                    \/ /\ Coming(c, n)' = {}
                       /\ dns_changer'[n] \in {c, NoClient} => DNS!InEffect(plan[c][u], n)'
  BY DEF ZoneOf, Newest
<1>1. Unaffected(c, n)
  OBVIOUS
<1>2. \/ \E i : Newest(Coming(c, n), i) /\ MsgAt("dns", i) = Message(plan[c][u], c)
      \/ /\ Coming(c, n) = {}
         /\ dns_changer[n] \in {c, NoClient} => DNS!InEffect(plan[c][u], n)
  BY <1>1 DEF ZoneOf, Unaffected
<1>3. DNS!InEffect(plan[c][u], n) => DNS!InEffect(plan[c][u], n)'
  BY <1>1 DEF DNS!InEffect, Unaffected
<1> QED  BY <1>1, <1>2, <1>3 DEF Unaffected, Newest

\* The calls that c has made, when neither its plan nor its script changes.
LEMMA SameUpdates ==
  ASSUME NEW c \in Client, NEW n, script'[c] = script[c], plan'[c] = plan[c]
  PROVE  DNS!Updates(c, n)' = DNS!Updates(c, n)
BY DEF DNS!Updates, DNS!Changes

\* The messages of c stay where they are.
LEMMA SameComing ==
  ASSUME NEW c \in Client, NEW n, Places("dns")' = Places("dns"),
         \A i \in Places("dns") :
           \/ MsgAt("dns", i)' = MsgAt("dns", i)
           \/ /\ MsgAt("dns", i)' = None \/ MsgAt("dns", i)'.client # c
              /\ \/ MsgAt("dns", i) = None \/ MsgAt("dns", i).client # c
                 \/ ~ DNS!Changes(MsgAt("dns", i), n)
  PROVE  /\ Coming(c, n)' = Coming(c, n)
         /\ \A i \in Coming(c, n) : MsgAt("dns", i)' = MsgAt("dns", i)
BY DEF Coming, DNS!Changes

\* The task of an actor changes a client only by answering it (Actor::Reply).
LEMMA ActorsLeaveScripts ==
  ASSUME ProtocolInv, NEW a \in Actors, OwnStep(a), NEW c \in Client,
         call'[c] \in {"idle", "awaiting"}
  PROVE  call[c] \in {"idle", "awaiting"} /\ script'[c] = script[c] /\ plan'[c] = plan[c]
<1>1. ProtocolType
  BY DEF ProtocolInv
<1>2. CASE Serves(a)
  <2>1. CASE Panic(a)
    BY <2>1 DEF Panic, clientVars
  <2>2. ASSUME NEW result, Reply(a, result)
        PROVE  call[c] \in {"idle", "awaiting"} /\ script'[c] = script[c] /\ plan'[c] = plan[c]
    <3>1. CASE From(current[a], c)
      <4>1. call[c] = "awaiting"
        <5>1. 0 \in Places(a) /\ MsgAt(a, 0) = current[a]
          BY <1>1 DEF Places, MsgAt, ProtocolType
        <5> QED  BY <3>1, <5>1 DEF Awaited, ProtocolInv
      <4>2. current[a].client = c /\ current[a].reply # "none" /\ c # NoClient
        BY <3>1, ActorAssumption DEF From
      <4> QED  BY <1>1, <2>2, <4>1, <4>2 DEF Reply, ProtocolType
    <3>2. CASE ~ From(current[a], c)
      BY <1>1, <1>2, <2>2, <3>2 DEF Reply, From, clientVars, ProtocolType, Serves
    <3> QED  BY <3>1, <3>2
  <2> QED  BY <1>2, <2>1, <2>2 DEF Serves
<1>3. CASE Receive(a) \/ Ends(a) \/ UNCHANGED actorVars
  BY <1>3 DEF Receive, Ends, actorVars, clientVars
<1> QED  BY <1>2, <1>3 DEF OwnStep

\* Other actors leave the zone and what is to be served alone.
LEMMA ZoneApart ==
  ASSUME ProtocolInv, NEW a \in Actors \ {"dns"}, OwnStep(a), UNCHANGED dnsVars,
         NEW c \in Client, NEW n \in Name, ZoneOf(c, n)
  PROVE  ZoneOf(c, n)'
<1>1. current'["dns"] = current["dns"] /\ mailbox'["dns"] = mailbox["dns"] /\ actor'["dns"] = actor["dns"]
  BY OthersKeep, TestBedAssumption
<1>2. /\ Coming(c, n)' = Coming(c, n)
      /\ \A i \in Coming(c, n) : MsgAt("dns", i)' = MsgAt("dns", i)
  BY <1>1 DEF Coming, Places, MsgAt, DNS!Changes
<1>3. ASSUME actor'["dns"] = "run", call'[c] \in {"idle", "awaiting"} PROVE Unaffected(c, n)
  <2>1. call[c] \in {"idle", "awaiting"} /\ script'[c] = script[c] /\ plan'[c] = plan[c]
    BY <1>3, ActorsLeaveScripts
  <2> QED  BY <1>1, <1>2, <1>3, <2>1, SameUpdates DEF Unaffected, dnsVars
<1> QED  BY <1>3, ZoneStays

\* The actor takes the next message: all places move up by one (Actor::Receive).
LEMMA ZoneReceive ==
  ASSUME ProtocolInv, Receive("dns"), UNCHANGED dnsVars,
         NEW c \in Client, NEW n \in Name, ZoneOf(c, n)
  PROVE  ZoneOf(c, n)'
<1>1. ProtocolType /\ "dns" \in Actors
  BY TestBedAssumption DEF ProtocolInv
<1>2. /\ mailbox["dns"] \in Seq(Messages) /\ mailbox["dns"] # <<>> /\ current["dns"] = None
      /\ actor["dns"] = "run" /\ UNCHANGED <<plan, script, call>>
  BY <1>1 DEF Receive, ProtocolType, clientVars
<1>3. /\ current'["dns"] = mailbox["dns"][1] /\ mailbox'["dns"] = Tail(mailbox["dns"])
      /\ Len(mailbox["dns"]) \in Nat \ {0} /\ Len(Tail(mailbox["dns"])) = Len(mailbox["dns"]) - 1
      /\ \A i \in 1 .. Len(mailbox["dns"]) - 1 : Tail(mailbox["dns"])[i] = mailbox["dns"][i + 1]
  BY <1>1, <1>2 DEF Receive, ProtocolType
<1>4. /\ Places("dns") = 0 .. Len(mailbox["dns"]) /\ Places("dns")' = 0 .. Len(mailbox["dns"]) - 1
      /\ \A i \in Places("dns")' : MsgAt("dns", i)' = MsgAt("dns", i + 1)
  BY <1>3 DEF Places, MsgAt
<1>5. Coming(c, n) \subseteq 1 .. Len(mailbox["dns"])
  BY <1>2, <1>3, <1>4 DEF Coming, MsgAt
<1>6. \A i \in 0 .. Len(mailbox["dns"]) - 1 : i \in Coming(c, n)' <=> i + 1 \in Coming(c, n)
  BY <1>3, <1>4 DEF Coming, DNS!Changes
<1>7. Coming(c, n)' \subseteq 0 .. Len(mailbox["dns"]) - 1
  BY <1>4 DEF Coming
<1>8. Coming(c, n)' = {} <=> Coming(c, n) = {}
  <2>1. ASSUME NEW i \in Coming(c, n) PROVE i - 1 \in Coming(c, n)'
    <3>1. i - 1 \in 0 .. Len(mailbox["dns"]) - 1 /\ (i - 1) + 1 = i
      BY <1>3, <1>5
    <3> QED  BY <1>6, <3>1
  <2> QED  BY <1>6, <1>7, <2>1
<1>9. ASSUME NEW i, Newest(Coming(c, n), i)
      PROVE  Newest(Coming(c, n)', i - 1) /\ MsgAt("dns", i - 1)' = MsgAt("dns", i)
  <2>1. i \in 1 .. Len(mailbox["dns"]) /\ i - 1 \in 0 .. Len(mailbox["dns"]) - 1 /\ (i - 1) + 1 = i
    BY <1>3, <1>5, <1>9 DEF Newest
  <2>2. i - 1 \in Coming(c, n)' /\ MsgAt("dns", i - 1)' = MsgAt("dns", i)
    BY <1>4, <1>6, <1>9, <2>1 DEF Newest
  <2>3. ASSUME NEW j \in Coming(c, n)' PROVE i - 1 >= j
    <3>1. j \in 0 .. Len(mailbox["dns"]) - 1 /\ j + 1 \in Coming(c, n)
      BY <1>6, <1>7
    <3>2. i >= j + 1
      BY <1>9, <3>1 DEF Newest
    <3> QED  BY <1>3, <2>1, <3>1, <3>2
  <2> QED  BY <2>2, <2>3 DEF Newest
<1> SUFFICES ASSUME call[c] \in {"idle", "awaiting"}, NEW u, Newest(DNS!Updates(c, n), u)
             PROVE  \/ \E i : Newest(Coming(c, n)', i) /\ MsgAt("dns", i)' = Message(plan[c][u], c)
                    \/ /\ Coming(c, n)' = {}
                       /\ dns_changer[n] \in {c, NoClient} => DNS!InEffect(plan[c][u], n)
  <2>1. DNS!Updates(c, n)' = DNS!Updates(c, n) /\ plan' = plan /\ call' = call
    BY <1>2, SameUpdates
  <2>2. \A u : DNS!InEffect(plan[c][u], n)' <=> DNS!InEffect(plan[c][u], n)
    BY <2>1 DEF DNS!InEffect, dnsVars
  <2> QED  BY <2>1, <2>2 DEF ZoneOf, Newest, dnsVars
<1>10. \/ \E i : Newest(Coming(c, n), i) /\ MsgAt("dns", i) = Message(plan[c][u], c)
       \/ /\ Coming(c, n) = {}
          /\ dns_changer[n] \in {c, NoClient} => DNS!InEffect(plan[c][u], n)
  BY <1>2 DEF ZoneOf
<1> QED  BY <1>8, <1>9, <1>10

\* An upsert or remove takes effect when it is served, and is then the last change of
\* its name (Dns::upsert, Dns::remove).
LEMMA ZoneServed ==
  ASSUME ProtocolInv, Senders, DNS!DnsTypeOK, DNS!upsert \/ DNS!remove,
         NEW c \in Client, NEW n \in Name, ZoneOf(c, n)
  PROVE  ZoneOf(c, n)'
<1> PICK m : m = current["dns"]
  OBVIOUS
<1>1. ProtocolType /\ "dns" \in Actors
  BY TestBedAssumption DEF ProtocolInv
<1>2. m # None /\ m.op \in {"Upsert", "Remove"} /\ actor["dns"] = "run"
  BY DEF DNS!upsert, DNS!remove, DNS!Processing, None
<1>3. m.to = "dns" /\ m.reply = "none" /\ m.client \in Client
  <2>1. m.reply = "none"
    BY <1>1, <1>2, IsCalled, TestBedAssumption
  <2>2. m.client \in Client
    BY <1>1, <1>2, <2>1 DEF Senders, Signed
  <2>3. m.to = "dns"
    <3>1. 0 \in Places("dns") /\ MsgAt("dns", 0) = m
      BY <1>1 DEF Places, MsgAt, ProtocolType
    <3> QED  BY <1>1, <1>2, <3>1 DEF Addressed, ProtocolInv
  <2> QED  BY <2>1, <2>2, <2>3
<1>4. UNCHANGED <<clientVars, mailbox, actor>> /\ current' = [current EXCEPT !["dns"] = None]
  BY <1>3 DEF DNS!upsert, DNS!remove, DNS!Reply, DNS!None, None, DNS!clientVars, clientVars
<1>5. /\ Places("dns") \subseteq Nat /\ 0 \in Places("dns") /\ Places("dns")' = Places("dns")
      /\ MsgAt("dns", 0) = m /\ MsgAt("dns", 0)' = None
      /\ \A i \in Places("dns") \ {0} : MsgAt("dns", i)' = MsgAt("dns", i)
  BY <1>1, <1>4 DEF Places, MsgAt, ProtocolType
<1>6. Coming(c, n)' = Coming(c, n) \ {0} /\ Coming(c, n) \subseteq Nat
      /\ \A i \in Coming(c, n) \ {0} : MsgAt("dns", i)' = MsgAt("dns", i)
  BY <1>5 DEF Coming, DNS!Changes
<1>7. 0 \in Coming(c, n) <=> m.client = c /\ m.arg[1] = n
  BY <1>2, <1>3, <1>5 DEF Coming, DNS!Changes
<1>8. /\ m.arg[1] = n => dns_changer'[n] = m.client /\ DNS!InEffect(m, n)'
      /\ m.arg[1] # n => dns_changer'[n] = dns_changer[n] /\ dns_zone'[n] = dns_zone[n]
  <2>1. dns_zone \in [Name -> SUBSET IP] /\ dns_changer \in [Name -> Client \cup {NoClient}]
    BY DEF DNS!DnsTypeOK
  <2>2. CASE DNS!upsert
    <3>1. m.op = "Upsert"
      BY <1>2, <2>2 DEF DNS!upsert, DNS!Processing
    <3>2. PICK others : dns_zone' = [dns_zone EXCEPT ![m.arg[1]] = others \cup {m.arg[2]}]
      BY <2>2 DEF DNS!upsert
    <3>3. dns_changer' = [dns_changer EXCEPT ![m.arg[1]] = m.client]
      BY <2>2 DEF DNS!upsert
    <3> QED  BY <2>1, <3>1, <3>2, <3>3 DEF DNS!InEffect
  <2>3. CASE DNS!remove
    <3>1. m.op = "Remove"
      BY <1>2, <2>3 DEF DNS!remove, DNS!Processing
    <3>2. /\ dns_zone' = [dns_zone EXCEPT ![m.arg[1]] = {}]
          /\ dns_changer' = [dns_changer EXCEPT ![m.arg[1]] = m.client]
      BY <2>3 DEF DNS!remove
    <3> QED  BY <2>1, <3>1, <3>2 DEF DNS!InEffect
  <2> QED  BY <2>2, <2>3
<1>9. DNS!Updates(c, n)' = DNS!Updates(c, n) /\ plan' = plan /\ call' = call
  BY <1>4, SameUpdates DEF clientVars
<1> SUFFICES ASSUME call[c] \in {"idle", "awaiting"},
                    NEW u, Newest(DNS!Updates(c, n), u), NEW e, e = plan[c][u]
             PROVE  \/ \E i : Newest(Coming(c, n)', i) /\ MsgAt("dns", i)' = Message(e, c)
                    \/ /\ Coming(c, n)' = {}
                       /\ dns_changer'[n] \in {c, NoClient} => DNS!InEffect(e, n)'
  <2>1. \A u : DNS!InEffect(plan[c][u], n)' <=> \E e : e = plan[c][u] /\ DNS!InEffect(e, n)'
    BY <1>9 DEF DNS!InEffect
  <2> QED  BY <1>9, <2>1 DEF ZoneOf, Newest
<1>10. \/ \E i : Newest(Coming(c, n), i) /\ MsgAt("dns", i) = Message(e, c)
       \/ /\ Coming(c, n) = {}
          /\ dns_changer[n] \in {c, NoClient} => DNS!InEffect(e, n)
  BY <1>2 DEF ZoneOf
<1>11. CASE Coming(c, n) = {}
  <2>1. Coming(c, n)' = {} /\ (m.arg[1] = n => m.client # c)
    BY <1>6, <1>7, <1>11
  <2>2. CASE m.arg[1] = n
    BY <1>3, <1>8, <2>1, <2>2, ActorAssumption
  <2>3. CASE m.arg[1] # n
    BY <1>8, <1>10, <1>11, <2>1, <2>3 DEF DNS!InEffect, Newest
  <2> QED  BY <2>2, <2>3
<1>12. ASSUME NEW i, Newest(Coming(c, n), i), MsgAt("dns", i) = Message(e, c)
       PROVE  \/ Newest(Coming(c, n)', i) /\ MsgAt("dns", i)' = Message(e, c)
              \/ Coming(c, n)' = {} /\ DNS!InEffect(e, n)'
  <2>1. CASE i = 0
    <3>1. Coming(c, n)' = {}
      BY <1>6, <1>12, <2>1 DEF Newest
    <3>2. DNS!InEffect(m, n)' /\ m = Message(e, c)
      BY <1>5, <1>7, <1>8, <1>12, <2>1 DEF Newest
    <3>3. m.op = e.op /\ m.arg = e.arg
      BY <3>2 DEF Message
    <3> QED  BY <3>1, <3>2, <3>3 DEF DNS!InEffect
  <2>2. CASE i # 0
    BY <1>6, <1>12, <2>2 DEF Newest
  <2> QED  BY <2>1, <2>2
<1> QED  BY <1>10, <1>11, <1>12

\* What c has called so far are the first calls of its plan.
LEMMA UpdatesWithin ==
  ASSUME NEW c \in Client, NEW n, NEW k, k = Len(plan[c]) - Len(script[c])
  PROVE  DNS!Updates(c, n) \subseteq 1 .. k
BY DEF DNS!Updates

\* A client that makes its next call has made one more of its plan (Actor::Send).
LEMMA SendUpdates ==
  ASSUME ProtocolInv, ClientType, NEW c \in Client, Send(c), NEW n
  PROVE  LET p == Len(plan[c]) - Len(script[c]) + 1
         IN /\ p \in Nat /\ plan[c][p] = Head(script[c]) /\ plan'[c] = plan[c]
            /\ DNS!Updates(c, n) \subseteq 1 .. p - 1
            /\ DNS!Updates(c, n)' =
                 DNS!Updates(c, n) \cup {i \in {p} : DNS!Changes(Head(script[c]), n)}
<1> DEFINE s == script[c]
           t == plan[c]
           p == Len(t) - Len(s) + 1
<1>1. s \in Seq(Calls) /\ t \in Seq(Calls) /\ s # <<>>
      /\ script'[c] = Tail(s) /\ plan'[c] = t
  BY DEF ProtocolInv, ProtocolType, Send, Calling
<1>2. IsSuffix(s, t)
  BY DEF ClientType
<1> HIDE DEF s, t
<1>3. Len(s) \in Nat \ {0} /\ Len(t) \in Nat /\ Len(Tail(s)) = Len(s) - 1 /\ Head(s) = s[1]
  BY <1>1
<1>4. Len(s) <= Len(t) /\ s[1] = t[Len(t) - Len(s) + 1]
  BY <1>1, <1>2, <1>3, SuffixElements
<1>5. DNS!Updates(c, n) = {i \in 1 .. p - 1 : DNS!Changes(t[i], n)}
  <2>1. Len(t) - Len(s) = p - 1
    BY <1>3
  <2> HIDE DEF p
  <2> QED  BY <2>1 DEF DNS!Updates, s, t
<1>6. DNS!Updates(c, n)' = {i \in 1 .. p : DNS!Changes(t[i], n)}
  <2>1. Len(t) - Len(Tail(s)) = p
    BY <1>3
  <2> QED  BY <1>1, <2>1 DEF DNS!Updates, DNS!Changes
<1>7. 1 .. p = (1 .. p - 1) \cup {p} /\ p \in Nat
  BY <1>3, <1>4
<1>8. t[p] = Head(s)
  BY <1>3, <1>4
<1>9. DNS!Updates(c, n)' = DNS!Updates(c, n) \cup {i \in {p} : DNS!Changes(Head(s), n)}
  <2> HIDE DEF p
  <2> QED  BY <1>5, <1>6, <1>7, <1>8
<1> QED  BY <1>1, <1>5, <1>7, <1>8, <1>9 DEF s, t

\* A call is placed behind all others, or with another actor.
LEMMA SendPlaces ==
  ASSUME ProtocolInv, NEW c \in Client, Send(c), NEW k, k = Len(mailbox["dns"]) + 1
  PROVE  LET m == Head(script[c])
         IN /\ m \in Calls /\ Places("dns") \subseteq 0 .. k - 1 /\ k \in Nat
            /\ \A i \in Places("dns") : MsgAt("dns", i)' = MsgAt("dns", i)
            /\ IF m.to = "dns" THEN /\ Places("dns")' = Places("dns") \cup {k}
                                    /\ MsgAt("dns", k)' = Message(m, c)
               ELSE Places("dns")' = Places("dns")
<1> DEFINE m == Head(script[c])
<1>1. m \in Calls /\ "dns" \in Actors
  BY TestBedAssumption DEF ProtocolInv, ProtocolType, Send, Calling
<1>2. mailbox["dns"] \in Seq(Messages) /\ Len(mailbox["dns"]) \in Nat
  BY <1>1 DEF ProtocolInv, ProtocolType
<1>3. mailbox' = [mailbox EXCEPT ![m.to] = Append(@, Message(m, c))] /\ current' = current
  BY DEF Send
<1>4. Places("dns") = 0 .. k - 1 /\ k \in Nat
  BY <1>2 DEF Places
<1> HIDE DEF m
<1>5. CASE m.to = "dns"
  <2>1. mailbox'["dns"] = Append(mailbox["dns"], Message(m, c))
    BY <1>1, <1>3, <1>5 DEF ProtocolInv, ProtocolType
  <2>2. /\ Len(mailbox'["dns"]) = k /\ mailbox'["dns"][k] = Message(m, c)
        /\ \A j \in 1 .. k - 1 : mailbox'["dns"][j] = mailbox["dns"][j]
    BY <1>2, <2>1
  <2>3. Places("dns")' = 0 .. k
    BY <2>2 DEF Places
  <2>4. Places("dns")' = Places("dns") \cup {k}
    BY <1>4, <2>3
  <2>5. MsgAt("dns", k)' = Message(m, c)
    BY <1>4, <2>2, <2>3 DEF MsgAt
  <2>6. \A i \in Places("dns") : MsgAt("dns", i)' = MsgAt("dns", i)
    BY <1>3, <1>4, <2>2 DEF MsgAt
  <2> QED  BY <1>1, <1>4, <1>5, <2>4, <2>5, <2>6 DEF m
<1>6. CASE m.to # "dns"
  <2>1. mailbox'["dns"] = mailbox["dns"]
    BY <1>1, <1>3, <1>6 DEF ProtocolInv, ProtocolType
  <2> QED  BY <1>1, <1>3, <1>4, <1>6, <2>1 DEF MsgAt, Places, m
<1> QED  BY <1>5, <1>6

\* A change of n that c calls is the last one and stands last; other calls change
\* nothing for c and n (Actor::Send).
LEMMA ZoneSend ==
  ASSUME ProtocolInv, ClientType, NEW d \in Client, Send(d), UNCHANGED dnsVars,
         NEW c \in Client, NEW n \in Name, ZoneOf(c, n)
  PROVE  ZoneOf(c, n)'
<1> PICK k : k = Len(mailbox["dns"]) + 1
  OBVIOUS
<1> DEFINE m == Head(script[d])
           p == Len(plan[c]) - Len(script[c]) + 1
<1>1. /\ m \in Calls /\ Places("dns") \subseteq 0 .. k - 1 /\ k \in Nat
      /\ \A i \in Places("dns") : MsgAt("dns", i)' = MsgAt("dns", i)
      /\ m.to = "dns" => Places("dns")' = Places("dns") \cup {k} /\ MsgAt("dns", k)' = Message(m, d)
      /\ m.to # "dns" => Places("dns")' = Places("dns")
  BY SendPlaces
<1>2. /\ Message(m, d) # None /\ Message(m, d).client = d
      /\ DNS!Changes(Message(m, d), n) <=> DNS!Changes(m, n)
  <2>1. Message(m, d) \in Messages
    BY <1>1 DEF Messages
  <2>2. Message(m, d) # None
    BY <2>1, MessageFields
  <2> QED  BY <2>2 DEF Message, DNS!Changes
<1>3. d # c => plan'[c] = plan[c] /\ script'[c] = script[c] /\ call'[c] = call[c]
  BY DEF Send, ProtocolInv, ProtocolType
<1>4. call[d] = "idle" /\ actor' = actor /\ UNCHANGED dnsVars
  BY DEF Send, Calling
<1>5. CASE d = c /\ DNS!Changes(m, n)
  <2>1. m.to = "dns"
    BY <1>5 DEF DNS!Changes
  <2>2. /\ p \in Nat /\ plan'[c][p] = m /\ DNS!Updates(c, n) \subseteq 1 .. p - 1
        /\ DNS!Updates(c, n)' = DNS!Updates(c, n) \cup {p}
    <3>1. Send(c) /\ {i \in {p} : DNS!Changes(m, n)} = {p}
      BY <1>5
    <3>2. /\ p \in Nat /\ plan[c][p] = m /\ plan'[c] = plan[c]
          /\ DNS!Updates(c, n) \subseteq 1 .. p - 1
          /\ DNS!Updates(c, n)' = DNS!Updates(c, n) \cup {i \in {p} : DNS!Changes(m, n)}
      BY <1>5, <3>1, SendUpdates
    <3> QED  BY <3>1, <3>2, Zenon
  <2> HIDE DEF p, m
  <2>3. k \in Coming(c, n)'
    BY <1>1, <1>2, <1>5, <2>1 DEF Coming, DNS!Changes
  <2>4. Coming(c, n)' \subseteq 0 .. k
    BY <1>1, <2>1 DEF Coming
  <2>5. Newest(Coming(c, n)', k) /\ MsgAt("dns", k)' = Message(plan'[c][p], c)
    BY <1>1, <1>5, <2>1, <2>2, <2>3, <2>4 DEF Newest
  <2>6. \A u : Newest(DNS!Updates(c, n)', u) => u = p
    BY <2>2 DEF Newest
  <2> QED  BY <2>5, <2>6 DEF ZoneOf, Newest
<1>6. CASE d # c \/ ~ DNS!Changes(m, n)
  <2>1. DNS!Updates(c, n)' = DNS!Updates(c, n) /\ plan'[c] = plan[c]
    <3>1. CASE d # c
      BY <1>3, <3>1, SameUpdates
    <3>2. CASE d = c
      <4>1. /\ plan'[c] = plan[c]
            /\ DNS!Updates(c, n)' = DNS!Updates(c, n) \cup {i \in {p} : DNS!Changes(m, n)}
        BY <3>2, SendUpdates
      <4>2. {i \in {p} : DNS!Changes(m, n)} = {}
        BY <1>6, <3>2
      <4> HIDE DEF m, p
      <4> QED  BY <4>1, <4>2
    <3> QED  BY <3>1, <3>2
  <2> HIDE DEF m
  <2>2. Coming(c, n)' = Coming(c, n) /\ \A i \in Coming(c, n) : MsgAt("dns", i)' = MsgAt("dns", i)
    <3>1. Coming(c, n) \subseteq Places("dns")
      BY DEF Coming
    <3>2. CASE m.to = "dns"
      <4>1. k \notin Coming(c, n)'
        BY <1>1, <1>2, <1>6, <3>2 DEF Coming, DNS!Changes
      <4>2. k \notin Places("dns")
        BY <1>1
      <4> QED  BY <1>1, <3>1, <3>2, <4>1, <4>2 DEF Coming, DNS!Changes
    <3>3. CASE m.to # "dns"
      BY <1>1, <3>1, <3>3 DEF Coming, DNS!Changes
    <3> QED  BY <3>2, <3>3
  <2>3. ASSUME actor'["dns"] = "run", call'[c] \in {"idle", "awaiting"} PROVE Unaffected(c, n)
    BY <1>3, <1>4, <2>1, <2>2, <2>3 DEF Unaffected, dnsVars
  <2> QED  BY <2>3, ZoneStays
<1> QED  BY <1>5, <1>6

\* A cancelled client begins another plan; its message without a client changed nothing
\* (Actor::GiveUp).
LEMMA ZoneGiveUp ==
  ASSUME ProtocolInv, Senders, NEW d \in Client, GiveUp(d), UNCHANGED dnsVars,
         NEW c \in Client, NEW n \in Name, ZoneOf(c, n)
  PROVE  ZoneOf(c, n)'
<1>1. ProtocolType /\ "dns" \in Actors
  BY TestBedAssumption DEF ProtocolInv
<1>2. CASE c = d
  <2>1. Len(plan'[c]) - Len(script'[c]) = 0
    <3>1. script'[c] = plan'[c] /\ plan'[c] \in Seq(Calls)
      <4>1. Cleanup[c] \in Seq(Calls)
        BY ActorAssumption
      <4>2. plan'[c] = IF c \in cleaning THEN <<>> ELSE Cleanup[c]
        BY <1>1, <1>2 DEF GiveUp, ProtocolType
      <4> QED  BY <1>1, <1>2, <4>1, <4>2 DEF GiveUp, ProtocolType
    <3>2. Len(plan'[c]) \in Nat
      BY <3>1
    <3> QED  BY <3>1, <3>2
  <2>2. DNS!Updates(c, n)' = {}
    <3>1. DNS!Updates(c, n)' = {i \in 1 .. 0 : DNS!Changes(plan[c][i], n)'}
      BY <2>1 DEF DNS!Updates
    <3> QED  BY <3>1
  <2> QED  BY <2>2 DEF ZoneOf, Newest
<1>3. CASE c # d
  <2> DEFINE Dropped(m) == IF From(m, d) THEN [m EXCEPT !.client = NoClient] ELSE m
  <2>1. /\ current'["dns"] = Dropped(current["dns"])
        /\ mailbox'["dns"] = [i \in DOMAIN mailbox["dns"] |-> Dropped(mailbox["dns"][i])]
    BY <1>1 DEF GiveUp
  <2>2. \A m \in Messages \cup {None} :
          Dropped(m) = m \/ (Dropped(m).client = NoClient /\ m.client = d)
    BY MessageFields DEF From
  <2>3. mailbox["dns"] \in Seq(Messages) /\ current["dns"] \in Messages \cup {None}
    BY <1>1 DEF ProtocolType
  <2> HIDE DEF Dropped
  <2>4. Places("dns")' = Places("dns") /\ \A i \in Places("dns") : MsgAt("dns", i)' = Dropped(MsgAt("dns", i))
    <3>1. Len(mailbox'["dns"]) = Len(mailbox["dns"])
      BY <2>1, <2>3
    <3> QED  BY <2>1, <2>3, <3>1 DEF Places, MsgAt
  <2>5. \A i \in Places("dns") : MsgAt("dns", i) \in Messages \cup {None}
    BY <2>3 DEF Places, MsgAt
  <2>6. NoClient # c
    BY ActorAssumption
  <2>7. Coming(c, n)' = Coming(c, n) /\ \A i \in Coming(c, n) : MsgAt("dns", i)' = MsgAt("dns", i)
    BY <1>3, <2>2, <2>4, <2>5, <2>6, SameComing
  <2>8. plan'[c] = plan[c] /\ script'[c] = script[c] /\ call'[c] = call[c] /\ actor' = actor
    BY <1>1, <1>3 DEF GiveUp, ProtocolType
  <2>9. ASSUME actor'["dns"] = "run", call'[c] \in {"idle", "awaiting"} PROVE Unaffected(c, n)
    BY <2>7, <2>8, <2>9, SameUpdates DEF Unaffected, dnsVars
  <2> QED  BY <2>9, ZoneStays
<1> QED  BY <1>2, <1>3

\* A client that fails or goes needs no promise (Actor::CallFails, Actor::Close).
LEMMA ZoneLeaves ==
  ASSUME ProtocolInv, NEW d \in Client, CallFails(d) \/ Close(d), UNCHANGED dnsVars,
         NEW c \in Client, NEW n \in Name, ZoneOf(c, n)
  PROVE  ZoneOf(c, n)'
<1>1. ProtocolType
  BY DEF ProtocolInv
<1>2. /\ UNCHANGED <<mailbox, current, actor, plan>>
      /\ c = d => call'[c] \in {"failed", "closed"}
      /\ c # d => script'[c] = script[c] /\ call'[c] = call[c]
  BY <1>1 DEF CallFails, Close, ProtocolType
<1>3. Coming(c, n)' = Coming(c, n) /\ \A i \in Coming(c, n) : MsgAt("dns", i)' = MsgAt("dns", i)
  BY <1>2 DEF Coming, Places, MsgAt, DNS!Changes
<1>4. ASSUME actor'["dns"] = "run", call'[c] \in {"idle", "awaiting"} PROVE Unaffected(c, n)
  BY <1>2, <1>3, <1>4, SameUpdates DEF Unaffected, dnsVars
<1> QED  BY <1>4, ZoneStays

\* A query leaves the zone alone; the actor ends with its zone (Dns::Query,
\* Dns::ParseFails, Dns::Shutdown).
LEMMA ZoneQuery ==
  ASSUME ProtocolInv, DNS!Query \/ DNS!ParseFails \/ DNS!Shutdown, OwnStep("dns"),
         NEW c \in Client, NEW n \in Name, ZoneOf(c, n)
  PROVE  ZoneOf(c, n)'
<1>1. ProtocolType /\ "dns" \in Actors
  BY TestBedAssumption DEF ProtocolInv
<1>2. CASE actor'["dns"] # "run"
  BY <1>2 DEF ZoneOf
<1>3. CASE actor'["dns"] = "run"
  <2>1. DNS!Query /\ DNS!Reply("dns", DNS!NoAnswer)
    BY <1>1, <1>3 DEF DNS!Query, DNS!ExpectReply, DNS!Panic, DNS!ParseFails, DNS!Shutdown, DNS!Ends, ProtocolType
  <2>2. /\ actor["dns"] = "run" /\ current["dns"].op \in {"Version", "Domain"}
        /\ UNCHANGED <<mailbox, actor, dns_zone, dns_changer>>
        /\ current' = [current EXCEPT !["dns"] = None]
    BY <2>1 DEF DNS!Query, DNS!Processing, DNS!Reply, DNS!None, None
  <2>3. /\ Places("dns")' = Places("dns") /\ Places("dns") \subseteq Nat
        /\ MsgAt("dns", 0) = current["dns"] /\ MsgAt("dns", 0)' = None
        /\ \A i \in Places("dns") \ {0} : MsgAt("dns", i)' = MsgAt("dns", i)
    BY <1>1, <2>2 DEF Places, MsgAt, ProtocolType
  <2>4. ~ DNS!Changes(MsgAt("dns", 0), n)
    BY <2>2, <2>3 DEF DNS!Changes
  <2>5. Coming(c, n)' = Coming(c, n) /\ \A i \in Coming(c, n) : MsgAt("dns", i)' = MsgAt("dns", i)
    BY <2>3, <2>4 DEF Coming, DNS!Changes
  <2>6. ASSUME call'[c] \in {"idle", "awaiting"} PROVE Unaffected(c, n)
    <3>1. call[c] \in {"idle", "awaiting"} /\ script'[c] = script[c] /\ plan'[c] = plan[c]
      BY <1>1, <2>6, ActorsLeaveScripts
    <3> QED  BY <2>2, <2>5, <3>1, SameUpdates DEF Unaffected
  <2> QED  BY <2>6, ZoneStays
<1> QED  BY <1>2, <1>3

\* The invariant of the updates is kept by every step.
LEMMA ZoneKeeps ==
  ASSUME BedInv, TypeInv, ZoneInv, [Next]_vars
  PROVE  ZoneInv'
<1>1. ProtocolInv /\ ClientType /\ Senders /\ DNS!DnsTypeOK /\ {"vs", "fw", "px", "dns", "tls"} = Actors
  BY TestBedAssumption DEF BedInv, TypeInv, ZoneInv
<1>2. Senders'
  BY <1>1, NextIsProtocolStep, SendersKeep
<1> SUFFICES ASSUME NEW c \in Client, NEW n \in Name PROVE ZoneOf(c, n)'
  BY <1>2 DEF ZoneInv
<1>3. ZoneOf(c, n)
  BY DEF ZoneInv
<1>4. CASE ClientsStep
  <2>1. PICK d \in Client : ClientStep(d) \/ GiveUp(d)
    BY <1>4 DEF ClientsStep
  <2>2. UNCHANGED dnsVars
    BY <1>4 DEF ClientsStep, resources
  <2> QED  BY <1>1, <1>3, <2>1, <2>2, ZoneSend, ZoneGiveUp, ZoneLeaves DEF ClientStep
<1>5. CASE DnsStep
  <2>1. OwnStep("dns")
    BY <1>1, <1>5, DnsProtocol
  <2>2. CASE Taken("dns")
    BY <1>1, <1>3, <2>2, ZoneReceive DEF Taken, resources
  <2>3. CASE DNS!process
    BY <1>1, <1>3, <2>1, <2>3, ZoneServed, ZoneQuery DEF DNS!process
  <2> QED  BY <1>5, <2>2, <2>3 DEF DnsStep
<1>6. ASSUME NEW a \in Actors \ {"dns"}, OwnStep(a), UNCHANGED dnsVars PROVE ZoneOf(c, n)'
  BY <1>1, <1>3, <1>6, ZoneApart
<1>7. CASE VsSide
  BY <1>1, <1>6, <1>7, VsProtocol DEF VsSide
<1>8. CASE FwStep
  BY <1>1, <1>6, <1>8, FwProtocol DEF FwStep, Taken, resources
<1>9. CASE PxStep
  BY <1>1, <1>6, <1>9, PxProtocol DEF PxStep, Taken, resources
<1>10. CASE TlsStep
  BY <1>1, <1>6, <1>10, TlsProtocol DEF TlsStep, Taken, resources
<1>11. CASE UNCHANGED vars
  <2>1. OwnStep("vs") /\ UNCHANGED dnsVars
    BY <1>11 DEF vars, OwnStep
  <2> QED  BY <1>1, <1>6, <2>1
<1> QED  BY <1>4, <1>5, <1>7, <1>8, <1>9, <1>10, <1>11, NextSplits

\* At an answer nothing of the client is left in the mailbox, so its last change of
\* each name is in effect (Dns::Query after Dns::upsert and Dns::remove).
LEMMA AnsweredInEffect ==
  ASSUME BedInv, TypeInv, ZoneInv, NEW c \in Client, NEW n \in Name,
         From(current["dns"], c), actor["dns"] = "run",
         DNS!Updates(c, n) # {}, dns_changer[n] \in {c, NoClient}
  PROVE  DNS!InEffect(plan[c][DNS!Max(DNS!Updates(c, n))], n)
<1>1. ProtocolInv /\ ProtocolType /\ ClientType /\ "dns" \in Actors
  BY TestBedAssumption DEF BedInv, TypeInv, ProtocolInv
<1>2. 0 \in Places("dns") /\ MsgAt("dns", 0) = current["dns"] /\ Places("dns") \subseteq Nat
  BY <1>1 DEF Places, MsgAt, ProtocolType
<1>3. call[c] = "awaiting"
  BY <1>1, <1>2 DEF Awaited, ProtocolInv
<1>4. Newest(DNS!Updates(c, n), DNS!Max(DNS!Updates(c, n)))
  <2> DEFINE U == DNS!Updates(c, n)
  <2>1. script[c] \in Seq(Calls) /\ plan[c] \in Seq(Calls) /\ Len(script[c]) <= Len(plan[c])
    BY <1>1, SuffixElements DEF ProtocolType, ClientType
  <2>2. PICK k \in Nat : k = Len(plan[c]) - Len(script[c])
    <3>1. Len(plan[c]) - Len(script[c]) \in Nat
      BY <2>1
    <3> QED  BY <3>1
  <2>3. U \in SUBSET (0 .. k) /\ U # {}
    <3>1. U \subseteq 1 .. k
      BY <2>2, UpdatesWithin
    <3> QED  BY <3>1
  <2> HIDE DEF U
  <2>4. \E x \in U : \A y \in U : x >= y
    BY <2>2, <2>3, GreatestElement
  <2>5. Newest(U, DNS!Max(U))
    BY <2>4 DEF DNS!Max, Newest
  <2> QED  BY <2>5 DEF U
<1>5. Coming(c, n) = {}
  <2> SUFFICES ASSUME NEW i \in Coming(c, n) PROVE FALSE
    OBVIOUS
  <2>1. i \in Places("dns") /\ MsgAt("dns", i).client = c /\ DNS!Changes(MsgAt("dns", i), n)
    BY DEF Coming
  <2>2. CASE i = 0
    <3>1. PICK k \in Calls : k.to = "dns" /\ k.op = current["dns"].op /\ k.reply = current["dns"].reply
      BY <1>1, IsCalled DEF From
    <3>2. k.op \in {"Upsert", "Remove"}
      BY <1>2, <2>1, <2>2, <3>1 DEF DNS!Changes
    <3> QED  BY <3>1, <3>2, TestBedAssumption DEF From
  <2>3. CASE i # 0
    <3>1. 0 < i
      BY <1>2, <2>1, <2>3
    <3> QED  BY <1>1, <1>2, <2>1, <3>1 DEF LastCall, ProtocolInv
  <2> QED  BY <2>2, <2>3
<1>6. ZoneOf(c, n)
  BY DEF ZoneInv
<1> HIDE DEF Newest
<1> QED  BY <1>3, <1>4, <1>5, <1>6 DEF ZoneOf, Newest

-----------------------------------------------------------------------------
\* The invariant behind all theorems, for all clients and plans (TestBed::Spec).
LEMMA BedHolds == Spec => []BedInv
<1>1. Init => BedInv
  BY InitBed
<1>2. ASSUME BedInv, [Next]_vars PROVE BedInv'
  <2>1. ProtocolInv' /\ DiesOnlyOfFaults'
    BY <1>2, NextIsProtocolStep, ProtocolKeeps, DyingKeeps DEF BedInv
  <2>2. PxInv'
    BY <1>2, PxKeeps DEF BedInv
  <2> QED  BY <1>2, <2>1, <2>2, VsKeeps, FwKeeps, TlsKeeps DEF BedInv
<1> QED  BY <1>1, <1>2, PTL DEF Spec

\* The five actors panic only after a cancelled client, a failing system or a bad
\* name hit them: whatever clients call, in whatever order, no state of an actor
\* makes it fail (the expects and asserts of the five process functions).
THEOREM OnlyFaultsKill == Spec => []DiesOnlyOfFaults
<1>1. BedInv => DiesOnlyOfFaults
  BY DEF BedInv
<1> QED  BY <1>1, BedHolds, PTL

\* Whatever a client has sent to an actor before a call is processed when the call
\* is answered: the mpsc channel and the loop of the actor keep the order, for
\* any number of clients and also after cancellations.
THEOREM CallsAreFollowed == Spec => AnswersFollowCalls
<1> DEFINE A == \A a \in Actors, c \in Client :
                  (From(current[a], c) /\ current'[a] = None) =>
                    \A i \in DOMAIN mailbox'[a] : mailbox'[a][i].client # c
<1>1. BedInv /\ [Next]_vars => [A]_actorVars
  <2> SUFFICES ASSUME BedInv, [Next]_vars PROVE A
    OBVIOUS
  <2>1. ProtocolInv /\ ProtocolStep
    BY NextIsProtocolStep DEF BedInv
  <2> QED  BY <2>1, AnswersFollow
<1> QED  BY <1>1, BedHolds, PTL DEF Spec, AnswersFollowCalls

\* wait_for_ready of the Vector Store cluster is true only if all nodes run and
\* answer, whatever other clients start, stop and restart in between
\* (VectorStoreCluster::wait_for_ready).
THEOREM ReadyIsReady == Spec => StoresReady
<1> DEFINE A == \A c \in Client :
                  /\ VS!From(current["vs"], c) /\ current["vs"].op = "WaitForReady"
                  /\ current'["vs"] = VS!None /\ actor'["vs"] = "run"
                  /\ answer'[c] = VS!Answer(TRUE)
                  => \A i \in DOMAIN vs_nodes : vs_nodes[i].child /\ vs_nodes[i].ip \in vs_ready
<1>1. BedInv /\ [Next]_vars => [A]_<<VS!actorVars, VS!processVars>>
  <2> SUFFICES ASSUME BedInv, [Next]_vars PROVE A
    OBVIOUS
  <2> QED  BY TrueMeansReady DEF VS!From, From, VS!None, None, VS!Answer, VS!NoAnswer, Answer, NoAnswer
<1> QED  BY <1>1, BedHolds, PTL DEF Spec, StoresReady, VS!ReadyMeansReady

\* Between two calls the kernel blocks what was asked for last, but for the routes
\* it refused to change, for any lists of addresses, with repetitions, of any
\* clients (Firewall::process).
THEOREM BlockedIsAsked == Spec => []BlockedAsAsked
<1>1. BedInv => BlockedAsAsked
  BY DEF BedInv, FwInv, BlockedAsAsked, FW!BlockedAsAsked, FW!None, None, FW!ToSet, ToSet
<1> QED  BY <1>1, BedHolds, PTL

\* The translation map that was handed out last leads to the proxy that runs, also
\* when it replaced another at the same addresses (ScyllaProxyCluster::start).
THEOREM MapServed == Spec => []MapIsServed
<1>1. BedInv => MapIsServed
  BY DEF BedInv, PxInv, MapIsServed, PX!MapIsServed
<1> QED  BY <1>1, BedHolds, PTL

\* Whoever was told a path finds the file as long as it may ask (Tls::Serve).
THEOREM PathsLeadHolds == Spec => []PathsLead
<1>1. BedInv => PathsLead
  BY DEF BedInv, TlsInv, PathsLead, TLS!PathsLead, TLS!Paths
<1> QED  BY <1>1, BedHolds, PTL

-----------------------------------------------------------------------------
\* The variables of all five actors have their types, and no mailbox exceeds its
\* capacity, whatever clients call (Actor::Send and the process functions).
THEOREM TypeOKHolds == Spec => []TypeOK
<1>1. Init => TypeInv
  BY InitTypes
<1>2. BedInv /\ TypeInv /\ [Next]_vars => TypeInv'
  BY TypeStep
<1>3. BedInv /\ TypeInv => TypeOK
  <2> SUFFICES ASSUME BedInv, TypeInv PROVE TypeOK
    OBVIOUS
  <2>1. ActorTypeOK
    BY ActorTypes DEF BedInv, TypeInv
  <2>2. VS!ProcessesTypeOK
    BY DEF BedInv, VsInv, TypeInv, OrphansType, VS!ProcessesTypeOK
  <2>3. FW!FirewallTypeOK
    BY DEF BedInv, FwInv, TypeInv, RoutesType, FW!FirewallTypeOK
  <2> QED  BY <2>1, <2>2, <2>3 DEF TypeInv, TypeOK
<1> QED  BY <1>1, <1>2, <1>3, BedHolds, PTL DEF Spec

\* The proxy goes with the end of its actor, the DNS server and the files also with a
\* panic, whatever the callers do (ScyllaProxyCluster::Shutdown, Dns::ParseFails,
\* Dns::Shutdown, Tls::Shutdown).
THEOREM ServersGoneHolds == Spec => []ServersGone
<1>1. Init => ServersGone
  BY TestBedAssumption DEF Init, ActorInit, ServersGone
<1>2. BedInv /\ ServersGone /\ [Next]_vars => ServersGone'
  BY ServersGoneStep
<1> QED  BY <1>1, <1>2, BedHolds, PTL DEF Spec

\* As long as no start_node reaches a node that runs, the Vector Store actor keeps the
\* Child of every process until it has stopped it, and at its end it has stopped all,
\* whatever else is called, fails or is cancelled; nothing of the others is left
\* either.  Without that premise it is false: start_node replaces the Child without
\* looking (VectorStoreCluster::start_node, VectorStoreCluster::Shutdown).
THEOREM NothingLeftBehindHolds == Spec /\ []StoresNotStartedTwice => []NothingLeftBehind
<1>1. Init => StoresKept /\ StoresEmptied
  BY TestBedAssumption DEF Init, ActorInit, VS!ProcessesInit, StoresKept, StoresEmptied
<1>2. BedInv /\ StoresKept /\ StoresEmptied /\ StoresNotStartedTwice /\ [Next]_vars => StoresKept' /\ StoresEmptied'
  BY StoresKeptStep, StoresEmptiedStep
<1>3. StoresKept /\ StoresEmptied /\ ServersGone => NothingLeftBehind
  BY DEF StoresKept, StoresEmptied, ServersGone, NothingLeftBehind, VS!ProcessesOwned
<1> QED  BY <1>1, <1>2, <1>3, BedHolds, ServersGoneHolds, PTL DEF Spec

\* Upserts and removes, which nobody acknowledges, are in effect when a later call of the
\* same client is answered, in the order they were called, whatever other clients do
\* to other names, for any number of calls and names (Dns::process).
THEOREM UpdatesTakeEffectHolds == Spec => UpdatesTakeEffect
<1> DEFINE A == \A c \in Client, n \in Name :
                  /\ DNS!From(current["dns"], c) /\ current'["dns"] = DNS!None /\ actor'["dns"] = "run"
                  /\ DNS!Updates(c, n) # {} /\ dns_changer[n] \in {c, NoClient}
                  => DNS!InEffect(plan[c][DNS!Max(DNS!Updates(c, n))], n)
<1>1. Init => TypeInv /\ ZoneInv
  <2> SUFFICES ASSUME Init PROVE TypeInv /\ ZoneInv
    OBVIOUS
  <2>1. ActorInit /\ ProtocolType
    BY InitProtocol DEF Init, ProtocolInv
  <2>2. \A c \in Client : script[c] = plan[c] /\ plan[c] \in Seq(Calls) /\ Len(plan[c]) \in Nat
    BY <2>1 DEF ActorInit, ProtocolType
  <2>3. \A c \in Client, n \in Name : DNS!Updates(c, n) = {}
    <3> SUFFICES ASSUME NEW c \in Client, NEW n \in Name PROVE DNS!Updates(c, n) = {}
      OBVIOUS
    <3>1. Len(plan[c]) - Len(script[c]) = 0
      BY <2>2
    <3>2. DNS!Updates(c, n) \subseteq 1 .. 0
      BY <3>1, UpdatesWithin
    <3> QED  BY <3>2
  <2>4. ZoneInv
    BY <2>1, <2>3, SendersInit DEF ZoneInv, ZoneOf, Newest
  <2> QED  BY <2>4, InitTypes
<1>2. BedInv /\ TypeInv /\ ZoneInv /\ [Next]_vars => TypeInv' /\ ZoneInv'
  BY TypeStep, ZoneKeeps
<1>3. BedInv /\ TypeInv /\ ZoneInv /\ [Next]_vars => [A]_<<DNS!actorVars, DNS!dnsVars>>
  <2> SUFFICES ASSUME BedInv, TypeInv, ZoneInv, [Next]_vars, NEW c \in Client, NEW n \in Name,
                      DNS!From(current["dns"], c), actor'["dns"] = "run",
                      DNS!Updates(c, n) # {}, dns_changer[n] \in {c, NoClient}
               PROVE  DNS!InEffect(plan[c][DNS!Max(DNS!Updates(c, n))], n)
    OBVIOUS
  <2>1. From(current["dns"], c)
    BY DEF DNS!From, DNS!None, From, None
  <2>2. actor["dns"] = "run"
    <3>1. ProtocolInv /\ ProtocolStep /\ "dns" \in Actors
      BY NextIsProtocolStep, TestBedAssumption DEF BedInv
    <3> QED  BY <3>1, RanBefore
  <2> QED  BY <2>1, <2>2, AnsweredInEffect
<1> QED  BY <1>1, <1>2, <1>3, BedHolds, PTL DEF Spec, UpdatesTakeEffect, DNS!UpdatesTakeEffect

-----------------------------------------------------------------------------
(***************************************************************************)
(* StoresNotStartedTwice itself: it holds where one client starts          *)
(* processes, each after it has stopped the last one, whatever the others  *)
(* call and whoever is cancelled (OneStarts).                              *)
(***************************************************************************)

\* What may start the process of a node, and what stops it.
StartLabels(ip) == {Label(m) : m \in {k \in Calls : VS!Starts(k, ip)}}

StopLabels(ip) == {Label(m) : m \in {k \in Calls : VS!Stops(k, ip)}}

\* The first of the nodes with an address, the one that Find tells, has a process.
FirstRuns(ns, ip) ==
  \E i \in DOMAIN ns : /\ ns[i].ip = ip /\ ns[i].child
                       /\ \A j \in DOMAIN ns : j < i => ns[j].ip # ip

\* Before each call of c that starts a process of ip comes one that stops it, if it runs
\* or another such call comes first.
StopsFirst(c, ip) ==
  Fit(Line("vs", c, StartLabels(ip)), Line("vs", c, StopLabels(ip)), FirstRuns(vs_nodes, ip))

TurnInv(c) ==
  \A ip \in IP : Quiet(c, StartLabels(ip)) /\ (actor["vs"] = "run" => StopsFirst(c, ip))

\* A label says what a call does (Processes::Starts, Processes::Stops).
LEMMA LabelTells ==
  ASSUME NEW m, NEW k \in Calls, Label(m) = Label(k), NEW ip
  PROVE  /\ Label(m) \in StartLabels(ip) <=> VS!Starts(m, ip)
         /\ Label(m) \in StopLabels(ip) <=> VS!Stops(m, ip)
<1>1. \A x : Label(x) = Label(m) => /\ VS!Starts(x, ip) <=> VS!Starts(m, ip)
                                    /\ VS!Stops(x, ip) <=> VS!Stops(m, ip)
  BY DEF Label, VS!Starts, VS!Stops
<1>2. Label(m) \in StartLabels(ip) <=> VS!Starts(m, ip)
  BY <1>1 DEF StartLabels
<1>3. Label(m) \in StopLabels(ip) <=> VS!Stops(m, ip)
  BY <1>1 DEF StopLabels
<1> QED  BY <1>2, <1>3

\* These calls are all for the Vector Store actor.
LEMMA LabelsStores ==
  ASSUME NEW ip
  PROVE  \A k \in StartLabels(ip) \cup StopLabels(ip) : k[1] = "vs"
BY DEF StartLabels, StopLabels, Label, VS!Starts, VS!Stops

\* What is processed is a call.
LEMMA CurrentLabel ==
  ASSUME ProtocolInv, current["vs"] # None, NEW ip
  PROVE  /\ Label(current["vs"]) \in StartLabels(ip) <=> VS!Starts(current["vs"], ip)
         /\ Label(current["vs"]) \in StopLabels(ip) <=> VS!Stops(current["vs"], ip)
         /\ current["vs"].to = "vs"
<1>1. current["vs"] \in Messages /\ current["vs"].to = "vs"
  <2>1. 0 \in Places("vs") /\ MsgAt("vs", 0) = current["vs"] /\ "vs" \in Actors
    BY TestBedAssumption DEF Places, MsgAt, ProtocolInv, ProtocolType
  <2> QED  BY <2>1 DEF Addressed, ProtocolInv, ProtocolType
<1>2. PICK k \in Calls, d \in Client \cup {NoClient} : current["vs"] = Message(k, d)
  BY <1>1 DEF Messages
<1>3. Label(current["vs"]) = Label(k)
  BY <1>2, MessageLabel
<1> QED  BY <1>1, <1>3, LabelTells

\* What is first in line comes after nothing.
LEMMA FirstInLine ==
  ASSUME ProtocolInv, NEW c \in Client, NEW K, NEW L, NEW live, current["vs"] # None,
         Label(current["vs"]) \in K, Fit(Line("vs", c, K), Line("vs", c, L), live)
  PROVE  ~ live
<1>1. mailbox["vs"] \in Seq(Messages)
  BY TestBedAssumption DEF ProtocolInv, ProtocolType
<1>2. 0 \in Line("vs", c, K)
  BY <1>1, RowFirst DEF Line
<1>3. \A y \in Line("vs", c, L) : y \in Nat
  BY DEF Line, Row
<1>4. \A y \in Nat : ~ (y < 0)
  OBVIOUS
<1> QED  BY <1>2, <1>3, <1>4 DEF Fit

\* start_node finds no process (VectorStoreCluster::start_node).
LEMMA TurnsFit ==
  ASSUME BedInv, NEW c \in Client, TurnInv(c)
  PROVE  StoresNotStartedTwice
<1>1. ProtocolInv /\ vs_nodes \in Seq(VS!NodeState)
  BY DEF BedInv, VsInv
<1>2. SUFFICES ASSUME VS!Serving({"StartNode"}), NEW i \in {VS!Find(current["vs"].arg[1])} \ {0},
                      vs_nodes[i].child
               PROVE  FALSE
  BY DEF StoresNotStartedTwice, VS!NotStartedTwice
<1>3. actor["vs"] = "run" /\ current["vs"] # None /\ current["vs"].op = "StartNode"
  BY <1>2 DEF VS!Serving, VS!Processing, None
<1>4. /\ i \in DOMAIN vs_nodes /\ vs_nodes[i].ip = current["vs"].arg[1]
      /\ \A j \in DOMAIN vs_nodes : j < i => vs_nodes[j].ip # current["vs"].arg[1]
  BY <1>1, <1>2, FindsNode
<1>5. vs_nodes[i].ip \in IP
  <2>1. vs_nodes[i] \in VS!NodeState
    BY <1>1, <1>4
  <2> QED  BY <2>1 DEF VS!NodeState
<1> PICK ip \in IP : ip = vs_nodes[i].ip
  BY <1>5
<1>6. Label(current["vs"]) \in StartLabels(ip)
  BY <1>1, <1>3, <1>4, CurrentLabel DEF VS!Starts
<1> PICK live : live = FirstRuns(vs_nodes, ip)
  OBVIOUS
<1>7. Fit(Line("vs", c, StartLabels(ip)), Line("vs", c, StopLabels(ip)), live)
  BY <1>3 DEF TurnInv, StopsFirst
<1>8. ~ live
  BY <1>1, <1>3, <1>6, <1>7, FirstInLine
<1> QED  BY <1>2, <1>4, <1>8 DEF FirstRuns

\* The nodes keep their addresses when processes are killed and restarted.
LEMMA AddressesKept ==
  ASSUME vs_nodes \in Seq(VS!NodeState), NEW I
  PROVE  \A ns \in {VS!Killed(I), VS!Restarted(I)} :
           /\ DOMAIN ns = DOMAIN vs_nodes
           /\ \A i \in DOMAIN vs_nodes : ns[i].ip = vs_nodes[i].ip
<1>1. \A i \in DOMAIN vs_nodes : vs_nodes[i] \in VS!NodeState
  OBVIOUS
<1>2. \A i \in DOMAIN vs_nodes :
        /\ [vs_nodes[i] EXCEPT !.child = @ /\ i \notin I].ip = vs_nodes[i].ip
        /\ [vs_nodes[i] EXCEPT !.child = @ \/ i \in I].ip = vs_nodes[i].ip
  BY <1>1 DEF VS!NodeState
<1>3. /\ DOMAIN VS!Killed(I) = DOMAIN vs_nodes
      /\ \A i \in DOMAIN vs_nodes : VS!Killed(I)[i].ip = vs_nodes[i].ip
  BY <1>2 DEF VS!Killed
<1>4. /\ DOMAIN VS!Restarted(I) = DOMAIN vs_nodes
      /\ \A i \in DOMAIN vs_nodes : VS!Restarted(I)[i].ip = vs_nodes[i].ip
  BY <1>2 DEF VS!Restarted
<1> QED  BY <1>3, <1>4

\* The first node with an address that runs afterwards ran before and was not the one that
\* was found, or it was restarted.
LEMMA RunsAfter ==
  ASSUME vs_nodes \in Seq(VS!NodeState), NEW I, NEW ip
  PROVE  /\ FirstRuns(VS!Killed(I), ip) => FirstRuns(vs_nodes, ip) /\ VS!Find(ip) \notin I
         /\ FirstRuns(VS!Restarted(I), ip) =>
              FirstRuns(vs_nodes, ip) \/ \E i \in DOMAIN vs_nodes \cap I : vs_nodes[i].ip = ip
<1>1. \A i \in DOMAIN vs_nodes : vs_nodes[i] \in VS!NodeState
  OBVIOUS
<1>2. \A i \in DOMAIN vs_nodes :
        /\ [vs_nodes[i] EXCEPT !.child = @ /\ i \notin I].child <=> vs_nodes[i].child /\ i \notin I
        /\ [vs_nodes[i] EXCEPT !.child = @ \/ i \in I].child <=> vs_nodes[i].child \/ i \in I
  BY <1>1 DEF VS!NodeState
<1>3. ASSUME NEW ns \in {VS!Killed(I), VS!Restarted(I)}, FirstRuns(ns, ip)
      PROVE  \E i \in DOMAIN vs_nodes :
               /\ vs_nodes[i].ip = ip /\ ns[i].child
               /\ \A j \in DOMAIN vs_nodes : j < i => vs_nodes[j].ip # ip
  BY <1>3, AddressesKept DEF FirstRuns
<1>4. ASSUME FirstRuns(VS!Killed(I), ip)
      PROVE  FirstRuns(vs_nodes, ip) /\ VS!Find(ip) \notin I
  <2>1. PICK i \in DOMAIN vs_nodes : /\ vs_nodes[i].ip = ip /\ VS!Killed(I)[i].child
                                     /\ \A j \in DOMAIN vs_nodes : j < i => vs_nodes[j].ip # ip
    BY <1>3, <1>4
  <2>2. vs_nodes[i].child /\ i \notin I
    BY <1>2, <2>1 DEF VS!Killed
  <2>3. VS!Find(ip) = i
    <3>1. \A j \in DOMAIN vs_nodes : j \in Nat
      OBVIOUS
    <3>2. /\ VS!Find(ip) \in DOMAIN vs_nodes /\ vs_nodes[VS!Find(ip)].ip = ip
          /\ ~ (i < VS!Find(ip))
      BY <2>1, FindsNode
    <3>3. ~ (VS!Find(ip) < i)
      BY <2>1, <3>2
    <3> QED  BY <3>1, <3>2, <3>3
  <2> QED  BY <2>1, <2>2, <2>3 DEF FirstRuns
<1>5. ASSUME FirstRuns(VS!Restarted(I), ip)
      PROVE  FirstRuns(vs_nodes, ip) \/ \E i \in DOMAIN vs_nodes \cap I : vs_nodes[i].ip = ip
  <2>1. PICK i \in DOMAIN vs_nodes : /\ vs_nodes[i].ip = ip /\ VS!Restarted(I)[i].child
                                     /\ \A j \in DOMAIN vs_nodes : j < i => vs_nodes[j].ip # ip
    BY <1>3, <1>5
  <2>2. vs_nodes[i].child \/ i \in I
    BY <1>2, <2>1 DEF VS!Restarted
  <2> QED  BY <2>1, <2>2 DEF FirstRuns
<1> QED  BY <1>4, <1>5

\* No cleanup starts anything.
LEMMA CleanupStartsNothing ==
  ASSUME NEW c \in Client, OneStarts(c), NEW ip \in IP
  PROVE  \A d \in Client : \A i \in DOMAIN Cleanup[d] : Label(Cleanup[d][i]) \notin StartLabels(ip)
<1> SUFFICES ASSUME NEW d \in Client, NEW i \in DOMAIN Cleanup[d]
             PROVE  Label(Cleanup[d][i]) \notin StartLabels(ip)
  OBVIOUS
<1>1. ~ VS!Starts(Cleanup[d][i], ip)
  BY DEF OneStarts, VS!StartsNothing
<1>2. Cleanup[d] \in Seq(Calls)
  BY ActorAssumption
<1>3. Cleanup[d][i] \in Calls
  BY <1>2
<1> QED  BY <1>1, <1>3, LabelTells

\* A call that is done has done what its label says (Processes::Finish).
LEMMA FinishTurns ==
  ASSUME BedInv, NEW c \in Client, TurnInv(c),
         NEW ns, NEW lost, NEW result, VS!Finish(ns, lost, result),
         current["vs"] # None, actor["vs"] = "run",
         \A ip \in IP : FirstRuns(ns, ip) =>
           \/ VS!Starts(current["vs"], ip)
           \/ FirstRuns(vs_nodes, ip) /\ ~ VS!Stops(current["vs"], ip)
  PROVE  \A ip \in IP : actor'["vs"] = "run" => StopsFirst(c, ip)'
<1> SUFFICES ASSUME NEW ip \in IP, actor'["vs"] = "run" PROVE StopsFirst(c, ip)'
  OBVIOUS
<1>1. ProtocolInv /\ "vs" \in Actors /\ actor \in [Actors -> {"run", "dead", "finished"}]
  BY TestBedAssumption DEF BedInv, ProtocolInv, ProtocolType
<1>2. ~ VS!Crash(ns, lost)
  BY <1>1 DEF VS!Crash, VS!Panic
<1>3. VS!Reply("vs", result) /\ vs_nodes' = ns
  BY <1>2 DEF VS!Finish
<1>4. Reply("vs", result)
  BY <1>3 DEF VS!Reply, VS!None, VS!NoAnswer, VS!clientVars, Reply, None, NoAnswer, clientVars
<1>5. StopsFirst(c, ip)
  BY DEF TurnInv
<1> PICK live : live = FirstRuns(vs_nodes, ip)
  OBVIOUS
<1> PICK after : after = FirstRuns(ns, ip)
  OBVIOUS
<1> PICK K : K = StartLabels(ip)
  OBVIOUS
<1> PICK L : L = StopLabels(ip)
  OBVIOUS
<1>6. after => Label(current["vs"]) \in K \/ (live /\ Label(current["vs"]) \notin L)
  BY <1>1, CurrentLabel
<1>7. Fit(Line("vs", c, K), Line("vs", c, L), live)
  BY <1>5 DEF StopsFirst
<1>8. Fit(Line("vs", c, K)', Line("vs", c, L)', after)
  BY <1>1, <1>4, <1>6, <1>7, LineServed
<1> QED  BY <1>3, <1>8 DEF StopsFirst, StartLabels, StopLabels

\* Calls take their turns as long as the actor serves nothing (VectorStoreCluster::process).
LEMMA TurnWaits ==
  ASSUME BedInv, NEW c \in Client, OneStarts(c), TurnInv(c), [Next]_vars,
         UNCHANGED vs_nodes, ~ Serves("vs"), NEW ip \in IP, actor'["vs"] = "run"
  PROVE  StopsFirst(c, ip)'
<1>1. ProtocolInv /\ ProtocolStep /\ "vs" \in Actors
  BY NextIsProtocolStep, TestBedAssumption DEF BedInv
<1>2. StopsFirst(c, ip) /\ Quiet(c, StartLabels(ip))
  BY <1>1, RanBefore DEF TurnInv
<1>3. \A i \in DOMAIN Cleanup[c] : Label(Cleanup[c][i]) \notin StartLabels(ip)
  BY CleanupStartsNothing
<1> PICK K : K = StartLabels(ip)
  OBVIOUS
<1> PICK L : L = StopLabels(ip)
  OBVIOUS
<1> PICK live : live = FirstRuns(vs_nodes, ip)
  OBVIOUS
<1>4. \A k \in K \cup L : k[1] = "vs"
  BY LabelsStores
<1>5. Fit(Line("vs", c, K), Line("vs", c, L), live) /\ Quiet(c, K)
  BY <1>2 DEF StopsFirst
<1>6. Fit(Line("vs", c, K)', Line("vs", c, L)', live)
  BY <1>1, <1>3, <1>4, <1>5, LineKeeps
<1> QED  BY <1>6 DEF StopsFirst, StartLabels, StopLabels

\* c starts processes only where none runs, whatever happens (the functions of the actor).
LEMMA TurnKeeps ==
  ASSUME BedInv, NEW c \in Client, OneStarts(c), TurnInv(c), [Next]_vars
  PROVE  TurnInv(c)'
<1>1. ProtocolInv /\ ProtocolStep /\ vs_nodes \in Seq(VS!NodeState) /\ "vs" \in Actors
      /\ actor \in [Actors -> {"run", "dead", "finished"}]
  BY NextIsProtocolStep, TestBedAssumption DEF BedInv, VsInv, ProtocolInv, ProtocolType
<1>2. \A ip \in IP : Quiet(c, StartLabels(ip))'
  <2> SUFFICES ASSUME NEW ip \in IP PROVE Quiet(c, StartLabels(ip))'
    OBVIOUS
  <2>1. Quiet(c, StartLabels(ip)) /\ \A d \in Client : \A i \in DOMAIN Cleanup[d] : Label(Cleanup[d][i]) \notin StartLabels(ip)
    BY CleanupStartsNothing DEF TurnInv
  <2> PICK K : K = StartLabels(ip)
    OBVIOUS
  <2>2. Quiet(c, K)'
    BY <1>1, <2>1, QuietKeeps
  <2> QED  BY <2>2 DEF StartLabels
<1> DEFINE Ordered == \A ip \in IP : actor'["vs"] = "run" => StopsFirst(c, ip)'
<1>3. SUFFICES Ordered
  BY <1>2 DEF TurnInv
<1>4. ASSUME UNCHANGED vs_nodes, ~ Serves("vs") PROVE Ordered
  BY <1>4, TurnWaits
<1>5. ASSUME NEW ns, NEW lost, VS!Crash(ns, lost) PROVE Ordered
  BY <1>1, <1>5 DEF VS!Crash, VS!Panic
<1>6. ASSUME NEW ns, NEW lost, NEW result, VS!Finish(ns, lost, result),
             current["vs"] # None, actor["vs"] = "run",
             \A ip \in IP : FirstRuns(ns, ip) =>
               \/ VS!Starts(current["vs"], ip)
               \/ FirstRuns(vs_nodes, ip) /\ ~ VS!Stops(current["vs"], ip)
      PROVE  Ordered
  BY <1>6, FinishTurns
<1> HIDE DEF Ordered
<1>7. \A ops : VS!Serving(ops) /\ "None" \notin ops =>
         /\ actor["vs"] = "run" /\ current["vs"] # None /\ current["vs"].op \in ops
         /\ current["vs"].to = "vs"
  BY <1>1, CurrentLabel DEF VS!Serving, VS!Processing, None
<1>8. CASE VS!Version \/ VS!wait_for_ready
  <2>1. /\ actor["vs"] = "run" /\ current["vs"] # None
        /\ current["vs"].op \in {"Version", "WaitForReady"}
    BY <1>7, <1>8 DEF VS!Version, VS!wait_for_ready
  <2>2. \E result : VS!Finish(vs_nodes, VS!NothingLost, result)
    BY <1>8 DEF VS!Version, VS!wait_for_ready, VS!FinishWith
  <2>3. \A ip : ~ VS!Stops(current["vs"], ip)
    BY <2>1 DEF VS!Stops
  <2> QED  BY <1>6, <2>1, <2>2, <2>3
<1>9. CASE VS!start
  <2>1. /\ actor["vs"] = "run" /\ current["vs"] # None /\ current["vs"].op = "Start"
        /\ current["vs"].to = "vs"
    BY <1>7, <1>9 DEF VS!start
  <2>2. VS!Finish(vs_nodes \o VS!Started(current["vs"].arg), VS!NothingLost, VS!NoAnswer)
    BY <1>9 DEF VS!start, VS!FinishWith
  <2>3. \A ip : VS!Starts(current["vs"], ip)
    BY <2>1 DEF VS!Starts
  <2> QED  BY <1>6, <2>1, <2>2, <2>3
<1>10. CASE VS!start_node
  <2> PICK I : I = {VS!Find(current["vs"].arg[1])} \ {0}
    OBVIOUS
  <2>1. /\ actor["vs"] = "run" /\ current["vs"] # None /\ current["vs"].op = "StartNode"
        /\ current["vs"].to = "vs" /\ VS!Finish(VS!Restarted(I), VS!Overwritten(I), VS!NoAnswer)
    BY <1>7, <1>10 DEF VS!start_node
  <2>2. ASSUME NEW ip \in IP, FirstRuns(VS!Restarted(I), ip)
        PROVE  VS!Starts(current["vs"], ip) \/ FirstRuns(vs_nodes, ip)
    <3>1. CASE \E i \in DOMAIN vs_nodes \cap I : vs_nodes[i].ip = ip
      <4>1. current["vs"].arg[1] = ip
        BY <1>1, <3>1, FindsNode
      <4> QED  BY <2>1, <4>1 DEF VS!Starts
    <3> QED  BY <1>1, <2>2, <3>1, RunsAfter
  <2>3. \A ip : ~ VS!Stops(current["vs"], ip)
    BY <2>1 DEF VS!Stops
  <2> QED  BY <1>6, <2>1, <2>2, <2>3
<1>11. CASE VS!stop
  <2>1. /\ actor["vs"] = "run" /\ current["vs"] # None
        /\ VS!Finish(<<>>, VS!NothingLost, VS!NoAnswer)
    BY <1>7, <1>11 DEF VS!stop, VS!FinishWith
  <2>2. \A ip : ~ FirstRuns(<<>>, ip)
    BY DEF FirstRuns
  <2> QED  BY <1>6, <2>1, <2>2
<1>12. CASE VS!stop_node
  <2> PICK I : I = {VS!Find(current["vs"].arg[1])}
    OBVIOUS
  <2>1. /\ actor["vs"] = "run" /\ current["vs"] # None /\ current["vs"].op = "StopNode"
        /\ VS!Finish(VS!Killed(I), VS!NothingLost, VS!NoAnswer)
    BY <1>7, <1>12 DEF VS!stop_node, VS!FinishWith
  <2>2. ASSUME NEW ip \in IP, FirstRuns(VS!Killed(I), ip)
        PROVE  FirstRuns(vs_nodes, ip) /\ ~ VS!Stops(current["vs"], ip)
    <3>1. FirstRuns(vs_nodes, ip) /\ VS!Find(ip) \notin I
      BY <1>1, <2>2, RunsAfter
    <3>2. current["vs"].arg[1] # ip
      BY <3>1
    <3> QED  BY <2>1, <3>1, <3>2 DEF VS!Stops
  <2> QED  BY <1>6, <2>1, <2>2
<1>13. CASE VS!SpawnFails \/ VS!WaitTimesOut
  BY <1>5, <1>13 DEF VS!SpawnFails, VS!WaitTimesOut
<1>14. CASE Taken("vs") \/ VS!wait_for_node \/ \E ip \in IP : VS!BecomesReady(ip)
  <2>1. UNCHANGED vs_nodes
    BY <1>14 DEF Taken, resources, vsVars, VS!wait_for_node, VS!BecomesReady
  <2>2. ~ Serves("vs")
    BY <1>1, <1>14 DEF Taken, Receive, VS!wait_for_node, VS!BecomesReady, VS!actorVars,
       Serves, Reply, Panic, ProtocolInv, ProtocolType
  <2> QED  BY <1>4, <2>1, <2>2
<1>15. CASE VS!Shutdown
  BY <1>1, <1>15 DEF VS!Shutdown, VS!Ends, Ordered
<1>16. ASSUME NEW a \in Actors, a # "vs", OwnStep(a), UNCHANGED vsVars PROVE Ordered
  <2>1. current'["vs"] = current["vs"] /\ UNCHANGED vs_nodes
    BY <1>1, <1>16, OthersKeep DEF vsVars
  <2>2. ~ Serves("vs")
    BY <1>1, <2>1 DEF Serves, Reply, Panic, ProtocolInv, ProtocolType
  <2> QED  BY <1>4, <2>1, <2>2
<1>17. CASE FwStep
  BY <1>1, <1>16, <1>17, FwProtocol, TestBedAssumption DEF FwStep, Taken, resources
<1>18. CASE PxStep
  BY <1>1, <1>16, <1>18, PxProtocol, TestBedAssumption DEF PxStep, Taken, resources
<1>19. CASE DnsStep
  BY <1>1, <1>16, <1>19, DnsProtocol, TestBedAssumption DEF DnsStep, Taken, resources
<1>20. CASE TlsStep
  BY <1>1, <1>16, <1>20, TlsProtocol, TestBedAssumption DEF TlsStep, Taken, resources
<1>21. CASE ClientsStep
  <2>1. UNCHANGED vs_nodes /\ (current'["vs"] = None <=> current["vs"] = None)
    BY <1>1, <1>21, ClientsKeep DEF ClientsStep, resources, vsVars
  <2>2. ~ Serves("vs")
    BY <1>1, <2>1 DEF Serves, Reply, Panic, ProtocolInv, ProtocolType
  <2> QED  BY <1>4, <2>1, <2>2
<1>22. CASE UNCHANGED vars
  <2>1. UNCHANGED vs_nodes /\ current' = current
    BY <1>22 DEF vars, vsVars, actorVars
  <2>2. ~ Serves("vs")
    BY <1>1, <2>1 DEF Serves, Reply, Panic, ProtocolInv, ProtocolType
  <2> QED  BY <1>4, <2>1, <2>2
<1>23. CASE VsSide
  BY <1>8, <1>9, <1>10, <1>11, <1>12, <1>13, <1>14, <1>15, <1>23 DEF VsSide, VsStep, VS!process
<1> QED  BY <1>17, <1>18, <1>19, <1>20, <1>21, <1>22, <1>23, NextSplits

\* c begins with a cluster without nodes (TestBed::Init).
LEMMA TurnInit ==
  ASSUME Init, NEW c \in Client, OneStarts(c)
  PROVE  TurnInv(c)
<1> PICK p \in Plans : plan = p /\ script = p
  BY DEF Init, ActorInit
<1>1. /\ p \in [Client -> Seq(Calls)] /\ vs_nodes = <<>>
      /\ current["vs"] = None /\ mailbox["vs"] = <<>>
  BY ActorAssumption, TestBedAssumption DEF Init, ActorInit, VS!ProcessesInit
<1>2. ASSUME NEW d \in Client, NEW i \in DOMAIN p[d] PROVE p[d][i] \in Calls
  <2>1. p[d] \in Seq(Calls)
    BY <1>1
  <2> QED  BY <2>1
<1>3. ASSUME NEW ip \in IP PROVE Quiet(c, StartLabels(ip))
  <2> SUFFICES ASSUME NEW d \in Client \ {c}, NEW i \in DOMAIN p[d]
               PROVE  Label(p[d][i]) \notin StartLabels(ip)
    BY DEF Quiet
  <2>1. ~ VS!Starts(p[d][i], ip)
    BY DEF OneStarts, VS!StartsNothing
  <2> QED  BY <1>2, <2>1, LabelTells
<1>4. ASSUME NEW K, NEW x
      PROVE  x \in Line("vs", c, K) <=> x \in DOMAIN p[c] /\ Label(p[c][x]) \in K
  <2>1. Len(mailbox["vs"]) = 0 /\ DOMAIN mailbox["vs"] = {}
    BY <1>1
  <2>2. p[c] \in Seq(Calls)
    BY <1>1
  <2>3. \A j \in DOMAIN p[c] : j \in Nat /\ 0 + j = j
    BY <2>2
  <2> QED  BY <1>1, <2>1, <2>3 DEF Line, Row
<1>5. ASSUME NEW ip \in IP PROVE StopsFirst(c, ip)
  <2>1. p[c] \in Seq(Calls) /\ DOMAIN p[c] \subseteq Nat /\ ~ FirstRuns(vs_nodes, ip)
    BY <1>1 DEF FirstRuns
  <2>2. ASSUME NEW x \in Line("vs", c, StartLabels(ip)), NEW w \in Line("vs", c, StartLabels(ip)), w < x
        PROVE  \E y \in Line("vs", c, StopLabels(ip)) : w < y /\ y < x
    <3>1. w \in DOMAIN p[c] /\ x \in DOMAIN p[c] /\ VS!Starts(p[c][w], ip) /\ VS!Starts(p[c][x], ip)
      BY <1>2, <1>4, LabelTells
    <3>2. PICK y \in w + 1 .. x - 1 : VS!Stops(p[c][y], ip)
      BY <2>2, <3>1 DEF OneStarts, VS!InTurn
    <3>3. y \in DOMAIN p[c] /\ w < y /\ y < x
      BY <2>1, <3>1
    <3> QED  BY <1>2, <1>4, <3>2, <3>3, LabelTells
  <2> QED  BY <2>1, <2>2 DEF StopsFirst, Fit
<1> QED  BY <1>3, <1>5 DEF TurnInv

\* start_node never replaces a process that runs, if one client starts processes and
\* stops the last one first: neither other clients that stop them nor a cancellation at
\* any moment, with its cleanup, make a difference (VectorStoreCluster::start_node).
THEOREM StoresNotStartedTwiceHolds ==
  ASSUME NEW c \in Client, OneStarts(c)
  PROVE  Spec => []StoresNotStartedTwice
<1>1. Init => TurnInv(c)
  BY TurnInit
<1>2. BedInv /\ TurnInv(c) /\ [Next]_vars => TurnInv(c)'
  BY TurnKeeps
<1>3. BedInv /\ TurnInv(c) => StoresNotStartedTwice
  BY TurnsFit
<1> QED  BY <1>1, <1>2, <1>3, BedHolds, PTL DEF Spec

\* What follows for such callers, with nothing taken for granted: the Vector Store actor
\* can stop every process that it started, at its end it has, and nothing of the others
\* is left but routes (VectorStoreCluster::Shutdown).
THEOREM OneStarterLeavesNothing ==
  ASSUME NEW c \in Client, OneStarts(c)
  PROVE  Spec => []NothingLeftBehind
BY StoresNotStartedTwiceHolds, NothingLeftBehindHolds, PTL
=============================================================================
