----------------------------- MODULE MC_TestBed -----------------------------
(***************************************************************************)
(* Two clients, of which the first may be cancelled.  Each pair of plans   *)
(* makes the two meet at some actors; the cleanup of the first adds calls  *)
(* to others.                                                              *)
(***************************************************************************)
EXTENDS TestBed, TLC

CONSTANTS c1, c2, n1, n2, good, bad

Pair(p, q) == (c1 :> p) @@ (c2 :> q)

MC_Plans ==
  { \* a node is restarted while the other client stops it, too, and asks for all
    Pair(<<VS!CallStart(<<n1, n2>>), VS!CallWaitForReady>> \o VS!Restart(n1),
         <<VS!CallVersion, VS!CallStopNode(n1), VS!CallWaitForReady>>),
    \* a node is taken away; the other client changes a name, which the cleanup may
    \* remove, and kills the DNS actor with a bad one
    Pair(<<VS!CallStart(<<n1, n2>>), VS!CallStopNode(n2), VS!CallWaitForReady, VS!CallStop>>,
         <<DNS!CallUpsert(good, n1), DNS!CallVersion, DNS!CallRemove(bad), DNS!CallDomain>>),
    \* both clients block addresses, the first one moves a name as well
    Pair(<<DNS!CallUpsert(good, n1), FW!CallDropTraffic(<<n1>>), DNS!CallUpsert(good, n2),
           DNS!CallVersion, FW!CallDropTraffic(<<n2, n1>>)>>,
         <<FW!CallDropTraffic(<<n2>>), FW!CallTurnOffRules>>),
    \* both clients start a proxy, with the certificates
    Pair(<<TLS!CallCertPath, PX!CallStart({n1}), PX!CallChangeRequestRules(TRUE), PX!CallStop>>,
         <<TLS!CallClientTlsConfig, TLS!CallKeyPath, PX!CallStart({n1, n2}),
           PX!CallChangeResponseRules(TRUE), PX!CallTurnOffRules, PX!CallStart({})>>) }

MC_Cleanup == Pair(<<VS!CallStop, DNS!CallRemove(good), DNS!CallDomain>>, <<>>)

\* The plans meet what the theorem about StoresNotStartedTwice asks of them.
ASSUME PlansInTurn == OneStarts(c1)
=============================================================================
