-------------------------------- MODULE Dns --------------------------------
(***************************************************************************)
(* The actor of crates/e2etest-dns: a DNS server whose zone is changed by  *)
(* calls without a reply.  Whether an upsert of another address for a name *)
(* replaces the record or adds one is up to the zone handler (external).   *)
(* Serial numbers are left out: no query depends on them.                  *)
(***************************************************************************)
EXTENDS Actor, FiniteSetsExt

CONSTANTS
  Self,      \* the actor
  Name,      \* names that can be parsed
  IP         \* addresses of A records

VARIABLES
  zone,      \* zone[n]: the addresses of the A record of n
  server,    \* whether the server answers queries
  changer    \* history: the client that the last change of a record came from

dnsVars == <<zone, server, changer>>

DnsTypeOK ==
  /\ zone \in [Name -> SUBSET IP]
  /\ server \in BOOLEAN
  /\ changer \in [Name -> Client \cup {NoClient}]

DnsInit ==
  /\ zone = [n \in Name |-> {}]
  /\ server = TRUE
  /\ changer = [n \in Name |-> NoClient]

\* DnsExt
Request(op, arg, reply) == [to |-> Self, op |-> op, arg |-> arg, reply |-> reply]

CallVersion == Request("Version", <<>>, "taken")

CallDomain == Request("Domain", <<>>, "taken")

CallRemove(name) == Request("Remove", <<name>>, "none")

CallUpsert(name, ip) == Request("Upsert", <<name, ip>>, "none")

-----------------------------------------------------------------------------
\* Version and Domain
Query ==
  /\ Processing(Self, {"Version", "Domain"})
  /\ ExpectReply(Self, NoAnswer)
  /\ server' = (server /\ ~Unheard(Self))
  /\ UNCHANGED <<disturbed, zone, changer>>

\* Mutant: the key names another record type.
remove_nothing ==
  /\ Processing(Self, {"Remove"})
  /\ current[Self].arg[1] \in Name
  /\ Reply(Self, NoAnswer)
  /\ UNCHANGED <<disturbed, dnsVars>>

remove ==
  /\ Processing(Self, {"Remove"})
  /\ current[Self].arg[1] \in Name
  /\ zone' = [zone EXCEPT ![current[Self].arg[1]] = {}]
  /\ changer' = [changer EXCEPT ![current[Self].arg[1]] = current[Self].client]
  /\ Reply(Self, NoAnswer)
  /\ UNCHANGED <<disturbed, server>>

upsert ==
  /\ Processing(Self, {"Upsert"})
  /\ current[Self].arg[1] \in Name
  /\ LET n == current[Self].arg[1]
         ip == current[Self].arg[2]
     IN /\ \E others \in {{}, zone[n]} : zone' = [zone EXCEPT ![n] = others \cup {ip}]
        /\ changer' = [changer EXCEPT ![n] = current[Self].client]
  /\ Reply(Self, NoAnswer)
  /\ UNCHANGED <<disturbed, server>>

\* "failed to parse name" panics the actor; the server goes with it.
ParseFails ==
  /\ Processing(Self, {"Remove", "Upsert"})
  /\ current[Self].arg[1] \notin Name
  /\ Panic(Self)
  /\ server' = FALSE
  /\ disturbed' = disturbed \cup {Self}
  /\ UNCHANGED <<zone, changer>>

\* The loop ends with shutdown_gracefully.
Shutdown == Ends(Self) /\ server' = FALSE /\ UNCHANGED <<zone, changer>>

process == Query \/ remove \/ upsert \/ ParseFails \/ Shutdown

-----------------------------------------------------------------------------
\* The call m changes the record of n.
Changes(m, n) == m.to = Self /\ m.op \in {"Upsert", "Remove"} /\ m.arg[1] = n

\* The calls of c up to now that change the record of n, as positions of its plan.
Updates(c, n) == {i \in 1 .. Len(plan[c]) - Len(script[c]) : Changes(plan[c][i], n)}

\* The record of n is as m leaves it.
InEffect(m, n) == IF m.op = "Upsert" THEN m.arg[2] \in zone[n] ELSE zone[n] = {}

\* When the actor answers a client, a name that nobody else has changed after it is as
\* its last upsert or remove left it, though neither is acknowledged.
UpdatesTakeEffect ==
  [][\A c \in Client, n \in Name :
       /\ From(current[Self], c) /\ current'[Self] = None /\ actor'[Self] = "run"
       /\ Updates(c, n) # {} /\ changer[n] \in {c, NoClient}
       => InEffect(plan[c][Max(Updates(c, n))], n)]_<<actorVars, dnsVars>>
=============================================================================
