-------------------------------- MODULE Tls --------------------------------
(***************************************************************************)
(* The actor of crates/e2etest-tls: it owns the temporary files of the     *)
(* certificate and the key and tells where they are.  The files are        *)
(* removed when the actor's task is gone.                                  *)
(***************************************************************************)
EXTENDS Actor

CONSTANT Self  \* the actor

VARIABLE files \* the temporary files that exist

Paths == {"cert", "key"}

TlsTypeOK == files \subseteq Paths

TlsInit == files = Paths

\* TlsExt
Request(op) == [to |-> Self, op |-> op, arg |-> <<>>, reply |-> "taken"]

CallCertPath == Request("CertPath")

CallKeyPath == Request("KeyPath")

CallClientTlsConfig == Request("ClientTlsConfig")

Served ==
  CASE current[Self].op = "CertPath" -> {"cert"}
    [] current[Self].op = "KeyPath" -> {"key"}
    [] current[Self].op = "ClientTlsConfig" -> {"config"}

-----------------------------------------------------------------------------
\* Mutant: the reply is expected to be received.
ServeExpecting ==
  /\ Processing(Self, {"CertPath", "KeyPath", "ClientTlsConfig"})
  /\ ExpectReply(Self, Served)
  /\ files' = IF Unheard(Self) THEN {} ELSE files
  /\ UNCHANGED disturbed

\* A reply that nobody receives is ignored.
Serve ==
  /\ Processing(Self, {"CertPath", "KeyPath", "ClientTlsConfig"})
  /\ Reply(Self, Served)
  /\ UNCHANGED <<files, disturbed>>

\* The loop ends; the files are dropped.
Shutdown == Ends(Self) /\ files' = {}

process == Serve \/ Shutdown

-----------------------------------------------------------------------------
\* A path that a client was told leads to a file as long as the client is there,
\* whichever clients were cancelled in the meantime.
PathsLead ==
  \A c \in Client : call[c] # "closed" => answer[c] \cap Paths \subseteq files
=============================================================================
