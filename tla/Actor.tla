------------------------------- MODULE Actor -------------------------------
(***************************************************************************)
(* What the actors of the repository have in common: a task that serves    *)
(* the messages of a bounded mpsc channel one at a time, and clients that  *)
(* hold a sender.  A message may carry a oneshot sender for the reply, on  *)
(* which the client waits.                                                 *)
(*                                                                         *)
(* A client runs a plan of calls.  Its task may be cancelled (a test or a  *)
(* fixture that times out): it then drops its receiver, or the message it  *)
(* has not placed yet, and goes on with a cleanup.                         *)
(***************************************************************************)
EXTENDS Naturals, Sequences, SequencesExt, FiniteSets

CONSTANTS
  Actors,     \* the actors at work
  Client,     \* tasks with a clone of every mpsc::Sender
  Plans,      \* a set of functions: the calls that each client makes
  Cleanup,    \* Cleanup[c]: what is called for c after it was cancelled
  Impatient,  \* clients that may be cancelled during a call
  MayFail,    \* whether what the actors ask of the system may fail
  Capacity,   \* of a mailbox; 10 in the code
  NoClient    \* the receiver of a reply was dropped

\* What a client does with the reply: nothing when there is none, take it, or
\* assert that it is true.
Replies == {"none", "taken", "asserted"}

\* The calls that are made, whatever the plan.
Calls == UNION {ToSet(p[c]) : p \in Plans \cup {Cleanup}, c \in Client}

ASSUME ActorAssumption ==
  /\ NoClient \notin Client
  /\ Plans \cup {Cleanup} \subseteq [Client -> Seq(Calls)]
  /\ \A m \in Calls : m.to \in Actors /\ m.reply \in Replies
  /\ Impatient \subseteq Client
  /\ MayFail \in BOOLEAN
  /\ Capacity \in Nat \ {0}

VARIABLES
  plan,      \* plan[c]: the calls of c, from the first
  script,    \* script[c]: those that c has still to make
  call,      \* call[c]: where c stands
  answer,    \* answer[c]: the last reply that c received
  mailbox,   \* mailbox[a]: the mpsc channel
  current,   \* current[a]: the message in process()
  actor,     \* actor[a]: "run", "dead" after a panic, "finished" at its end
  cleaning,  \* clients that were cancelled
  disturbed  \* history: actors that a cancelled client or a failing system hit

clientVars == <<plan, script, call, answer, cleaning>>

actorVars == <<clientVars, mailbox, current, actor, disturbed>>

None == [op |-> "None"]

\* A reply is kept as the set of what it says: nothing for () and for false.
NoAnswer == {}

Answer(b) == IF b THEN {"true"} ELSE NoAnswer

\* The message m was sent by c, which awaits its reply.
From(m, c) == m # None /\ m.client = c /\ m.reply # "none"

ActorTypeOK ==
  /\ \A c \in Client : IsSuffix(script[c], plan[c])
  /\ call \in [Client -> {"idle", "awaiting", "failed", "closed"}]
  /\ \A a \in Actors : /\ Len(mailbox[a]) <= Capacity
                       /\ \A i \in DOMAIN mailbox[a] : mailbox[a][i].to = a
                       /\ current[a] # None => current[a].to = a
  /\ actor \in [Actors -> {"run", "dead", "finished"}]
  /\ cleaning \subseteq Client
  /\ disturbed \subseteq Actors

ActorInit ==
  /\ plan \in Plans
  /\ script = plan
  /\ call = [c \in Client |-> "idle"]
  /\ answer = [c \in Client |-> NoAnswer]
  /\ mailbox = [a \in Actors |-> <<>>]
  /\ current = [a \in Actors |-> None]
  /\ actor = [a \in Actors |-> "run"]
  /\ cleaning = {}
  /\ disturbed = {}

-----------------------------------------------------------------------------
(***************************************************************************)
(* Clients                                                                 *)
(***************************************************************************)

Message(m, c) == [to |-> m.to, op |-> m.op, arg |-> m.arg, reply |-> m.reply, client |-> c]

Calling(c) == call[c] = "idle" /\ script[c] # <<>>

\* Mutant: the mailbox takes one message too many.
SendBeyond(c) ==
  /\ Calling(c)
  /\ LET m == Head(script[c])
     IN /\ actor[m.to] = "run"
        /\ Len(mailbox[m.to]) <= Capacity
        /\ mailbox' = [mailbox EXCEPT ![m.to] = Append(@, Message(m, c))]
        /\ call' = [call EXCEPT ![c] = IF m.reply = "none" THEN "idle" ELSE "awaiting"]
  /\ script' = [script EXCEPT ![c] = Tail(@)]
  /\ UNCHANGED <<plan, answer, cleaning, current, actor, disturbed>>

\* send().await gets a slot of the mailbox; a call with a reply awaits it.
Send(c) ==
  /\ Calling(c)
  /\ LET m == Head(script[c])
     IN /\ actor[m.to] = "run"
        /\ Len(mailbox[m.to]) < Capacity
        /\ mailbox' = [mailbox EXCEPT ![m.to] = Append(@, Message(m, c))]
        /\ call' = [call EXCEPT ![c] = IF m.reply = "none" THEN "idle" ELSE "awaiting"]
  /\ script' = [script EXCEPT ![c] = Tail(@)]
  /\ UNCHANGED <<plan, answer, cleaning, current, actor, disturbed>>

\* The task of c is cancelled: the receiver of the pending reply is dropped, or
\* the message that waits for a slot of the mailbox.  The cleanup is the task of a
\* teardown, which may be cancelled as well.
GiveUp(c) ==
  /\ c \in Impatient
  /\ \/ call[c] = "awaiting"
     \/ Calling(c) /\ Len(mailbox[Head(script[c]).to]) = Capacity
  /\ LET Dropped(m) == IF From(m, c) THEN [m EXCEPT !.client = NoClient] ELSE m
     IN /\ mailbox' = [a \in Actors |->
                         [i \in DOMAIN mailbox[a] |-> Dropped(mailbox[a][i])]]
        /\ current' = [a \in Actors |-> Dropped(current[a])]
  /\ disturbed' = disturbed \cup {a \in Actors : mailbox'[a] # mailbox[a] \/ current'[a] # current[a]}
  /\ call' = [call EXCEPT ![c] = "idle"]
  /\ plan' = [plan EXCEPT ![c] = IF c \in cleaning THEN <<>> ELSE Cleanup[c]]
  /\ script' = [script EXCEPT ![c] = plan'[c]]
  /\ cleaning' = cleaning \cup {c}
  /\ UNCHANGED <<answer, actor>>

\* The message of the call that c awaits has not been dropped.
Pending(c) == \E a \in Actors : \/ From(current[a], c)
                                \/ \E i \in DOMAIN mailbox[a] : From(mailbox[a][i], c)

\* The actor is gone: send() and rx.await return errors, which are expected not
\* to happen ("internal actor should receive request").
CallFails(c) ==
  /\ \/ call[c] = "awaiting" /\ ~Pending(c)
     \/ Calling(c) /\ actor[Head(script[c]).to] # "run"
  /\ call' = [call EXCEPT ![c] = "failed"]
  /\ script' = [script EXCEPT ![c] = <<>>]
  /\ UNCHANGED <<plan, answer, cleaning, mailbox, current, actor, disturbed>>

\* c drops its senders.
Close(c) ==
  /\ call[c] \in {"idle", "failed"} /\ script[c] = <<>>
  /\ call' = [call EXCEPT ![c] = "closed"]
  /\ UNCHANGED <<plan, script, answer, cleaning, mailbox, current, actor, disturbed>>

ClientStep(c) == Send(c) \/ CallFails(c) \/ Close(c)

-----------------------------------------------------------------------------
(***************************************************************************)
(* Actors                                                                  *)
(***************************************************************************)

\* Mutant: the newest message is served first.
ReceiveNewest(a) ==
  /\ actor[a] = "run" /\ current[a] = None /\ mailbox[a] # <<>>
  /\ current' = [current EXCEPT ![a] = Last(mailbox[a])]
  /\ mailbox' = [mailbox EXCEPT ![a] = Front(@)]
  /\ UNCHANGED <<clientVars, actor, disturbed>>

Receive(a) ==
  /\ actor[a] = "run" /\ current[a] = None /\ mailbox[a] # <<>>
  /\ current' = [current EXCEPT ![a] = Head(mailbox[a])]
  /\ mailbox' = [mailbox EXCEPT ![a] = Tail(@)]
  /\ UNCHANGED <<clientVars, actor, disturbed>>

Processing(a, ops) == actor[a] = "run" /\ current[a].op \in ops

\* The task of the actor panics; its messages are dropped with their senders.
Panic(a) ==
  /\ actor' = [actor EXCEPT ![a] = "dead"]
  /\ mailbox' = [mailbox EXCEPT ![a] = <<>>]
  /\ current' = [current EXCEPT ![a] = None]
  /\ UNCHANGED clientVars

\* The end of process(): the reply goes to the client if it is there to take it.
Reply(a, result) ==
  /\ current' = [current EXCEPT ![a] = None]
  /\ LET m == current[a]
         fails == m.reply = "asserted" /\ result = NoAnswer
     IN IF m.reply = "none" \/ m.client = NoClient
        THEN UNCHANGED clientVars
        ELSE /\ call' = [call EXCEPT ![m.client] = IF fails THEN "failed" ELSE "idle"]
             /\ script' = [script EXCEPT ![m.client] = IF fails THEN <<>> ELSE @]
             /\ answer' = [answer EXCEPT ![m.client] = result]
             /\ UNCHANGED <<plan, cleaning>>
  /\ UNCHANGED <<mailbox, actor>>

\* tx.send(..).expect(..) finds no receiver.
Unheard(a) == current[a].reply # "none" /\ current[a].client = NoClient

\* The end of process() where the reply is expected to be received.
ExpectReply(a, result) == IF Unheard(a) THEN Panic(a) ELSE Reply(a, result)

\* All senders are dropped and the mailbox is empty: the loop of the actor ends.
Ends(a) ==
  /\ actor[a] = "run" /\ current[a] = None /\ mailbox[a] = <<>>
  /\ \A c \in Client : call[c] = "closed"
  /\ actor' = [actor EXCEPT ![a] = "finished"]
  /\ UNCHANGED <<clientVars, mailbox, current, disturbed>>

-----------------------------------------------------------------------------
(***************************************************************************)
(* Properties of every actor                                               *)
(***************************************************************************)

\* An actor panics only after a client was cancelled in a call to it or after
\* the system failed it: never on its own state, on the index of a node, on a
\* node without a process or on the reply to a client that waits.
DiesOnlyOfFaults == \A a \in Actors : actor[a] = "dead" => a \in disturbed

\* When an actor answers a client, whatever the client had sent to it before has
\* been processed, the calls without a reply (start, upsert, remove) included.
AnswersFollowCalls ==
  [][\A a \in Actors, c \in Client :
       (From(current[a], c) /\ current'[a] = None) =>
         \A i \in DOMAIN mailbox'[a] : mailbox'[a][i].client # c]_actorVars

\* No client hangs and every actor ends: each client gets through its calls or
\* fails on a dead actor, also when a reply is dropped or an actor dies with
\* calls in its mailbox.
NobodyHangs ==
  /\ \A c \in Client : <>(call[c] = "closed")
  /\ \A a \in Actors : <>(actor[a] # "run")
=============================================================================
