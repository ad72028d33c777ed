---------------------------- MODULE ActorProofs ----------------------------
(***************************************************************************)
(* What holds of every actor, whatever it does with its messages: a step   *)
(* of a system of actors is one of ProtocolStep, or an actor abandons what *)
(* it does, and ProtocolInv is kept by every such step.                    *)
(***************************************************************************)
EXTENDS Actor, SequenceTheorems, WellFoundedInduction, TLAPS

\* What is sent: a call with its client, or with none after that was cancelled.
Messages == {Message(m, d) : m \in Calls, d \in Client \cup {NoClient}}

\* a is done with its message: it replies, or it panics on an unheard reply or on
\* what is counted as a disturbance.
Serves(a) ==
  /\ current[a] # None
  /\ \/ (\E result : Reply(a, result)) /\ UNCHANGED disturbed
     \/ /\ Panic(a)
        /\ disturbed \subseteq disturbed' /\ disturbed' \subseteq Actors
        /\ Unheard(a) \/ a \in disturbed'

\* a panics on what a caller asked of it, without a fault.
Abandons(a) ==
  /\ current[a] # None /\ Panic(a)
  /\ disturbed \subseteq disturbed' /\ disturbed' \subseteq Actors

ProtocolStep ==
  \/ \E c \in Client : Send(c) \/ GiveUp(c) \/ CallFails(c) \/ Close(c)
  \/ \E a \in Actors : Receive(a) \/ Serves(a) \/ Ends(a)
  \/ UNCHANGED actorVars

-----------------------------------------------------------------------------
ProtocolType ==
  /\ plan \in [Client -> Seq(Calls)] /\ script \in [Client -> Seq(Calls)]
  /\ call \in [Client -> {"idle", "awaiting", "failed", "closed"}]
  /\ DOMAIN answer = Client
  /\ mailbox \in [Actors -> Seq(Messages)]
  /\ current \in [Actors -> Messages \cup {None}]
  /\ actor \in [Actors -> {"run", "dead", "finished"}]
  /\ disturbed \subseteq Actors

\* The messages of a: the one it processes, and those in its mailbox.
Places(a) == 0 .. Len(mailbox[a])

MsgAt(a, i) == IF i = 0 THEN current[a] ELSE mailbox[a][i]

\* A client awaits at most one reply, and awaits it as long as it is coming.
OneCall ==
  \A c \in Client, a \in Actors, b \in Actors : \A i \in Places(a), j \in Places(b) :
    From(MsgAt(a, i), c) /\ From(MsgAt(b, j), c) => a = b /\ i = j

Awaited ==
  \A c \in Client, a \in Actors : \A i \in Places(a) :
    From(MsgAt(a, i), c) => call[c] = "awaiting"

\* Behind a call that is awaited there is no message of the same client.
LastCall ==
  \A c \in Client, a \in Actors : \A i \in Places(a), j \in Places(a) :
    From(MsgAt(a, i), c) /\ i < j => MsgAt(a, j).client # c

\* A message lost its client only when that was cancelled.
UnheardDisturbed ==
  \A a \in Actors : \A i \in Places(a) :
    MsgAt(a, i) # None /\ MsgAt(a, i).client = NoClient => a \in disturbed

\* An actor has its own messages.
Addressed ==
  \A a \in Actors : \A i \in Places(a) : MsgAt(a, i) # None => MsgAt(a, i).to = a

ProtocolInv ==
  /\ ProtocolType /\ OneCall /\ Awaited /\ LastCall
  /\ UnheardDisturbed /\ Addressed

\* The steps of the task of a, and of what is around it.
OwnStep(a) == Receive(a) \/ Serves(a) \/ Ends(a) \/ UNCHANGED actorVars

-----------------------------------------------------------------------------
\* The fields of a message (Actor::Message).
LEMMA MessageFields ==
  ASSUME NEW m \in Messages
  PROVE  /\ m.to \in Actors /\ m.reply \in Replies
         /\ m.client \in Client \cup {NoClient}
         /\ m # None
         /\ [m EXCEPT !.client = NoClient] \in Messages
         /\ [m EXCEPT !.client = NoClient].client = NoClient
         /\ [m EXCEPT !.client = NoClient].to = m.to
         /\ [m EXCEPT !.client = NoClient].op = m.op
<1>1. PICK k \in Calls, d \in Client \cup {NoClient} : m = Message(k, d)
  BY DEF Messages
<1>2. k.to \in Actors /\ k.reply \in Replies
  BY ActorAssumption
<1>3. [m EXCEPT !.client = NoClient] = Message(k, NoClient)
  BY <1>1 DEF Message
<1>4. m.to \in Actors /\ m.reply \in Replies /\ m.client \in Client \cup {NoClient}
  BY <1>1, <1>2 DEF Message
<1>5. m # None
  <2>1. "to" \in DOMAIN m
    BY <1>1 DEF Message
  <2>2. "to" \notin DOMAIN None
    BY DEF None
  <2> QED  BY <2>1, <2>2
<1> QED  BY <1>3, <1>4, <1>5 DEF Message, Messages

\* What is called is a call, whatever the plan.
LEMMA InitProtocol == ActorInit => ProtocolInv
<1> SUFFICES ASSUME ActorInit PROVE ProtocolInv
  OBVIOUS
<1>1. plan \in [Client -> Seq(Calls)]
  BY ActorAssumption DEF ActorInit
<1>2. ProtocolType
  BY <1>1 DEF ActorInit, ProtocolType, NoAnswer
<1>3. \A a \in Actors : Places(a) = {0} /\ MsgAt(a, 0) = None
  BY DEF ActorInit, Places, MsgAt
<1>4. OneCall /\ Awaited /\ LastCall /\ UnheardDisturbed /\ Addressed
  BY <1>3 DEF OneCall, Awaited, LastCall, UnheardDisturbed, Addressed, From
<1> QED  BY <1>2, <1>4 DEF ProtocolInv

\* The messages after a call was placed are those before and the new one, which is
\* the last one of its client (Actor::Send).
LEMMA SendKeeps ==
  ASSUME ProtocolInv, NEW c \in Client, Send(c)
  PROVE  ProtocolInv'
<1> DEFINE m == Head(script[c])
           n == Message(m, c)
           k == Len(mailbox[m.to]) + 1
<1>1. m \in Calls /\ m.to \in Actors /\ Tail(script[c]) \in Seq(Calls)
  BY ActorAssumption DEF ProtocolInv, ProtocolType, Send, Calling
<1>2. n \in Messages /\ n.client = c /\ c # NoClient
  BY <1>1, ActorAssumption DEF Messages, Message
<1>3. mailbox' = [mailbox EXCEPT ![m.to] = Append(@, n)] /\ UNCHANGED <<current, actor, disturbed>>
  BY DEF Send
<1>4. ProtocolType'
  <2>1. mailbox' \in [Actors -> Seq(Messages)]
    BY <1>1, <1>2, <1>3 DEF ProtocolInv, ProtocolType
  <2> QED  BY <1>1, <2>1 DEF Send, ProtocolInv, ProtocolType
<1>5. \A d \in Client : d # c => call'[d] = call[d]
  BY DEF Send, ProtocolInv, ProtocolType
<1>6. \A a \in Actors : \A i \in Places(a)' :
        \/ i \in Places(a) /\ MsgAt(a, i)' = MsgAt(a, i)
        \/ a = m.to /\ i = k /\ MsgAt(a, i)' = n
  <2> SUFFICES ASSUME NEW a \in Actors, NEW i \in Places(a)'
               PROVE  \/ i \in Places(a) /\ MsgAt(a, i)' = MsgAt(a, i)
                      \/ a = m.to /\ i = k /\ MsgAt(a, i)' = n
    OBVIOUS
  <2>1. mailbox[a] \in Seq(Messages) /\ mailbox \in [Actors -> Seq(Messages)]
    BY DEF ProtocolInv, ProtocolType
  <2>2. CASE a # m.to
    <3>1. mailbox'[a] = mailbox[a]
      BY <1>3, <2>1, <2>2
    <3> QED  BY <1>3, <3>1 DEF Places, MsgAt
  <2>3. CASE a = m.to
    <3>1. mailbox'[a] = Append(mailbox[a], n)
      BY <1>3, <2>1, <2>3
    <3>2. Len(mailbox'[a]) = k /\ mailbox'[a][k] = n
          /\ \A j \in 1 .. Len(mailbox[a]) : mailbox'[a][j] = mailbox[a][j]
      <4> n \in Messages
        BY <1>2
      <4> HIDE DEF n
      <4> QED  BY <2>1, <2>3, <3>1, AppendProperties
    <3> HIDE DEF n
    <3>3. Len(mailbox[a]) \in Nat /\ k = Len(mailbox[a]) + 1
      BY <2>1, <2>3
    <3>4. i \in 0 .. k
      BY <3>2 DEF Places
    <3>5. CASE i = k
      BY <2>3, <3>2, <3>3, <3>5 DEF MsgAt
    <3>6. CASE i # k
      <4>1. i \in 0 .. Len(mailbox[a])
        BY <3>3, <3>4, <3>6
      <4>2. i # 0 => mailbox'[a][i] = mailbox[a][i]
        BY <3>2, <3>3, <4>1
      <4> QED  BY <1>3, <4>1, <4>2 DEF Places, MsgAt
    <3> QED  BY <3>5, <3>6
  <2> QED  BY <2>2, <2>3
<1>7. \A a \in Actors : \A i \in Places(a) : ~ From(MsgAt(a, i), c)
  BY DEF ProtocolInv, Awaited, Send, Calling
<1>8. \A a \in Actors : Places(a) \subseteq Int /\ k \notin Places(m.to)
                        /\ \A i \in Places(m.to) : i < k
  BY <1>1 DEF Places, ProtocolInv, ProtocolType
<1>9. OneCall'
  BY <1>2, <1>6, <1>7 DEF OneCall, From, ProtocolInv
<1>10. Awaited'
  <2>1. n.reply # "none" => call'[c] = "awaiting"
    BY DEF Send, Message, ProtocolInv, ProtocolType
  <2> HIDE DEF n
  <2> QED  BY <1>2, <1>5, <1>6, <1>7, <2>1 DEF Awaited, From, ProtocolInv
<1>11. LastCall'
  BY <1>2, <1>6, <1>7, <1>8 DEF LastCall, From, ProtocolInv
<1>12. UnheardDisturbed'
  BY <1>2, <1>3, <1>6 DEF UnheardDisturbed, ProtocolInv
<1>13. Addressed'
  <2>1. n.to = m.to
    BY DEF Message
  <2> HIDE DEF n
  <2> QED  BY <1>6, <2>1 DEF Addressed, ProtocolInv
<1> QED  BY <1>4, <1>9, <1>10, <1>11, <1>12, <1>13 DEF ProtocolInv

\* A cancelled client leaves its messages without a client (Actor::GiveUp).
LEMMA GiveUpKeeps ==
  ASSUME ProtocolInv, NEW c \in Client, GiveUp(c)
  PROVE  ProtocolInv'
<1> DEFINE Dropped(m) == IF From(m, c) THEN [m EXCEPT !.client = NoClient] ELSE m
<1>1. /\ mailbox' = [a \in Actors |-> [i \in DOMAIN mailbox[a] |-> Dropped(mailbox[a][i])]]
      /\ current' = [a \in Actors |-> Dropped(current[a])]
  BY DEF GiveUp
<1>2. \A m \in Messages : /\ Dropped(m) \in Messages
                          /\ Dropped(m).client \in {m.client, NoClient}
                          /\ Dropped(m).to = m.to
                          /\ Dropped(m) = m \/ Dropped(m).client = NoClient
                          /\ \A d \in Client : From(Dropped(m), d) => d # c /\ From(m, d)
  <2> SUFFICES ASSUME NEW m \in Messages
               PROVE  /\ Dropped(m) \in Messages
                      /\ Dropped(m).client \in {m.client, NoClient}
                      /\ Dropped(m).to = m.to
                      /\ Dropped(m) = m \/ Dropped(m).client = NoClient
                      /\ \A d \in Client : From(Dropped(m), d) => d # c /\ From(m, d)
    OBVIOUS
  <2> QED  BY MessageFields, ActorAssumption DEF From
<1>3. Dropped(None) = None
  BY DEF From
<1> HIDE DEF Dropped
<1>4. \A a \in Actors : Len(mailbox'[a]) = Len(mailbox[a]) /\ mailbox'[a] \in Seq(Messages)
  <2> SUFFICES ASSUME NEW a \in Actors
               PROVE  Len(mailbox'[a]) = Len(mailbox[a]) /\ mailbox'[a] \in Seq(Messages)
    OBVIOUS
  <2>1. mailbox[a] \in Seq(Messages)
    BY DEF ProtocolInv, ProtocolType
  <2> QED  BY <1>1, <1>2, <2>1
<1>5. ProtocolType'
  <2>1. mailbox' \in [Actors -> Seq(Messages)]
    BY <1>1, <1>4
  <2>2. current' \in [Actors -> Messages \cup {None}]
    BY <1>1, <1>2, <1>3 DEF ProtocolInv, ProtocolType
  <2>3. Cleanup[c] \in Seq(Calls)
    BY ActorAssumption
  <2>4. plan' \in [Client -> Seq(Calls)]
    BY <2>3 DEF GiveUp, ProtocolInv, ProtocolType
  <2>5. script' \in [Client -> Seq(Calls)]
    BY <2>4 DEF GiveUp, ProtocolInv, ProtocolType
  <2> QED  BY <2>1, <2>2, <2>4, <2>5 DEF GiveUp, ProtocolInv, ProtocolType
<1>6. \A a \in Actors : /\ Places(a)' = Places(a)
                        /\ \A i \in Places(a) : MsgAt(a, i)' = Dropped(MsgAt(a, i))
  <2> SUFFICES ASSUME NEW a \in Actors
               PROVE  /\ Places(a)' = Places(a)
                      /\ \A i \in Places(a) : MsgAt(a, i)' = Dropped(MsgAt(a, i))
    OBVIOUS
  <2>1. mailbox[a] \in Seq(Messages)
    BY DEF ProtocolInv, ProtocolType
  <2> QED  BY <1>1, <1>4, <2>1 DEF Places, MsgAt
<1>7. \A a \in Actors : \A i \in Places(a) : MsgAt(a, i) \in Messages \cup {None}
  BY DEF ProtocolInv, ProtocolType, Places, MsgAt
<1>8. \A a \in Actors : \A i \in Places(a) : \A d \in Client :
        From(MsgAt(a, i)', d) => d # c /\ From(MsgAt(a, i), d)
  BY <1>2, <1>3, <1>6, <1>7 DEF From
<1>9. OneCall'
  BY <1>6, <1>8 DEF OneCall, ProtocolInv
<1>10. Awaited'
  <2>1. \A d \in Client : d # c => call'[d] = call[d]
    BY DEF GiveUp, ProtocolInv, ProtocolType
  <2> QED  BY <1>6, <1>8, <2>1 DEF Awaited, ProtocolInv
<1>11. LastCall'
  <2> SUFFICES ASSUME NEW d \in Client, NEW a \in Actors, NEW i \in Places(a), NEW j \in Places(a),
                      From(MsgAt(a, i)', d), i < j
               PROVE  MsgAt(a, j)'.client # d
    BY <1>6 DEF LastCall
  <2>1. MsgAt(a, j).client # d
    BY <1>8 DEF LastCall, ProtocolInv
  <2>2. MsgAt(a, j) \in Messages
    BY DEF ProtocolInv, ProtocolType, Places, MsgAt
  <2> QED  BY <1>2, <1>6, <2>1, <2>2, ActorAssumption
<1>12. UnheardDisturbed'
  <2> SUFFICES ASSUME NEW a \in Actors, NEW i \in Places(a),
                      MsgAt(a, i)' # None, MsgAt(a, i)'.client = NoClient
               PROVE  a \in disturbed'
    BY <1>6 DEF UnheardDisturbed
  <2>1. disturbed \subseteq disturbed'
        /\ (mailbox'[a] # mailbox[a] \/ current'[a] # current[a] => a \in disturbed')
    BY DEF GiveUp
  <2>2. CASE MsgAt(a, i)' = MsgAt(a, i)
    BY <2>1, <2>2 DEF UnheardDisturbed, ProtocolInv
  <2>3. CASE MsgAt(a, i)' # MsgAt(a, i)
    BY <2>1, <2>3 DEF MsgAt
  <2> QED  BY <2>2, <2>3
<1>13. Addressed'
  BY <1>2, <1>3, <1>6, <1>7 DEF Addressed, ProtocolInv
<1> QED  BY <1>5, <1>9, <1>10, <1>11, <1>12, <1>13 DEF ProtocolInv

\* The messages move up by one place (Actor::Receive).
LEMMA ReceiveKeeps ==
  ASSUME ProtocolInv, NEW a \in Actors, Receive(a)
  PROVE  ProtocolInv'
<1>1. mailbox[a] \in Seq(Messages) /\ mailbox[a] # <<>> /\ current[a] = None
  BY DEF Receive, ProtocolInv, ProtocolType
<1>2. Head(mailbox[a]) \in Messages /\ Tail(mailbox[a]) \in Seq(Messages)
      /\ Len(Tail(mailbox[a])) = Len(mailbox[a]) - 1
      /\ Head(mailbox[a]) = mailbox[a][1]
      /\ \A i \in 1 .. Len(mailbox[a]) - 1 : Tail(mailbox[a])[i] = mailbox[a][i + 1]
  BY <1>1
<1>3. ProtocolType'
  BY <1>2 DEF Receive, clientVars, ProtocolInv, ProtocolType
<1> DEFINE move(b) == IF b = a THEN 1 ELSE 0
<1>4. \A b \in Actors : \A i \in Places(b)' : /\ i + move(b) \in Places(b)
                                              /\ MsgAt(b, i)' = MsgAt(b, i + move(b))
  <2> SUFFICES ASSUME NEW b \in Actors, NEW i \in Places(b)'
               PROVE  i + move(b) \in Places(b) /\ MsgAt(b, i)' = MsgAt(b, i + move(b))
    OBVIOUS
  <2>1. CASE b = a
    <3>1. mailbox'[a] = Tail(mailbox[a]) /\ current'[a] = mailbox[a][1]
      BY <1>2 DEF Receive, ProtocolInv, ProtocolType
    <3> QED  BY <1>1, <1>2, <2>1, <3>1 DEF Places, MsgAt
  <2>2. CASE b # a
    <3>1. mailbox'[b] = mailbox[b] /\ current'[b] = current[b] /\ mailbox[b] \in Seq(Messages)
      BY <2>2 DEF Receive, ProtocolInv, ProtocolType
    <3> QED  BY <2>2, <3>1 DEF Places, MsgAt
  <2> QED  BY <2>1, <2>2
<1>5. \A b \in Actors : move(b) \in Int /\ Places(b)' \subseteq Int
  BY <1>3 DEF Places, ProtocolType
<1> HIDE DEF move
<1>6. OneCall'
  <2> SUFFICES ASSUME NEW c \in Client, NEW b \in Actors, NEW d \in Actors,
                      NEW i \in Places(b)', NEW j \in Places(d)',
                      From(MsgAt(b, i)', c), From(MsgAt(d, j)', c)
               PROVE  b = d /\ i = j
    BY DEF OneCall
  <2>1. b = d /\ i + move(b) = j + move(d)
    BY <1>4 DEF OneCall, ProtocolInv
  <2>2. i \in Int /\ j \in Int /\ move(b) \in Int
    BY <1>5
  <2>3. i + move(b) = j + move(b)
    BY <2>1
  <2> QED  BY <2>1, <2>2, <2>3
<1>7. Awaited'
  BY <1>4 DEF Awaited, ProtocolInv, Receive, clientVars
<1>8. LastCall'
  <2> SUFFICES ASSUME NEW c \in Client, NEW b \in Actors, NEW i \in Places(b)', NEW j \in Places(b)',
                      From(MsgAt(b, i)', c), i < j
               PROVE  MsgAt(b, j)'.client # c
    BY DEF LastCall
  <2>1. i + move(b) < j + move(b)
    BY <1>5
  <2> QED  BY <1>4, <2>1 DEF LastCall, ProtocolInv
<1>9. UnheardDisturbed'
  BY <1>4 DEF UnheardDisturbed, ProtocolInv, Receive
<1>10. Addressed'
  BY <1>4 DEF Addressed, ProtocolInv
<1> QED  BY <1>3, <1>6, <1>7, <1>8, <1>9, <1>10 DEF ProtocolInv

\* The message that is done with is gone; its client, if it still waits, has its
\* answer (Actor::Reply, Actor::Panic).
LEMMA ServesKeeps ==
  ASSUME ProtocolInv, NEW a \in Actors, Serves(a) \/ Abandons(a)
  PROVE  ProtocolInv'
<1> DEFINE m == current[a]
<1>1. m \in Messages /\ m.client \in Client \cup {NoClient}
  BY MessageFields DEF Serves, Abandons, ProtocolInv, ProtocolType
<1>2. \A c \in Client : call'[c] = call[c] \/ From(m, c)
  BY DEF Serves, Abandons, Reply, Panic, clientVars, From, ProtocolInv, ProtocolType
<1>3. disturbed \subseteq disturbed'
  BY DEF Serves, Abandons
<1>4. \A b \in Actors : \A i \in Places(b)' :
        \/ b = a /\ i = 0 /\ MsgAt(b, i)' = None
        \/ i \in Places(b) /\ MsgAt(b, i)' = MsgAt(b, i) /\ <<b, i>> # <<a, 0>>
  <2> SUFFICES ASSUME NEW b \in Actors, NEW i \in Places(b)'
               PROVE  \/ b = a /\ i = 0 /\ MsgAt(b, i)' = None
                      \/ i \in Places(b) /\ MsgAt(b, i)' = MsgAt(b, i) /\ <<b, i>> # <<a, 0>>
    OBVIOUS
  <2>1. current' = [current EXCEPT ![a] = None] /\ mailbox' \in {mailbox, [mailbox EXCEPT ![a] = <<>>]}
    BY DEF Serves, Abandons, Reply, Panic
  <2>2. mailbox[b] \in Seq(Messages)
    BY DEF ProtocolInv, ProtocolType
  <2>3. CASE b = a
    BY <2>1, <2>2, <2>3 DEF Places, MsgAt, ProtocolInv, ProtocolType
  <2>4. CASE b # a
    BY <2>1, <2>2, <2>4 DEF Places, MsgAt, ProtocolInv, ProtocolType
  <2> QED  BY <2>3, <2>4
<1>5. ProtocolType'
  <2>1. CASE \E result : Reply(a, result) /\ UNCHANGED disturbed
    <3>1. PICK result : Reply(a, result) /\ UNCHANGED disturbed
      BY <2>1
    <3>2. script' \in [Client -> Seq(Calls)]
      <4>1. \/ script' = script
            \/ \E rest \in {<<>>, script[m.client]} : script' = [script EXCEPT ![m.client] = rest]
        BY <3>1 DEF Reply, clientVars
      <4>2. script \in [Client -> Seq(Calls)] /\ (m.client \in Client => script[m.client] \in Seq(Calls))
        BY DEF ProtocolInv, ProtocolType
      <4>3. CASE m.client \in Client
        <5>1. CASE script' = script
          BY <4>2, <5>1
        <5>2. CASE script' = [script EXCEPT ![m.client] = <<>>]
          <6>1. <<>> \in Seq(Calls)
            OBVIOUS
          <6> QED  BY <4>2, <5>2, <6>1
        <5>3. CASE script' = [script EXCEPT ![m.client] = script[m.client]]
          BY <4>2, <4>3, <5>3
        <5> QED  BY <4>1, <5>1, <5>2, <5>3
      <4>4. CASE m.client \notin Client
        BY <1>1, <3>1, <4>2, <4>4 DEF Reply, clientVars
      <4> QED  BY <4>3, <4>4
    <3> QED  BY <3>1, <3>2 DEF Reply, clientVars, ProtocolInv, ProtocolType
  <2>2. CASE Panic(a) /\ disturbed' \subseteq Actors
    <3>1. mailbox' \in [Actors -> Seq(Messages)]
      BY <2>2 DEF Panic, ProtocolInv, ProtocolType
    <3> QED  BY <2>2, <3>1 DEF Panic, clientVars, ProtocolInv, ProtocolType
  <2> QED  BY <2>1, <2>2 DEF Serves, Abandons
<1>6. \A c \in Client, b \in Actors : \A i \in Places(b)' : From(MsgAt(b, i)', c) =>
        i \in Places(b) /\ From(MsgAt(b, i), c) /\ MsgAt(b, i)' = MsgAt(b, i) /\ <<b, i>> # <<a, 0>>
  BY <1>4 DEF From
<1>7. 0 \in Places(a) /\ MsgAt(a, 0) = m
  BY DEF Places, MsgAt, ProtocolInv, ProtocolType
<1>8. OneCall'
  BY <1>6 DEF OneCall, ProtocolInv
<1>9. Awaited'
  <2> SUFFICES ASSUME NEW c \in Client, NEW b \in Actors, NEW i \in Places(b)', From(MsgAt(b, i)', c)
               PROVE  call'[c] = "awaiting"
    BY DEF Awaited
  <2>1. i \in Places(b) /\ From(MsgAt(b, i), c) /\ <<b, i>> # <<a, 0>>
    BY <1>6
  <2>2. ~ From(m, c)
    BY <1>7, <2>1 DEF OneCall, ProtocolInv
  <2> QED  BY <1>2, <2>1, <2>2 DEF Awaited, ProtocolInv
<1>10. LastCall'
  <2> SUFFICES ASSUME NEW c \in Client, NEW b \in Actors, NEW i \in Places(b)', NEW j \in Places(b)',
                      From(MsgAt(b, i)', c), i < j
               PROVE  MsgAt(b, j)'.client # c
    BY DEF LastCall
  <2>1. j # 0
    BY <1>5 DEF Places, ProtocolType
  <2> QED  BY <1>4, <1>6, <2>1 DEF LastCall, ProtocolInv
<1>11. UnheardDisturbed'
  BY <1>3, <1>4 DEF UnheardDisturbed, ProtocolInv
<1>12. Addressed'
  BY <1>4 DEF Addressed, ProtocolInv
<1> QED  BY <1>5, <1>8, <1>9, <1>10, <1>11, <1>12 DEF ProtocolInv

\* A client that fails does not wait for a reply that is coming (Actor::CallFails),
\* and one that drops its senders awaits none.
LEMMA LeavingKeeps ==
  ASSUME ProtocolInv, NEW c \in Client, CallFails(c) \/ Close(c)
  PROVE  ProtocolInv'
<1>1. \A a \in Actors : \A i \in Places(a) : ~ From(MsgAt(a, i), c)
  <2>1. CASE call[c] # "awaiting"
    BY <2>1 DEF Awaited, ProtocolInv
  <2>2. CASE call[c] = "awaiting"
    <3>1. ~ Pending(c)
      BY <2>2 DEF CallFails, Close, Calling
    <3>2. \A a \in Actors : \A i \in Places(a) : i = 0 \/ i \in DOMAIN mailbox[a]
      BY DEF Places, ProtocolInv, ProtocolType
    <3> QED  BY <3>1, <3>2 DEF Pending, MsgAt
  <2> QED  BY <2>1, <2>2
<1>2. ProtocolType'
  <2>1. <<>> \in Seq(Calls)
    OBVIOUS
  <2>2. script' \in [Client -> Seq(Calls)]
    BY <2>1 DEF CallFails, Close, ProtocolInv, ProtocolType
  <2> QED  BY <2>2 DEF CallFails, Close, ProtocolInv, ProtocolType
<1>3. UNCHANGED <<mailbox, current, actor, disturbed>>
  BY DEF CallFails, Close
<1>4. \A a \in Actors : Places(a)' = Places(a) /\ \A i \in Places(a) : MsgAt(a, i)' = MsgAt(a, i)
  BY <1>3 DEF Places, MsgAt
<1>5. OneCall' /\ LastCall' /\ UnheardDisturbed' /\ Addressed'
  BY <1>3, <1>4 DEF OneCall, LastCall, UnheardDisturbed, Addressed, ProtocolInv
<1>6. Awaited'
  <2>1. \A d \in Client : d # c => call'[d] = call[d]
    BY DEF CallFails, Close, ProtocolInv, ProtocolType
  <2> QED  BY <1>1, <1>4, <2>1 DEF Awaited, ProtocolInv
<1> QED  BY <1>2, <1>5, <1>6 DEF ProtocolInv

\* The loop of an actor ends: nobody is left to wait (Actor::Ends).
LEMMA EndsKeeps ==
  ASSUME ProtocolInv, NEW a \in Actors, Ends(a)
  PROVE  ProtocolInv'
<1>1. ProtocolType'
  BY DEF Ends, clientVars, ProtocolInv, ProtocolType
<1>2. UNCHANGED <<call, mailbox, current, disturbed>>
  BY DEF Ends, clientVars
<1>3. \A b \in Actors : Places(b)' = Places(b) /\ \A i \in Places(b) : MsgAt(b, i)' = MsgAt(b, i)
  BY <1>2 DEF Places, MsgAt
<1>4. OneCall' /\ LastCall' /\ Awaited' /\ UnheardDisturbed' /\ Addressed'
  BY <1>2, <1>3 DEF OneCall, LastCall, Awaited, UnheardDisturbed, Addressed, ProtocolInv
<1> QED  BY <1>1, <1>4 DEF ProtocolInv

\* Every step of a system of actors keeps what holds of their messages.
LEMMA ProtocolKeeps ==
  ASSUME ProtocolInv, ProtocolStep \/ \E a \in Actors : Abandons(a)
  PROVE  ProtocolInv'
<1>1. ASSUME NEW c \in Client, Send(c) PROVE ProtocolInv'
  BY <1>1, SendKeeps
<1>2. ASSUME NEW c \in Client, GiveUp(c) PROVE ProtocolInv'
  BY <1>2, GiveUpKeeps
<1>3. ASSUME NEW c \in Client, CallFails(c) \/ Close(c) PROVE ProtocolInv'
  BY <1>3, LeavingKeeps
<1>4. ASSUME NEW a \in Actors, Receive(a) PROVE ProtocolInv'
  BY <1>4, ReceiveKeeps
<1>5. ASSUME NEW a \in Actors, Serves(a) \/ Abandons(a) PROVE ProtocolInv'
  BY <1>5, ServesKeeps
<1>6. ASSUME NEW a \in Actors, Ends(a) PROVE ProtocolInv'
  BY <1>6, EndsKeeps
<1>7. CASE UNCHANGED actorVars
  <2>1. /\ UNCHANGED <<plan, script, call, answer>>
        /\ UNCHANGED <<mailbox, current, actor, disturbed>>
    BY <1>7 DEF actorVars, clientVars
  <2>2. \A a \in Actors : Places(a)' = Places(a) /\ \A i \in Places(a) : MsgAt(a, i)' = MsgAt(a, i)
    BY <2>1 DEF Places, MsgAt
  <2>3. ProtocolType'
    BY <2>1 DEF ProtocolType, ProtocolInv
  <2>4. OneCall' /\ LastCall'
    BY <2>2 DEF OneCall, LastCall, ProtocolInv
  <2>5. Awaited' /\ UnheardDisturbed' /\ Addressed'
    BY <2>1, <2>2 DEF Awaited, UnheardDisturbed, Addressed, ProtocolInv
  <2> QED  BY <2>3, <2>4, <2>5 DEF ProtocolInv
<1> QED  BY <1>1, <1>2, <1>3, <1>4, <1>5, <1>6, <1>7 DEF ProtocolStep

\* An actor that replies, or panics on an unheard reply or on what is counted as a
\* disturbance, does not die without a fault (Actor::DiesOnlyOfFaults).
LEMMA DyingKeeps ==
  ASSUME ProtocolInv, DiesOnlyOfFaults, ProtocolStep
  PROVE  DiesOnlyOfFaults'
<1>1. ProtocolType
  BY DEF ProtocolInv
<1> SUFFICES ASSUME NEW b \in Actors, actor'[b] = "dead"
             PROVE  b \in disturbed'
  BY DEF DiesOnlyOfFaults
<1>2. disturbed \subseteq disturbed'
  BY DEF ProtocolStep, Send, GiveUp, CallFails, Close, Receive, Serves, Ends, actorVars
<1>3. CASE actor[b] = "dead"
  BY <1>2, <1>3 DEF DiesOnlyOfFaults
<1>4. CASE actor[b] # "dead"
  <2>1. Serves(b) /\ Panic(b)
    BY <1>1, <1>4 DEF ProtocolStep, Send, GiveUp, CallFails, Close, Receive, Serves, Reply, Panic, Ends,
                      actorVars, ProtocolType
  <2>2. CASE Unheard(b)
    <3>1. current[b] # None /\ current[b].client = NoClient
      BY <2>1, <2>2 DEF Serves, Unheard
    <3>2. 0 \in Places(b) /\ MsgAt(b, 0) = current[b]
      BY <1>1 DEF Places, MsgAt, ProtocolType
    <3> QED  BY <1>2, <3>1, <3>2 DEF UnheardDisturbed, ProtocolInv
  <2>3. CASE ~ Unheard(b)
    BY <1>1, <1>4, <2>1, <2>3 DEF Serves, Reply, Panic, ProtocolType
  <2> QED  BY <2>2, <2>3
<1> QED  BY <1>3, <1>4

\* An actor that has ended or panicked is not started again (Actor::Panic, Actor::Ends).
LEMMA RanBefore ==
  ASSUME ProtocolInv, ProtocolStep, NEW a \in Actors, actor'[a] = "run"
  PROVE  actor[a] = "run"
<1>1. actor \in [Actors -> {"run", "dead", "finished"}]
  BY DEF ProtocolInv, ProtocolType
<1>2. ASSUME NEW b \in Actors, Receive(b) \/ Serves(b) \/ Ends(b) PROVE actor[a] = "run"
  BY <1>1, <1>2 DEF Receive, Serves, Reply, Panic, Ends
<1>3. ASSUME NEW c \in Client, Send(c) \/ GiveUp(c) \/ CallFails(c) \/ Close(c) PROVE actor[a] = "run"
  BY <1>3 DEF Send, GiveUp, CallFails, Close
<1>4. CASE UNCHANGED actorVars
  BY <1>4 DEF actorVars
<1> QED  BY <1>2, <1>3, <1>4 DEF ProtocolStep

\* Nothing reaches a client that has dropped its senders (Actor::Close).
LEMMA ClosedStays ==
  ASSUME ProtocolInv, ProtocolStep, NEW c \in Client, call[c] = "closed"
  PROVE  call'[c] = "closed"
<1>1. ASSUME NEW a \in Actors, Serves(a) PROVE call'[c] = call[c]
  <2>1. ~ From(current[a], c)
    <3>1. 0 \in Places(a) /\ MsgAt(a, 0) = current[a]
      BY DEF Places, MsgAt, ProtocolInv, ProtocolType
    <3> QED  BY <3>1 DEF Awaited, ProtocolInv
  <2> QED  BY <1>1, <2>1 DEF Serves, Reply, Panic, clientVars, From, ProtocolInv, ProtocolType
<1> QED  BY <1>1 DEF ProtocolStep, Send, GiveUp, CallFails, Close, Calling, Receive, Ends,
                     actorVars, clientVars, ProtocolInv, ProtocolType

\* A reply comes after everything that its client had sent to the actor: in every
\* step of a system of actors (Actor::AnswersFollowCalls).
LEMMA AnswersFollow ==
  ASSUME ProtocolInv, ProtocolStep \/ \E b \in Actors : Abandons(b),
         NEW a \in Actors, NEW c \in Client, From(current[a], c), current'[a] = None,
         NEW i \in DOMAIN mailbox'[a]
  PROVE  mailbox'[a][i].client # c
<1>1. current[a] # None
  BY DEF From
<1>2. ASSUME NEW d \in Client, GiveUp(d) PROVE FALSE
  <2>1. current'[a] = IF From(current[a], d) THEN [current[a] EXCEPT !.client = NoClient] ELSE current[a]
    BY <1>2 DEF GiveUp
  <2>2. current[a] \in Messages
    BY <1>1 DEF ProtocolInv, ProtocolType
  <2>3. [current[a] EXCEPT !.client = NoClient] # None
    BY <2>2, MessageFields
  <2> QED  BY <1>1, <2>1, <2>3
<1>3. ASSUME NEW b \in Actors, Receive(b) PROVE FALSE
  <2>1. Head(mailbox[b]) \in Messages
    BY <1>3 DEF Receive, ProtocolInv, ProtocolType
  <2>2. Head(mailbox[b]) # None
    BY <2>1, MessageFields
  <2> QED  BY <1>1, <1>3, <2>2 DEF Receive, ProtocolInv, ProtocolType
<1>4. \E b \in Actors : Serves(b) \/ Abandons(b)
  BY <1>1, <1>2, <1>3 DEF ProtocolStep, Send, CallFails, Close, Ends, actorVars
<1>5. mailbox' = mailbox \/ \E b \in Actors : mailbox' = [mailbox EXCEPT ![b] = <<>>]
  BY <1>4 DEF Serves, Abandons, Reply, Panic
<1>6. mailbox[a] \in Seq(Messages)
  BY DEF ProtocolInv, ProtocolType
<1>7. mailbox'[a] = mailbox[a] /\ i \in Places(a) /\ i > 0
  <2>1. mailbox'[a] = mailbox[a] \/ mailbox'[a] = <<>>
    BY <1>5 DEF ProtocolInv, ProtocolType
  <2>2. mailbox'[a] # <<>>
    OBVIOUS
  <2>3. i \in 1 .. Len(mailbox[a])
    BY <1>6, <2>1, <2>2
  <2> QED  BY <2>1, <2>2, <2>3 DEF Places
<1>8. 0 \in Places(a) /\ MsgAt(a, 0) = current[a] /\ MsgAt(a, i) = mailbox[a][i]
  BY <1>6, <1>7 DEF Places, MsgAt
<1> QED  BY <1>7, <1>8 DEF LastCall, ProtocolInv

\* Actors touch each other's messages neither in the mailbox nor in process().
LEMMA OthersKeep ==
  ASSUME ProtocolInv, NEW a \in Actors, OwnStep(a), NEW b \in Actors, b # a
  PROVE  current'[b] = current[b] /\ mailbox'[b] = mailbox[b] /\ actor'[b] = actor[b]
  BY DEF OwnStep, Receive, Serves, Reply, Panic, Ends, actorVars, ProtocolInv, ProtocolType

\* A client takes no message away, and ends no actor.
LEMMA ClientsKeep ==
  ASSUME ProtocolInv, NEW c \in Client, ClientStep(c) \/ GiveUp(c), NEW a \in Actors
  PROVE  /\ current'[a] = None <=> current[a] = None
         /\ current'[a].op = current[a].op
         /\ actor' = actor
<1>1. CASE ClientStep(c)
  BY <1>1 DEF ClientStep, Send, CallFails, Close
<1>2. CASE GiveUp(c)
  <2>1. current'[a] \in {current[a], [current[a] EXCEPT !.client = NoClient]}
        /\ (current[a] = None => current'[a] = None)
    BY <1>2 DEF GiveUp, From
  <2>2. CASE current[a] = None
    BY <1>2, <2>1, <2>2 DEF GiveUp
  <2>3. CASE current[a] \in Messages
    BY <1>2, <2>1, <2>3, MessageFields DEF GiveUp
  <2> QED  BY <2>2, <2>3 DEF ProtocolInv, ProtocolType
<1> QED  BY <1>1, <1>2

\* What is served is what somebody called (Actor::Message).
LEMMA IsCalled ==
  ASSUME ProtocolInv, NEW a \in Actors, current[a] # None
  PROVE  \E k \in Calls : k.to = a /\ k.op = current[a].op /\ k.arg = current[a].arg /\ k.reply = current[a].reply
<1>1. current[a] \in Messages /\ current[a].to = a
  <2>1. 0 \in Places(a) /\ MsgAt(a, 0) = current[a]
    BY DEF Places, MsgAt, ProtocolInv, ProtocolType
  <2> QED  BY <2>1 DEF Addressed, ProtocolInv, ProtocolType
<1>2. PICK k \in Calls, d \in Client \cup {NoClient} : current[a] = Message(k, d)
  BY <1>1 DEF Messages
<1>3. k.to = a /\ k.op = current[a].op /\ k.arg = current[a].arg /\ k.reply = current[a].reply
  BY <1>1, <1>2 DEF Message
<1> QED  BY <1>3

\* What is indexed from one is a sequence (Processes::Killed, Processes::Started).
LEMMA FunctionIsSeq ==
  ASSUME NEW S, NEW n \in Nat, NEW f \in [1 .. n -> S]
  PROVE  f \in Seq(S)
OBVIOUS

-----------------------------------------------------------------------------
(***************************************************************************)
(* The rest of the type of a system of actors.                             *)
(***************************************************************************)

\* What c has still to make are the last calls of its plan, and no mailbox holds more
\* than it can.
ClientType ==
  /\ \A c \in Client : IsSuffix(script[c], plan[c])
  /\ cleaning \subseteq Client
  /\ \A a \in Actors : Len(mailbox[a]) <= Capacity

\* A suffix, by its elements.
LEMMA SuffixElements ==
  ASSUME NEW S, NEW s \in Seq(S), NEW t \in Seq(S)
  PROVE  IsSuffix(s, t) <=>
           Len(s) <= Len(t) /\ \A i \in 1 .. Len(s) : s[i] = t[Len(t) - Len(s) + i]
<1> DEFINE u == Reverse(s)
           v == Reverse(t)
<1>1. Len(s) \in Nat /\ Len(t) \in Nat
  OBVIOUS
<1>2. /\ u \in Seq(S) /\ Len(u) = Len(s) /\ \A i \in 1 .. Len(s) : u[i] = s[Len(s) - i + 1]
      /\ v \in Seq(S) /\ Len(v) = Len(t) /\ \A i \in 1 .. Len(t) : v[i] = t[Len(t) - i + 1]
  BY <1>1 DEF Reverse
<1> HIDE DEF u, v
<1>3. CASE Len(s) <= Len(t)
  <2>1. SubSeq(u, 1, Len(u)) = SubSeq(v, 1, Len(u)) <=> \A i \in 1 .. Len(s) : u[i] = v[i]
    BY <1>1, <1>2, <1>3
  <2>2. (\A i \in 1 .. Len(s) : u[i] = v[i]) => \A i \in 1 .. Len(s) : s[i] = t[Len(t) - Len(s) + i]
    <3> SUFFICES ASSUME \A i \in 1 .. Len(s) : u[i] = v[i], NEW i \in 1 .. Len(s)
                 PROVE  s[i] = t[Len(t) - Len(s) + i]
      OBVIOUS
    <3>1. /\ Len(s) - i + 1 \in 1 .. Len(s) /\ Len(s) - i + 1 \in 1 .. Len(t)
          /\ Len(s) - (Len(s) - i + 1) + 1 = i
          /\ Len(t) - (Len(s) - i + 1) + 1 = Len(t) - Len(s) + i
      BY <1>1, <1>3
    <3>2. u[Len(s) - i + 1] = s[i] /\ v[Len(s) - i + 1] = t[Len(t) - Len(s) + i]
      BY <1>2, <3>1
    <3> QED  BY <3>1, <3>2
  <2>3. (\A i \in 1 .. Len(s) : s[i] = t[Len(t) - Len(s) + i]) => \A i \in 1 .. Len(s) : u[i] = v[i]
    <3> SUFFICES ASSUME \A i \in 1 .. Len(s) : s[i] = t[Len(t) - Len(s) + i], NEW i \in 1 .. Len(s)
                 PROVE  u[i] = v[i]
      OBVIOUS
    <3>1. Len(s) - i + 1 \in 1 .. Len(s) /\ Len(t) - Len(s) + (Len(s) - i + 1) = Len(t) - i + 1
      BY <1>1
    <3>2. s[Len(s) - i + 1] = t[Len(t) - i + 1]
      BY <3>1
    <3> QED  BY <1>1, <1>2, <1>3, <3>2
  <2> QED  BY <1>2, <1>3, <2>1, <2>2, <2>3 DEF IsSuffix, IsPrefix, u, v
<1>4. CASE ~ (Len(s) <= Len(t))
  BY <1>2, <1>4 DEF IsSuffix, IsPrefix, u, v
<1> QED  BY <1>3, <1>4

\* Suffixes that come up: all of a sequence, nothing, and what remains of one.
LEMMA SuffixFacts ==
  ASSUME NEW S, NEW s \in Seq(S), NEW t \in Seq(S)
  PROVE  /\ IsSuffix(t, t)
         /\ IsSuffix(<<>>, t)
         /\ s # <<>> /\ IsSuffix(s, t) => IsSuffix(Tail(s), t)
<1>1. IsSuffix(t, t)
  BY SuffixElements
<1>2. IsSuffix(<<>>, t)
  <2>1. ASSUME NEW e \in Seq(S), Len(e) = 0 PROVE IsSuffix(e, t)
    <3>1. Len(e) <= Len(t) /\ \A i \in 1 .. Len(e) : e[i] = t[Len(t) - Len(e) + i]
      BY <2>1
    <3> QED  BY <3>1, SuffixElements
  <2>2. <<>> \in Seq(S) /\ Len(<<>>) = 0
    OBVIOUS
  <2> QED  BY <2>1, <2>2
<1>3. ASSUME s # <<>>, IsSuffix(s, t) PROVE IsSuffix(Tail(s), t)
  <2>1. /\ Tail(s) \in Seq(S) /\ Len(s) \in Nat \ {0} /\ Len(t) \in Nat /\ Len(Tail(s)) = Len(s) - 1
        /\ \A i \in 1 .. Len(s) - 1 : Tail(s)[i] = s[i + 1]
    BY <1>3
  <2>2. Len(s) <= Len(t) /\ \A i \in 1 .. Len(s) : s[i] = t[Len(t) - Len(s) + i]
    BY <1>3, SuffixElements
  <2>3. ASSUME NEW i \in 1 .. Len(s) - 1 PROVE Tail(s)[i] = t[Len(t) - (Len(s) - 1) + i]
    <3>1. i + 1 \in 1 .. Len(s) /\ Len(t) - Len(s) + (i + 1) = Len(t) - (Len(s) - 1) + i
      BY <2>1
    <3> QED  BY <2>1, <2>2, <3>1
  <2>4. /\ Len(Tail(s)) <= Len(t)
        /\ \A i \in 1 .. Len(Tail(s)) : Tail(s)[i] = t[Len(t) - Len(Tail(s)) + i]
    BY <2>1, <2>2, <2>3
  <2> DEFINE r == Tail(s)
  <2>5. r \in Seq(S)
    BY <2>1
  <2> HIDE DEF r
  <2>6. Len(r) <= Len(t) /\ \A i \in 1 .. Len(r) : r[i] = t[Len(t) - Len(r) + i]
    BY <2>4 DEF r
  <2>7. IsSuffix(r, t)
    BY <2>5, <2>6, SuffixElements
  <2> QED  BY <2>7 DEF r
<1> QED  BY <1>1, <1>2, <1>3

\* A client starts at the beginning of its plan, with empty mailboxes.
LEMMA ClientTypeInit == ActorInit => ClientType
<1> SUFFICES ASSUME ActorInit PROVE ClientType
  OBVIOUS
<1>1. ProtocolType
  BY InitProtocol DEF ProtocolInv
<1>2. \A c \in Client : IsSuffix(script[c], plan[c])
  BY <1>1, SuffixFacts DEF ActorInit, ProtocolType
<1> QED  BY <1>2, ActorAssumption DEF ActorInit, ClientType

\* Calls are made in the order of the plan, into a mailbox that has room (Actor::Send);
\* a cancelled client begins another plan (Actor::GiveUp).
LEMMA ClientTypeKeeps ==
  ASSUME ProtocolInv, ClientType, ProtocolStep \/ \E a \in Actors : Abandons(a)
  PROVE  ClientType'
<1>1. ProtocolType /\ ProtocolType'
  BY ProtocolKeeps DEF ProtocolInv
<1>2. ASSUME NEW c \in Client PROVE IsSuffix(script'[c], plan'[c])
  <2>1. script[c] \in Seq(Calls) /\ plan[c] \in Seq(Calls) /\ plan'[c] \in Seq(Calls)
    BY <1>1 DEF ProtocolType
  <2>2. \/ script'[c] = script[c] /\ plan'[c] = plan[c]
        \/ script'[c] = <<>>
        \/ script[c] # <<>> /\ script'[c] = Tail(script[c]) /\ plan'[c] = plan[c]
        \/ script'[c] = plan'[c]
    <3>1. ASSUME NEW d \in Client, Send(d) \/ GiveUp(d) \/ CallFails(d) \/ Close(d), d # c
          PROVE  script'[c] = script[c] /\ plan'[c] = plan[c]
      BY <1>1, <3>1 DEF Send, GiveUp, CallFails, Close, ProtocolType
    <3>2. Send(c) => script[c] # <<>> /\ script'[c] = Tail(script[c]) /\ plan'[c] = plan[c]
      BY <1>1 DEF Send, Calling, ProtocolType
    <3>3. GiveUp(c) => script'[c] = plan'[c]
      BY <1>1 DEF GiveUp, ProtocolType
    <3>4. CallFails(c) \/ Close(c) => script'[c] = <<>> \/ (script'[c] = script[c] /\ plan'[c] = plan[c])
      BY <1>1 DEF CallFails, Close, ProtocolType
    <3>5. ASSUME NEW a \in Actors, Serves(a) \/ Abandons(a)
          PROVE  script'[c] = <<>> \/ (script'[c] = script[c] /\ plan'[c] = plan[c])
      BY <1>1, <3>5 DEF Serves, Abandons, Reply, Panic, clientVars, ProtocolType
    <3>6. ASSUME NEW a \in Actors, Receive(a) \/ Ends(a) PROVE UNCHANGED <<script, plan>>
      BY <3>6 DEF Receive, Ends, clientVars
    <3> QED
      BY <3>1, <3>2, <3>3, <3>4, <3>5, <3>6 DEF ProtocolStep, actorVars, clientVars
  <2> QED  BY <2>1, <2>2, SuffixFacts DEF ClientType
<1>3. cleaning' \subseteq Client
  BY DEF ProtocolStep, Send, GiveUp, CallFails, Close, Receive, Serves, Abandons, Reply, Panic, Ends,
         actorVars, clientVars, ClientType
<1>4. ASSUME NEW a \in Actors PROVE Len(mailbox'[a]) <= Capacity
  <2>1. mailbox[a] \in Seq(Messages) /\ Len(mailbox[a]) \in Nat /\ Capacity \in Nat
    BY <1>1, ActorAssumption DEF ProtocolType
  <2>2. ASSUME NEW c \in Client, Send(c) PROVE Len(mailbox'[a]) <= Capacity
    <3> DEFINE m == Head(script[c])
    <3>1. /\ Len(mailbox[m.to]) < Capacity
          /\ mailbox' = [mailbox EXCEPT ![m.to] = Append(@, Message(m, c))]
      BY <2>2 DEF Send
    <3>2. CASE a = m.to
      <4>1. mailbox'[a] = Append(mailbox[a], Message(m, c))
        BY <1>1, <3>1, <3>2 DEF ProtocolType
      <4>2. \A x : Len(Append(mailbox[a], x)) = Len(mailbox[a]) + 1
        BY <2>1
      <4> HIDE DEF m
      <4>3. Len(mailbox'[a]) = Len(mailbox[a]) + 1
        BY <4>1, <4>2
      <4> QED  BY <2>1, <3>1, <3>2, <4>3
    <3>3. CASE a # m.to
      BY <1>1, <3>1, <3>3 DEF ProtocolType, ClientType
    <3> QED  BY <3>2, <3>3
  <2>3. ASSUME NEW c \in Client, GiveUp(c) PROVE Len(mailbox'[a]) <= Capacity
    <3>1. DOMAIN mailbox'[a] = DOMAIN mailbox[a] /\ mailbox'[a] \in Seq(Messages)
      BY <1>1, <2>3 DEF GiveUp, ProtocolType
    <3> QED  BY <2>1, <3>1 DEF ClientType
  <2>4. ASSUME NEW b \in Actors, Receive(b) PROVE Len(mailbox'[a]) <= Capacity
    BY <1>1, <2>1, <2>4 DEF Receive, ClientType, ProtocolType
  <2>5. ASSUME NEW b \in Actors, Serves(b) \/ Abandons(b) PROVE Len(mailbox'[a]) <= Capacity
    <3>1. mailbox' = mailbox \/ mailbox' = [mailbox EXCEPT ![b] = <<>>]
      BY <2>5 DEF Serves, Abandons, Reply, Panic
    <3>2. mailbox'[a] = mailbox[a] \/ mailbox'[a] = <<>>
      BY <1>1, <3>1 DEF ProtocolType
    <3>3. Len(<<>>) <= Capacity
      BY <2>1
    <3> QED  BY <3>2, <3>3 DEF ClientType
  <2>6. CASE UNCHANGED mailbox
    BY <2>6 DEF ClientType
  <2> QED
    BY <2>2, <2>3, <2>4, <2>5, <2>6 DEF ProtocolStep, CallFails, Close, Ends, actorVars
<1> QED  BY <1>2, <1>3, <1>4 DEF ClientType

\* The type invariant of Actor.
LEMMA ActorTypes == ProtocolInv /\ ClientType => ActorTypeOK
<1> SUFFICES ASSUME ProtocolInv, ClientType, NEW a \in Actors
             PROVE  /\ \A i \in DOMAIN mailbox[a] : mailbox[a][i].to = a
                    /\ current[a] # None => current[a].to = a
  BY DEF ActorTypeOK, ClientType, ProtocolInv, ProtocolType
<1>1. mailbox[a] \in Seq(Messages) /\ DOMAIN mailbox[a] = 1 .. Len(mailbox[a]) /\ Len(mailbox[a]) \in Nat
  BY DEF ProtocolInv, ProtocolType
<1>2. ASSUME NEW i \in DOMAIN mailbox[a] PROVE mailbox[a][i].to = a
  <2>1. i \in Places(a) /\ MsgAt(a, i) = mailbox[a][i] /\ mailbox[a][i] \in Messages
    BY <1>1 DEF Places, MsgAt
  <2> QED  BY <2>1, MessageFields DEF Addressed, ProtocolInv
<1>3. current[a] # None => current[a].to = a
  <2>1. 0 \in Places(a) /\ MsgAt(a, 0) = current[a]
    BY <1>1 DEF Places, MsgAt
  <2> QED  BY <2>1 DEF Addressed, ProtocolInv
<1> QED  BY <1>2, <1>3

-----------------------------------------------------------------------------
\* A set of numbers has a least element.
LEMMA LeastElement ==
  ASSUME NEW T \in SUBSET Nat, T # {}
  PROVE  \E x \in T : \A y \in T : x <= y
<1> DEFINE R == OpToRel(<, Nat)
<1>1. IsWellFoundedOn(R, Nat)
  BY NatLessThanWellFounded
<1> HIDE DEF R
<1>2. PICK x \in T : \A y \in T : ~ (<<y, x>> \in R)
  BY <1>1, WFMin
<1>3. \A y \in T : ~ (y < x)
  BY <1>2 DEF R, OpToRel
<1> QED  BY <1>3

\* One with a bound has a greatest element.
LEMMA GreatestElement ==
  ASSUME NEW n \in Nat, NEW T \in SUBSET (0 .. n), T # {}
  PROVE  \E x \in T : \A y \in T : x >= y
<1> DEFINE D == {n - x : x \in T}
<1>1. D \in SUBSET Nat /\ D # {}
  <2>1. \A x \in T : n - x \in Nat
    OBVIOUS
  <2>2. PICK x \in T : TRUE
    OBVIOUS
  <2> QED  BY <2>1, <2>2
<1> HIDE DEF D
<1>2. PICK d \in D : \A e \in D : d <= e
  BY <1>1, LeastElement
<1>3. PICK x \in T : d = n - x
  BY <1>2 DEF D
<1>4. \A y \in T : n - y \in D
  BY DEF D
<1>5. ASSUME NEW y \in T PROVE x >= y
  <2>1. n - x <= n - y
    BY <1>2, <1>3, <1>4
  <2> QED  BY <2>1
<1> QED  BY <1>5

-----------------------------------------------------------------------------
\* A message without a reply keeps its client: no receiver of it can be dropped.
Signed(m) == m # None /\ m.reply = "none" => m.client \in Client

Senders ==
  \A a \in Actors : Signed(current[a]) /\ \A i \in DOMAIN mailbox[a] : Signed(mailbox[a][i])

\* Before any call there is no message.
LEMMA SendersInit == ActorInit => Senders
BY DEF ActorInit, Senders, Signed

\* Only a message with a reply loses its client (Actor::GiveUp).
LEMMA SendersKeep ==
  ASSUME ProtocolInv, Senders, ProtocolStep
  PROVE  Senders'
<1>1. ProtocolType
  BY DEF ProtocolInv
<1> SUFFICES ASSUME NEW a \in Actors
             PROVE  Signed(current'[a]) /\ \A i \in DOMAIN mailbox'[a] : Signed(mailbox'[a][i])
  BY DEF Senders, Signed
<1>2. /\ mailbox[a] \in Seq(Messages) /\ Signed(current[a])
      /\ \A i \in DOMAIN mailbox[a] : Signed(mailbox[a][i])
  BY <1>1 DEF ProtocolType, Senders
<1>3. Signed(None)
  BY DEF Signed
<1>4. ASSUME NEW c \in Client, Send(c)
      PROVE  Signed(current'[a]) /\ \A i \in DOMAIN mailbox'[a] : Signed(mailbox'[a][i])
  <2> DEFINE m == Head(script[c])
  <2>1. /\ mailbox' = [mailbox EXCEPT ![m.to] = Append(@, Message(m, c))] /\ current' = current
    BY <1>4 DEF Send
  <2>2. Signed(Message(m, c))
    BY DEF Signed, Message
  <2>3. mailbox'[a] = mailbox[a] \/ mailbox'[a] = Append(mailbox[a], Message(m, c))
    BY <1>1, <2>1 DEF ProtocolType
  <2> HIDE DEF m
  <2>4. CASE mailbox'[a] = Append(mailbox[a], Message(m, c))
    <3>1. \A i \in DOMAIN mailbox'[a] : mailbox'[a][i] = Message(m, c) \/
                                        (i \in DOMAIN mailbox[a] /\ mailbox'[a][i] = mailbox[a][i])
      BY <1>2, <2>4
    <3> QED  BY <1>2, <2>1, <2>2, <3>1
  <2> QED  BY <1>2, <2>1, <2>3, <2>4
<1>5. ASSUME NEW c \in Client, GiveUp(c)
      PROVE  Signed(current'[a]) /\ \A i \in DOMAIN mailbox'[a] : Signed(mailbox'[a][i])
  <2> DEFINE Dropped(m) == IF From(m, c) THEN [m EXCEPT !.client = NoClient] ELSE m
  <2>1. /\ current'[a] = Dropped(current[a])
        /\ mailbox'[a] = [i \in DOMAIN mailbox[a] |-> Dropped(mailbox[a][i])]
    BY <1>5 DEF GiveUp
  <2>2. ASSUME NEW m \in Messages \cup {None}, Signed(m) PROVE Signed(Dropped(m))
    <3>1. CASE From(m, c)
      <4>1. m \in Messages /\ m.reply # "none"
        BY <2>2, <3>1 DEF From
      <4>2. PICK k \in Calls, d \in Client \cup {NoClient} : m = Message(k, d)
        BY <4>1 DEF Messages
      <4>3. [m EXCEPT !.client = NoClient].reply = m.reply
        BY <4>2 DEF Message
      <4> QED  BY <3>1, <4>1, <4>3 DEF Signed
    <3> QED  BY <2>2, <3>1
  <2>3. current[a] \in Messages \cup {None} /\ \A i \in DOMAIN mailbox[a] : mailbox[a][i] \in Messages
    BY <1>1, <1>2 DEF ProtocolType
  <2> HIDE DEF Dropped
  <2> QED  BY <1>2, <2>1, <2>2, <2>3
<1>6. ASSUME NEW b \in Actors, Receive(b)
      PROVE  Signed(current'[a]) /\ \A i \in DOMAIN mailbox'[a] : Signed(mailbox'[a][i])
  <2>1. CASE a = b
    <3>1. current'[a] = Head(mailbox[a]) /\ mailbox'[a] = Tail(mailbox[a]) /\ mailbox[a] # <<>>
      BY <1>1, <1>6, <2>1 DEF Receive, ProtocolType
    <3>2. Head(mailbox[a]) = mailbox[a][1] /\ 1 \in DOMAIN mailbox[a]
      BY <1>2, <3>1
    <3>3. \A i \in DOMAIN Tail(mailbox[a]) : i + 1 \in DOMAIN mailbox[a] /\ Tail(mailbox[a])[i] = mailbox[a][i + 1]
      BY <1>2, <3>1
    <3> QED  BY <1>2, <3>1, <3>2, <3>3
  <2>2. CASE a # b
    BY <1>1, <1>2, <1>6, <2>2 DEF Receive, ProtocolType
  <2> QED  BY <2>1, <2>2
<1>7. ASSUME NEW b \in Actors, Serves(b)
      PROVE  Signed(current'[a]) /\ \A i \in DOMAIN mailbox'[a] : Signed(mailbox'[a][i])
  <2>1. current'[a] \in {current[a], None} /\ mailbox'[a] \in {mailbox[a], <<>>}
    BY <1>1, <1>7 DEF Serves, Reply, Panic, ProtocolType
  <2> QED  BY <1>2, <1>3, <2>1
<1>8. CASE UNCHANGED <<current, mailbox>>
  BY <1>2, <1>8
<1> QED
  BY <1>4, <1>5, <1>6, <1>7, <1>8 DEF ProtocolStep, CallFails, Close, Ends, actorVars

-----------------------------------------------------------------------------
(***************************************************************************)
(* The calls of one client that an actor has not served yet, in the order  *)
(* in which it will: the one in process(), those in the mailbox, with the  *)
(* calls of others among them, and those still to be made.                 *)
(***************************************************************************)

\* What a call asks for.
Label(m) == <<m.to, m.op, m.arg>>

\* The places of the calls with a label of K, where `now` is in process(), `sent` in
\* the mailbox and `left` still to be made.
Row(now, sent, left, K) ==
  {i \in Nat : \/ i = 0 /\ now # None /\ Label(now) \in K
               \/ i \in DOMAIN sent /\ Label(sent[i]) \in K
               \/ \E j \in DOMAIN left : i = Len(sent) + j /\ Label(left[j]) \in K}

\* Before each place of B there is one of C, after the last one of B; before the first
\* one of B only if `live`.
Fit(B, C, live) ==
  \A x \in B : /\ live => \E y \in C : y < x
               /\ \A w \in B : w < x => \E y \in C : w < y /\ y < x

\* Places D and E move to B and C, in their order, and no place of C is skipped.
Moves(f, B, C, D, E) ==
  /\ \A x \in D : f[x] \in B
  /\ \A w, x \in D : w < x => f[w] < f[x]
  /\ \A i, j \in Nat : i <= j => f[i] <= f[j]
  /\ \A x \in D : \A y \in C : y < f[x] => \E z \in E : f[z] = y

\* Places may move like that.
LEMMA FitMoves ==
  ASSUME NEW B \in SUBSET Nat, NEW C \in SUBSET Nat, NEW D \in SUBSET Nat, NEW E \in SUBSET Nat,
         NEW live, Fit(B, C, live), NEW f \in [Nat -> Nat], Moves(f, B, C, D, E)
  PROVE  Fit(D, E, live)
<1>0. /\ \A x \in D : f[x] \in B
      /\ \A w, x \in D : w < x => f[w] < f[x]
      /\ \A i, j \in Nat : i <= j => f[i] <= f[j]
      /\ \A x \in D : \A y \in C : y < f[x] => \E z \in E : f[z] = y
  BY DEF Moves
<1> SUFFICES ASSUME NEW x \in D
             PROVE  /\ live => \E z \in E : z < x
                    /\ \A w \in D : w < x => \E z \in E : w < z /\ z < x
  BY DEF Fit
<1>1. \A i, j \in Nat : f[i] < f[j] => i < j
  <2> SUFFICES ASSUME NEW i \in Nat, NEW j \in Nat, f[i] < f[j], ~ (i < j)
               PROVE  FALSE
    OBVIOUS
  <2>1. j <= i /\ f[j] \in Nat /\ f[i] \in Nat
    OBVIOUS
  <2>2. f[j] <= f[i]
    BY <1>0, <2>1
  <2> QED  BY <2>1, <2>2
<1>2. ASSUME live PROVE \E z \in E : z < x
  <2>1. PICK y \in C : y < f[x]
    <3>1. f[x] \in B
      BY <1>0
    <3> QED  BY <1>2, <3>1 DEF Fit
  <2>2. PICK z \in E : f[z] = y
    BY <1>0, <2>1
  <2>3. z \in Nat /\ x \in Nat
    OBVIOUS
  <2> QED  BY <1>1, <2>1, <2>2, <2>3
<1>3. ASSUME NEW w \in D, w < x PROVE \E z \in E : w < z /\ z < x
  <2>1. f[w] \in B /\ f[x] \in B /\ f[w] < f[x]
    BY <1>0, <1>3
  <2>2. PICK y \in C : f[w] < y /\ y < f[x]
    BY <2>1 DEF Fit
  <2>3. PICK z \in E : f[z] = y
    BY <1>0, <2>2
  <2>4. z \in Nat /\ x \in Nat /\ w \in Nat
    OBVIOUS
  <2> QED  BY <1>1, <2>2, <2>3, <2>4
<1> QED  BY <1>2, <1>3

\* The first place is served: what it was for is done.
LEMMA FitServed ==
  ASSUME NEW B \in SUBSET Nat, NEW C \in SUBSET Nat, NEW D \in SUBSET Nat, NEW E \in SUBSET Nat,
         NEW live, NEW after, Fit(B, C, live),
         \A x \in D : x \in B /\ x # 0,
         \A x \in D : \A y \in C : y < x /\ y # 0 => y \in E,
         after => 0 \in B \/ (live /\ 0 \notin C)
  PROVE  Fit(D, E, after)
<1> SUFFICES ASSUME NEW x \in D
             PROVE  /\ after => \E z \in E : z < x
                    /\ \A w \in D : w < x => \E z \in E : w < z /\ z < x
  BY DEF Fit
<1>1. x \in B /\ x \in Nat /\ 0 < x
  OBVIOUS
<1>2. ASSUME after PROVE \E z \in E : z < x
  <2>1. CASE 0 \in B
    <3>1. PICK y \in C : 0 < y /\ y < x
      BY <1>1, <2>1 DEF Fit
    <3>2. y # 0
      BY <3>1
    <3> QED  BY <3>1, <3>2
  <2>2. CASE live /\ 0 \notin C
    <3>1. PICK y \in C : y < x
      BY <1>1, <2>2 DEF Fit
    <3>2. y # 0
      BY <2>2
    <3> QED  BY <3>1, <3>2
  <2> QED  BY <1>2, <2>1, <2>2
<1>3. ASSUME NEW w \in D, w < x PROVE \E z \in E : w < z /\ z < x
  <2>1. PICK y \in C : w < y /\ y < x
    BY <1>1, <1>3 DEF Fit
  <2>2. y # 0
    BY <2>1
  <2> QED  BY <2>1, <2>2
<1> QED  BY <1>2, <1>3

\* The places in a row, one by one.
LEMMA RowPlaces ==
  ASSUME NEW now, NEW sent \in Seq(Messages), NEW left \in Seq(Calls), NEW K,
         NEW n, n = Len(sent)
  PROVE  /\ Row(now, sent, left, K) \in SUBSET Nat
         /\ n \in Nat
         /\ 0 \in Row(now, sent, left, K) <=> now # None /\ Label(now) \in K
         /\ \A i \in 1 .. n : i \in Row(now, sent, left, K) <=> Label(sent[i]) \in K
         /\ \A i \in Nat : i > n =>
              (i \in Row(now, sent, left, K) <=> i - n \in 1 .. Len(left) /\ Label(left[i - n]) \in K)
<1>1. /\ n \in Nat /\ DOMAIN sent = 1 .. n
      /\ Len(left) \in Nat /\ DOMAIN left = 1 .. Len(left)
  OBVIOUS
<1>2. Row(now, sent, left, K) \in SUBSET Nat
  BY DEF Row
<1>3. \A j \in DOMAIN left : n + j > n /\ n + j # 0
  BY <1>1
<1>4. 0 \in Row(now, sent, left, K) <=> now # None /\ Label(now) \in K
  BY <1>1, <1>3 DEF Row
<1>5. ASSUME NEW i \in 1 .. n
      PROVE  i \in Row(now, sent, left, K) <=> Label(sent[i]) \in K
  <2>1. i \in Nat /\ i # 0 /\ i \in DOMAIN sent /\ \A j \in DOMAIN left : i # n + j
    BY <1>1
  <2> QED  BY <2>1 DEF Row
<1>6. ASSUME NEW i \in Nat, i > n
      PROVE  i \in Row(now, sent, left, K) <=> i - n \in 1 .. Len(left) /\ Label(left[i - n]) \in K
  <2>1. i # 0 /\ i \notin DOMAIN sent
    BY <1>1, <1>6
  <2>2. \A j \in DOMAIN left : i = n + j <=> j = i - n
    BY <1>1, <1>6
  <2>3. i \in Row(now, sent, left, K) <=> \E j \in DOMAIN left : j = i - n /\ Label(left[j]) \in K
    BY <2>1, <2>2 DEF Row
  <2> QED  BY <1>1, <2>3
<1> QED  BY <1>1, <1>2, <1>4, <1>5, <1>6

\* What is in process() comes first.
LEMMA RowFirst ==
  ASSUME NEW now, NEW sent, NEW left, NEW K, Len(sent) \in Nat, DOMAIN sent = 1 .. Len(sent)
  PROVE  /\ 0 \in Row(now, sent, left, K) => now # None /\ Label(now) \in K
         /\ now # None /\ Label(now) \in K => 0 \in Row(now, sent, left, K)
BY DEF Row

\* A call that is made keeps its place, if it is to this actor.
LEMMA RowSends ==
  ASSUME NEW now, NEW sent \in Seq(Messages), NEW left \in Seq(Calls), NEW K,
         left # <<>>, NEW m \in Messages, Label(m) = Label(Head(left))
  PROVE  Row(now, Append(sent, m), Tail(left), K) = Row(now, sent, left, K)
<1> PICK n : n = Len(sent)
  OBVIOUS
<1>0. Row(now, sent, left, K) \in SUBSET Nat /\ Row(now, Append(sent, m), Tail(left), K) \in SUBSET Nat
  BY DEF Row
<1> DEFINE S == Row(now, sent, left, K)
<1>3. /\ n \in Nat
      /\ 0 \in S <=> now # None /\ Label(now) \in K
      /\ \A i \in 1 .. n : i \in S <=> Label(sent[i]) \in K
      /\ \A i \in Nat : i > n => (i \in S <=> i - n \in 1 .. Len(left) /\ Label(left[i - n]) \in K)
  <2> HIDE DEF S
  <2>1. sent \in Seq(Messages) /\ left \in Seq(Calls) /\ n = Len(sent)
    OBVIOUS
  <2> QED  BY <2>1, RowPlaces, Zenon DEF S
<1> DEFINE more == Append(sent, m)
           rest == Tail(left)
<1> PICK k : k = n + 1
  OBVIOUS
<1>1. /\ more \in Seq(Messages) /\ Len(more) = k
      /\ \A i \in 1 .. n : more[i] = sent[i]
      /\ more[k] = m
  BY AppendProperties
<1>2. /\ rest \in Seq(Calls) /\ Len(left) \in Nat \ {0} /\ Len(rest) = Len(left) - 1
      /\ \A i \in 1 .. Len(left) - 1 : rest[i] = left[i + 1]
      /\ Head(left) = left[1]
  OBVIOUS
<1> HIDE DEF more, rest
<1> DEFINE R == Row(now, more, rest, K)
<1>4. /\ k \in Nat
      /\ 0 \in R <=> now # None /\ Label(now) \in K
      /\ \A i \in 1 .. k : i \in R <=> Label(more[i]) \in K
      /\ \A i \in Nat : i > k => (i \in R <=> i - k \in 1 .. Len(rest) /\ Label(rest[i - k]) \in K)
  BY <1>1, <1>2, RowPlaces
<1> HIDE DEF R, S
<1>5. ASSUME NEW i \in 1 .. n PROVE i \in R <=> i \in S
  <2>1. i \in 1 .. k
    BY <1>3
  <2> QED  BY <1>1, <1>3, <1>4, <2>1
<1>6. k \in R <=> k \in S
  <2>1. k \in 1 .. k /\ k \in Nat /\ k > n /\ k - n = 1 /\ 1 \in 1 .. Len(left)
    BY <1>2, <1>3
  <2>2. k \in S <=> Label(left[k - n]) \in K
    BY <1>3, <2>1
  <2>3. k \in R <=> Label(more[k]) \in K
    BY <1>4, <2>1
  <2>4. Label(more[k]) = Label(left[k - n])
    BY <1>1, <1>2, <2>1
  <2> QED  BY <2>2, <2>3, <2>4
<1>7. ASSUME NEW i \in Nat, i > k PROVE i \in R <=> i \in S
  <2>1. i > n /\ (i - k) + 1 = i - n /\ (i - k \in 1 .. Len(rest) <=> i - n \in 1 .. Len(left))
    BY <1>2, <1>3, <1>4, <1>7
  <2>2. i - k \in 1 .. Len(rest) => rest[i - k] = left[i - n]
    BY <1>2, <2>1
  <2> QED  BY <1>3, <1>4, <1>7, <2>1, <2>2
<1>8. \A i \in Nat : i = 0 \/ i \in 1 .. n \/ i = k \/ i > k
  BY <1>3
<1>9. \A i \in Nat : i \in R <=> i \in S
  BY <1>3, <1>4, <1>5, <1>6, <1>7, <1>8
<1> QED  BY <1>0, <1>9 DEF R, S, more, rest

\* A call to another actor leaves the row.
LEMMA RowDrops ==
  ASSUME NEW now, NEW sent \in Seq(Messages), NEW left \in Seq(Calls), NEW K,
         left # <<>>, Label(Head(left)) \notin K, NEW n, n = Len(sent), NEW i \in Nat
  PROVE  i \in Row(now, sent, Tail(left), K) <=>
           (IF i <= n THEN i ELSE i + 1) \in Row(now, sent, left, K)
<1> DEFINE rest == Tail(left)
<1>1. /\ rest \in Seq(Calls) /\ Len(left) \in Nat \ {0} /\ Len(rest) = Len(left) - 1
      /\ \A j \in 1 .. Len(left) - 1 : rest[j] = left[j + 1]
      /\ Head(left) = left[1]
  OBVIOUS
<1> HIDE DEF rest
<1> DEFINE R == Row(now, sent, rest, K)
           S == Row(now, sent, left, K)
<1>2. /\ n \in Nat
      /\ 0 \in S <=> now # None /\ Label(now) \in K
      /\ \A j \in 1 .. n : j \in S <=> Label(sent[j]) \in K
      /\ \A j \in Nat : j > n => (j \in S <=> j - n \in 1 .. Len(left) /\ Label(left[j - n]) \in K)
  BY RowPlaces, Zenon
<1>3. /\ 0 \in R <=> now # None /\ Label(now) \in K
      /\ \A j \in 1 .. n : j \in R <=> Label(sent[j]) \in K
      /\ \A j \in Nat : j > n => (j \in R <=> j - n \in 1 .. Len(rest) /\ Label(rest[j - n]) \in K)
  BY <1>1, RowPlaces, Zenon
<1> HIDE DEF R, S
<1>4. CASE i <= n
  <2>1. i = 0 \/ i \in 1 .. n
    BY <1>2, <1>4
  <2> QED  BY <1>2, <1>3, <1>4, <2>1 DEF R, S, rest
<1>5. CASE ~ (i <= n)
  <2>1. i > n /\ i + 1 > n /\ i + 1 \in Nat /\ (i + 1) - n = (i - n) + 1
        /\ (i - n \in 1 .. Len(rest) <=> (i - n) + 1 \in 1 .. Len(left))
    BY <1>1, <1>2, <1>5
  <2>2. i - n \in 1 .. Len(rest) => rest[i - n] = left[(i - n) + 1]
    BY <1>1
  <2>3. i \in R <=> i + 1 \in S
    BY <1>2, <1>3, <2>1, <2>2
  <2> QED  BY <1>5, <2>3 DEF R, S, rest
<1> QED  BY <1>4, <1>5

\* A call of another client goes behind those that were sent.
LEMMA RowInserts ==
  ASSUME NEW now, NEW sent \in Seq(Messages), NEW left \in Seq(Calls), NEW K,
         NEW m \in Messages, NEW n, n = Len(sent), NEW i \in Nat, i # n + 1
  PROVE  i \in Row(now, Append(sent, m), left, K) <=>
           (IF i <= n THEN i ELSE i - 1) \in Row(now, sent, left, K)
<1> PICK k : k = n + 1
  OBVIOUS
<1> DEFINE more == Append(sent, m)
<1>1. /\ more \in Seq(Messages) /\ Len(more) = k
      /\ \A j \in 1 .. n : more[j] = sent[j]
  BY AppendProperties
<1> HIDE DEF more
<1> DEFINE R == Row(now, more, left, K)
           S == Row(now, sent, left, K)
<1>2. /\ n \in Nat
      /\ 0 \in S <=> now # None /\ Label(now) \in K
      /\ \A j \in 1 .. n : j \in S <=> Label(sent[j]) \in K
      /\ \A j \in Nat : j > n => (j \in S <=> j - n \in 1 .. Len(left) /\ Label(left[j - n]) \in K)
  BY RowPlaces
<1>3. /\ k \in Nat
      /\ 0 \in R <=> now # None /\ Label(now) \in K
      /\ \A j \in 1 .. k : j \in R <=> Label(more[j]) \in K
      /\ \A j \in Nat : j > k => (j \in R <=> j - k \in 1 .. Len(left) /\ Label(left[j - k]) \in K)
  BY <1>1, RowPlaces
<1> HIDE DEF R, S
<1>4. CASE i <= n
  <2>1. i = 0 \/ (i \in 1 .. n /\ i \in 1 .. k)
    BY <1>2, <1>4
  <2> QED  BY <1>1, <1>2, <1>3, <1>4, <2>1 DEF R, S, more
<1>5. CASE ~ (i <= n)
  <2>1. i > k /\ i - 1 \in Nat /\ i - 1 > n /\ (i - 1) - n = i - k
    BY <1>2, <1>5
  <2>2. i \in R <=> i - 1 \in S
    BY <1>2, <1>3, <2>1
  <2> QED  BY <1>5, <2>2 DEF R, S, more
<1> QED  BY <1>4, <1>5

\* All move up when the actor takes a message.
LEMMA RowReceives ==
  ASSUME NEW sent \in Seq(Messages), NEW left \in Seq(Calls), NEW K, sent # <<>>, NEW i \in Nat
  PROVE  i \in Row(Head(sent), Tail(sent), left, K) <=> i + 1 \in Row(None, sent, left, K)
<1> PICK n : n = Len(sent)
  OBVIOUS
<1> PICK k : k = n - 1
  OBVIOUS
<1> DEFINE fewer == Tail(sent)
           m == Head(sent)
<1>1. /\ fewer \in Seq(Messages) /\ n \in Nat \ {0} /\ Len(fewer) = k /\ n = k + 1 /\ k \in Nat
      /\ \A j \in 1 .. k : fewer[j] = sent[j + 1]
      /\ m = sent[1] /\ m \in Messages
  OBVIOUS
<1>2. m # None
  BY <1>1, MessageFields
<1> HIDE DEF fewer, m
<1> DEFINE R == Row(m, fewer, left, K)
           S == Row(None, sent, left, K)
<1>3. /\ \A j \in 1 .. n : j \in S <=> Label(sent[j]) \in K
      /\ \A j \in Nat : j > n => (j \in S <=> j - n \in 1 .. Len(left) /\ Label(left[j - n]) \in K)
  BY <1>1, RowPlaces
<1>4. /\ 0 \in R <=> Label(m) \in K
      /\ \A j \in 1 .. k : j \in R <=> Label(fewer[j]) \in K
      /\ \A j \in Nat : j > k => (j \in R <=> j - k \in 1 .. Len(left) /\ Label(left[j - k]) \in K)
  <2>1. fewer \in Seq(Messages) /\ left \in Seq(Calls) /\ k = Len(fewer)
    BY <1>1
  <2>2. /\ 0 \in R <=> m # None /\ Label(m) \in K
        /\ \A j \in 1 .. k : j \in R <=> Label(fewer[j]) \in K
        /\ \A j \in Nat : j > k => (j \in R <=> j - k \in 1 .. Len(left) /\ Label(left[j - k]) \in K)
    BY <2>1, RowPlaces, Zenon
  <2> QED  BY <1>2, <2>2
<1> HIDE DEF R, S
<1>5. CASE i = 0
  <2>1. i + 1 = 1 /\ 1 \in 1 .. n
    BY <1>1, <1>5
  <2> QED  BY <1>1, <1>3, <1>4, <1>5, <2>1 DEF R, S, fewer, m
<1>6. CASE i \in 1 .. k
  <2>1. i + 1 \in 1 .. n
    BY <1>1, <1>6
  <2> QED  BY <1>1, <1>3, <1>4, <1>6, <2>1 DEF R, S, fewer, m
<1>7. CASE i > k
  <2>1. i + 1 \in Nat /\ i + 1 > n /\ (i + 1) - n = i - k
    BY <1>1, <1>7
  <2> QED  BY <1>3, <1>4, <1>7, <2>1 DEF R, S, fewer, m
<1> QED  BY <1>1, <1>5, <1>6, <1>7

\* What was sent stays where it is when the client goes on with something else.
LEMMA RowCut ==
  ASSUME NEW now, NEW sent \in Seq(Messages), NEW left \in Seq(Calls), NEW K,
         NEW other \in Seq(Calls), NEW n, n = Len(sent), NEW i \in 0 .. n
  PROVE  i \in Row(now, sent, other, K) <=> i \in Row(now, sent, left, K)
<1>1. n \in Nat /\ (i = 0 \/ i \in 1 .. n)
  OBVIOUS
<1> DEFINE R == Row(now, sent, other, K)
           S == Row(now, sent, left, K)
<1>2. /\ 0 \in S <=> now # None /\ Label(now) \in K
      /\ \A j \in 1 .. n : j \in S <=> Label(sent[j]) \in K
  BY RowPlaces
<1>3. /\ 0 \in R <=> now # None /\ Label(now) \in K
      /\ \A j \in 1 .. n : j \in R <=> Label(sent[j]) \in K
  BY RowPlaces
<1> HIDE DEF R, S
<1> QED  BY <1>1, <1>2, <1>3 DEF R, S

\* Beyond what was sent there is nothing of K if the client calls nothing of K.
LEMMA RowEnds ==
  ASSUME NEW now, NEW sent \in Seq(Messages), NEW left \in Seq(Calls), NEW K,
         \A j \in DOMAIN left : Label(left[j]) \notin K, NEW n, n = Len(sent),
         NEW i \in Row(now, sent, left, K)
  PROVE  i \in 0 .. n
<1>1. n \in Nat /\ DOMAIN left = 1 .. Len(left) /\ DOMAIN sent = 1 .. n
  OBVIOUS
<1> QED  BY <1>1 DEF Row

-----------------------------------------------------------------------------
\* None of the moves in a row changes what comes between two calls of K, nor what comes
\* before the first one.
LEMMA FitInserts ==
  ASSUME NEW now, NEW sent \in Seq(Messages), NEW left \in Seq(Calls), NEW K, NEW L, NEW live,
         NEW m \in Messages, Label(m) \notin K,
         Fit(Row(now, sent, left, K), Row(now, sent, left, L), live)
  PROVE  Fit(Row(now, Append(sent, m), left, K), Row(now, Append(sent, m), left, L), live)
<1> PICK n : n = Len(sent)
  OBVIOUS
<1> DEFINE more == Append(sent, m)
           f == [i \in Nat |-> IF i <= n THEN i ELSE i - 1]
           B == Row(now, sent, left, K)
           C == Row(now, sent, left, L)
           D == Row(now, more, left, K)
           E == Row(now, more, left, L)
<1>1. B \in SUBSET Nat /\ C \in SUBSET Nat /\ D \in SUBSET Nat /\ E \in SUBSET Nat /\ n \in Nat
  BY DEF Row
<1>2. n + 1 \notin D
  <2>1. more \in Seq(Messages) /\ Len(more) = n + 1 /\ more[n + 1] = m
    BY AppendProperties
  <2>2. n + 1 \in 1 .. n + 1
    BY <1>1
  <2> HIDE DEF more
  <2>3. n + 1 \in D <=> Label(more[n + 1]) \in K
    <3> PICK k : k = n + 1
      OBVIOUS
    <3>1. \A i \in 1 .. k : i \in D <=> Label(more[i]) \in K
      BY <2>1, RowPlaces
    <3> QED  BY <2>2, <3>1
  <2> QED  BY <2>1, <2>3
<1>3. \A i \in Nat : i # n + 1 => (i \in D <=> f[i] \in B) /\ (i \in E <=> f[i] \in C)
  BY RowInserts
<1> HIDE DEF B, C, D, E
<1>4. f \in [Nat -> Nat] /\ \A i, j \in Nat : i <= j => f[i] <= f[j]
  BY <1>1
<1>5. \A x \in D : f[x] \in B
  BY <1>1, <1>2, <1>3
<1>6. \A w, x \in D : w < x => f[w] < f[x]
  <2> SUFFICES ASSUME NEW w \in D, NEW x \in D, w < x PROVE f[w] < f[x]
    OBVIOUS
  <2>1. w \in Nat /\ x \in Nat /\ w # n + 1 /\ x # n + 1
    BY <1>1, <1>2
  <2> QED  BY <1>1, <2>1
<1>7. ASSUME NEW x \in D, NEW y \in C, y < f[x] PROVE \E z \in E : f[z] = y
  <2>1. y \in Nat
    BY <1>1
  <2>2. PICK z \in Nat : z # n + 1 /\ f[z] = y
    <3>1. CASE y <= n
      <4>1. y # n + 1 /\ f[y] = y
        BY <1>1, <2>1, <3>1
      <4> QED  BY <2>1, <4>1
    <3>2. CASE ~ (y <= n)
      <4>1. y + 1 \in Nat /\ y + 1 # n + 1 /\ f[y + 1] = y
        BY <1>1, <2>1, <3>2
      <4> QED  BY <4>1
    <3> QED  BY <3>1, <3>2
  <2> QED  BY <1>3, <2>2
<1> HIDE DEF f
<1>8. Fit(B, C, live)
  BY DEF B, C
<1>9. Moves(f, B, C, D, E)
  BY <1>4, <1>5, <1>6, <1>7 DEF Moves
<1>10. Fit(D, E, live)
  BY <1>1, <1>4, <1>8, <1>9, FitMoves
<1> QED  BY <1>10 DEF D, E

LEMMA FitDrops ==
  ASSUME NEW now, NEW sent \in Seq(Messages), NEW left \in Seq(Calls), NEW K, NEW L, NEW live,
         left # <<>>, Label(Head(left)) \notin K, Label(Head(left)) \notin L,
         Fit(Row(now, sent, left, K), Row(now, sent, left, L), live)
  PROVE  Fit(Row(now, sent, Tail(left), K), Row(now, sent, Tail(left), L), live)
<1> PICK n : n = Len(sent)
  OBVIOUS
<1> DEFINE rest == Tail(left)
           f == [i \in Nat |-> IF i <= n THEN i ELSE i + 1]
           B == Row(now, sent, left, K)
           C == Row(now, sent, left, L)
           D == Row(now, sent, rest, K)
           E == Row(now, sent, rest, L)
<1>1. B \in SUBSET Nat /\ C \in SUBSET Nat /\ D \in SUBSET Nat /\ E \in SUBSET Nat /\ n \in Nat
  BY DEF Row
<1>2. n + 1 \notin C
  <2>1. n + 1 > n /\ n + 1 \in Nat /\ (n + 1) - n = 1 /\ Head(left) = left[1]
    BY <1>1
  <2>2. n + 1 \in C => Label(left[(n + 1) - n]) \in L
    <3>1. \A i \in Nat : i > n => (i \in C => Label(left[i - n]) \in L)
      BY RowPlaces
    <3> QED  BY <2>1, <3>1
  <2> QED  BY <2>1, <2>2
<1>3. \A i \in Nat : (i \in D <=> f[i] \in B) /\ (i \in E <=> f[i] \in C)
  BY RowDrops
<1> HIDE DEF B, C, D, E
<1>4. f \in [Nat -> Nat] /\ \A i, j \in Nat : (i <= j => f[i] <= f[j]) /\ (i < j => f[i] < f[j])
  BY <1>1
<1>5. (\A x \in D : f[x] \in B) /\ \A w, x \in D : w < x => f[w] < f[x]
  BY <1>1, <1>3, <1>4
<1>6. ASSUME NEW x \in D, NEW y \in C, y < f[x] PROVE \E z \in E : f[z] = y
  <2>1. y \in Nat /\ y # n + 1
    BY <1>1, <1>2
  <2>2. PICK z \in Nat : f[z] = y
    <3>1. CASE y <= n
      <4>1. f[y] = y
        BY <1>1, <2>1, <3>1
      <4> QED  BY <2>1, <4>1
    <3>2. CASE ~ (y <= n)
      <4>1. y - 1 \in Nat /\ f[y - 1] = y
        BY <1>1, <2>1, <3>2
      <4> QED  BY <4>1
    <3> QED  BY <3>1, <3>2
  <2> QED  BY <1>3, <2>2
<1> HIDE DEF f
<1>7. Fit(B, C, live)
  BY DEF B, C
<1>8. Moves(f, B, C, D, E)
  BY <1>4, <1>5, <1>6 DEF Moves
<1>9. Fit(D, E, live)
  BY <1>1, <1>4, <1>7, <1>8, FitMoves
<1> QED  BY <1>9 DEF D, E

LEMMA FitReceives ==
  ASSUME NEW sent \in Seq(Messages), NEW left \in Seq(Calls), NEW K, NEW L, NEW live, sent # <<>>,
         Fit(Row(None, sent, left, K), Row(None, sent, left, L), live)
  PROVE  Fit(Row(Head(sent), Tail(sent), left, K), Row(Head(sent), Tail(sent), left, L), live)
<1> DEFINE f == [i \in Nat |-> i + 1]
           B == Row(None, sent, left, K)
           C == Row(None, sent, left, L)
           D == Row(Head(sent), Tail(sent), left, K)
           E == Row(Head(sent), Tail(sent), left, L)
<1>1. B \in SUBSET Nat /\ C \in SUBSET Nat /\ D \in SUBSET Nat /\ E \in SUBSET Nat
  BY DEF Row
<1>2. 0 \notin C
  BY RowPlaces
<1>3. \A i \in Nat : (i \in D <=> i + 1 \in B) /\ (i \in E <=> i + 1 \in C)
  BY RowReceives
<1>4. Fit(B, C, live)
  OBVIOUS
<1> HIDE DEF B, C, D, E
<1>5. f \in [Nat -> Nat] /\ \A i, j \in Nat : (i <= j => f[i] <= f[j]) /\ (i < j => f[i] < f[j])
  OBVIOUS
<1>6. (\A x \in D : f[x] \in B) /\ \A w, x \in D : w < x => f[w] < f[x]
  <2>1. \A x \in D : x \in Nat /\ f[x] = x + 1
    BY <1>1
  <2>2. \A x \in D : f[x] \in B
    BY <1>3, <2>1
  <2>3. \A w, x \in D : w < x => f[w] < f[x]
    BY <1>5, <2>1
  <2> QED  BY <2>2, <2>3
<1>7. ASSUME NEW x \in D, NEW y \in C, y < f[x] PROVE \E z \in E : f[z] = y
  <2>1. y \in Nat /\ y # 0
    BY <1>1, <1>2
  <2>2. y - 1 \in Nat /\ (y - 1) + 1 = y
    BY <2>1
  <2> QED  BY <1>3, <2>2
<1> HIDE DEF f
<1>8. Moves(f, B, C, D, E)
  BY <1>5, <1>6, <1>7 DEF Moves
<1>9. Fit(D, E, live)
  BY <1>1, <1>4, <1>5, <1>8, FitMoves
<1> QED  BY <1>9 DEF D, E

LEMMA FitCut ==
  ASSUME NEW now, NEW sent \in Seq(Messages), NEW left \in Seq(Calls), NEW other \in Seq(Calls),
         NEW K, NEW L, NEW live, \A j \in DOMAIN other : Label(other[j]) \notin K,
         Fit(Row(now, sent, left, K), Row(now, sent, left, L), live)
  PROVE  Fit(Row(now, sent, other, K), Row(now, sent, other, L), live)
<1> PICK n : n = Len(sent)
  OBVIOUS
<1> DEFINE f == [i \in Nat |-> i]
           B == Row(now, sent, left, K)
           C == Row(now, sent, left, L)
           D == Row(now, sent, other, K)
           E == Row(now, sent, other, L)
<1>1. B \in SUBSET Nat /\ C \in SUBSET Nat /\ D \in SUBSET Nat /\ E \in SUBSET Nat /\ n \in Nat
  BY DEF Row
<1>2. \A i \in 0 .. n : (i \in D <=> i \in B) /\ (i \in E <=> i \in C)
  BY RowCut
<1>3. \A x \in D : x \in 0 .. n
  BY RowEnds
<1>4. Fit(B, C, live)
  OBVIOUS
<1> HIDE DEF B, C, D, E
<1>5. f \in [Nat -> Nat] /\ \A i, j \in Nat : (i <= j => f[i] <= f[j]) /\ (i < j => f[i] < f[j])
  OBVIOUS
<1>6. (\A x \in D : f[x] \in B) /\ \A w, x \in D : w < x => f[w] < f[x]
  BY <1>1, <1>2, <1>3
<1>7. ASSUME NEW x \in D, NEW y \in C, y < f[x] PROVE \E z \in E : f[z] = y
  <2>1. y \in 0 .. n /\ y \in Nat
    BY <1>1, <1>3, <1>7
  <2> QED  BY <1>2, <2>1
<1> HIDE DEF f
<1>8. Moves(f, B, C, D, E)
  BY <1>5, <1>6, <1>7 DEF Moves
<1>9. Fit(D, E, live)
  BY <1>1, <1>4, <1>5, <1>8, FitMoves
<1> QED  BY <1>9 DEF D, E

-----------------------------------------------------------------------------
\* The calls for a in the order in which it serves them, as far as c is concerned.
Line(a, c, K) == Row(current[a], mailbox[a], script[c], K)

\* Only c is still to make calls of K.
Quiet(c, K) == \A d \in Client \ {c} : \A i \in DOMAIN script[d] : Label(script[d][i]) \notin K

\* A message asks for what its call does.
LEMMA MessageLabel ==
  ASSUME NEW m, NEW d
  PROVE  Label(Message(m, d)) = Label(m)
BY DEF Label, Message

\* What is called is a call, and a message of it.
LEMMA MessageOfCall ==
  ASSUME NEW m \in Calls, NEW d \in Client
  PROVE  Message(m, d) \in Messages
BY DEF Messages

\* The scripts of a step (Actor): the rest of one, another one, or none.
LEMMA ScriptSteps ==
  ASSUME ProtocolInv, ProtocolStep, NEW c \in Client
  PROVE  \/ script'[c] = script[c]
         \/ script[c] # <<>> /\ script'[c] = Tail(script[c])
         \/ script'[c] \in {<<>>, Cleanup[c]}
<1>1. script \in [Client -> Seq(Calls)] /\ plan \in [Client -> Seq(Calls)]
  BY DEF ProtocolInv, ProtocolType
<1>2. ASSUME NEW d \in Client, Send(d)
      PROVE  script'[c] = script[c] \/ (script[c] # <<>> /\ script'[c] = Tail(script[c]))
  BY <1>1, <1>2 DEF Send, Calling
<1>3. ASSUME NEW d \in Client, GiveUp(d)
      PROVE  script'[c] = script[c] \/ script'[c] \in {<<>>, Cleanup[c]}
  <2>1. /\ script' = [script EXCEPT ![d] = plan'[d]]
        /\ plan' = [plan EXCEPT ![d] = IF d \in cleaning THEN <<>> ELSE Cleanup[d]]
    BY <1>3 DEF GiveUp
  <2>2. plan'[d] \in {<<>>, Cleanup[d]}
    BY <1>1, <2>1
  <2> QED  BY <1>1, <2>1, <2>2
<1>4. ASSUME NEW d \in Client, CallFails(d) \/ Close(d)
      PROVE  script'[c] = script[c] \/ script'[c] = <<>>
  BY <1>1, <1>4 DEF CallFails, Close
<1>5. ASSUME NEW b \in Actors, Receive(b) \/ Serves(b) \/ Ends(b)
      PROVE  script'[c] = script[c] \/ script'[c] = <<>>
  BY <1>1, <1>5 DEF Receive, Serves, Reply, Panic, Ends, clientVars
<1> QED  BY <1>2, <1>3, <1>4, <1>5 DEF ProtocolStep, actorVars, clientVars

\* Who is not to make calls of K does not come to (Actor::GiveUp).
LEMMA QuietKeeps ==
  ASSUME ProtocolInv, ProtocolStep, NEW c \in Client, NEW K, Quiet(c, K),
         \A d \in Client \ {c} : \A i \in DOMAIN Cleanup[d] : Label(Cleanup[d][i]) \notin K
  PROVE  Quiet(c, K)'
<1> SUFFICES ASSUME NEW d \in Client \ {c}, NEW i \in DOMAIN script'[d]
             PROVE  Label(script'[d][i]) \notin K
  BY DEF Quiet
<1>1. script[d] \in Seq(Calls)
  BY DEF ProtocolInv, ProtocolType
<1>2. CASE script'[d] = script[d]
  BY <1>2 DEF Quiet
<1>3. CASE script[d] # <<>> /\ script'[d] = Tail(script[d])
  <2>1. i + 1 \in DOMAIN script[d] /\ script'[d][i] = script[d][i + 1]
    BY <1>1, <1>3
  <2> QED  BY <2>1 DEF Quiet
<1>4. CASE script'[d] \in {<<>>, Cleanup[d]}
  BY <1>4
<1> QED  BY <1>2, <1>3, <1>4, ScriptSteps

\* A call takes its place in the line, or is for another actor (Actor::Send).
LEMMA LineSends ==
  ASSUME ProtocolInv, NEW d \in Client, Send(d), NEW a \in Actors, NEW c \in Client,
         NEW K, NEW L, NEW live, \A k \in K \cup L : k[1] = a, Quiet(c, K),
         Fit(Line(a, c, K), Line(a, c, L), live)
  PROVE  Fit(Line(a, c, K)', Line(a, c, L)', live)
<1> PICK m : m = Head(script[d])
  OBVIOUS
<1> PICK n : n = Message(m, d)
  OBVIOUS
<1>1. /\ script[d] \in Seq(Calls) /\ script[d] # <<>> /\ script[c] \in Seq(Calls) /\ m \in Calls
      /\ mailbox[a] \in Seq(Messages) /\ mailbox \in [Actors -> Seq(Messages)]
      /\ script \in [Client -> Seq(Calls)]
  BY DEF ProtocolInv, ProtocolType, Send, Calling
<1>2. /\ mailbox' = [mailbox EXCEPT ![m.to] = Append(@, n)] /\ current' = current
      /\ script' = [script EXCEPT ![d] = Tail(@)]
  BY DEF Send
<1>3. n \in Messages /\ Label(n) = Label(m) /\ Label(m)[1] = m.to
  BY <1>1, MessageOfCall, MessageLabel DEF Label
<1>4. CASE d = c /\ m.to = a
  <2>1. mailbox'[a] = Append(mailbox[a], n) /\ script'[c] = Tail(script[c]) /\ current'[a] = current[a]
    BY <1>1, <1>2, <1>4
  <2>2. Line(a, c, K)' = Line(a, c, K) /\ Line(a, c, L)' = Line(a, c, L)
    BY <1>1, <1>3, <1>4, <2>1, RowSends DEF Line
  <2> QED  BY <2>2
<1>5. CASE d = c /\ m.to # a
  <2>1. mailbox'[a] = mailbox[a] /\ script'[c] = Tail(script[c]) /\ current'[a] = current[a]
    BY <1>1, <1>2, <1>5
  <2>2. Label(m) \notin K /\ Label(m) \notin L
    BY <1>3, <1>5
  <2> QED  BY <1>1, <1>5, <2>1, <2>2, FitDrops DEF Line
<1>6. CASE d # c /\ m.to = a
  <2>1. mailbox'[a] = Append(mailbox[a], n) /\ script'[c] = script[c] /\ current'[a] = current[a]
    BY <1>1, <1>2, <1>6
  <2>2. Label(n) \notin K
    <3>1. 1 \in DOMAIN script[d] /\ m = script[d][1]
      BY <1>1
    <3> QED  BY <1>3, <1>6, <3>1 DEF Quiet
  <2> QED  BY <1>1, <1>3, <2>1, <2>2, FitInserts DEF Line
<1>7. CASE d # c /\ m.to # a
  <2>1. mailbox'[a] = mailbox[a] /\ script'[c] = script[c] /\ current'[a] = current[a]
    BY <1>1, <1>2, <1>7
  <2> QED  BY <2>1 DEF Line
<1> QED  BY <1>4, <1>5, <1>6, <1>7

\* A message that loses its client keeps its place; the client goes on with its cleanup
\* (Actor::GiveUp).
LEMMA LineGivesUp ==
  ASSUME ProtocolInv, NEW d \in Client, GiveUp(d), NEW a \in Actors, NEW c \in Client,
         NEW K, NEW L, NEW live, \A i \in DOMAIN Cleanup[c] : Label(Cleanup[c][i]) \notin K,
         Fit(Line(a, c, K), Line(a, c, L), live)
  PROVE  Fit(Line(a, c, K)', Line(a, c, L)', live)
<1> DEFINE Dropped(m) == IF From(m, d) THEN [m EXCEPT !.client = NoClient] ELSE m
<1>1. /\ script[c] \in Seq(Calls) /\ mailbox[a] \in Seq(Messages)
      /\ current[a] \in Messages \cup {None} /\ script \in [Client -> Seq(Calls)]
      /\ plan \in [Client -> Seq(Calls)]
  BY DEF ProtocolInv, ProtocolType
<1>2. /\ current'[a] = Dropped(current[a])
      /\ mailbox'[a] = [i \in DOMAIN mailbox[a] |-> Dropped(mailbox[a][i])]
  BY DEF GiveUp
<1>3. ASSUME NEW m \in Messages
      PROVE  Dropped(m) # None /\ Label(Dropped(m)) = Label(m) /\ Dropped(m) \in Messages
  <2>1. PICK k \in Calls, e \in Client \cup {NoClient} : m = Message(k, e)
    BY DEF Messages
  <2>2. [m EXCEPT !.client = NoClient] = Message(k, NoClient)
    BY <2>1 DEF Message
  <2>3. Label(Message(k, NoClient)) = Label(m)
    BY <2>1, MessageLabel
  <2> QED  BY <2>2, <2>3, MessageFields
<1>4. /\ current'[a] # None <=> current[a] # None
      /\ current[a] # None => Label(current'[a]) = Label(current[a])
  <2>1. CASE current[a] = None
    BY <1>2, <2>1 DEF From
  <2>2. CASE current[a] # None
    BY <1>1, <1>2, <1>3, <2>2
  <2> QED  BY <2>1, <2>2
<1>5. /\ DOMAIN mailbox'[a] = DOMAIN mailbox[a]
      /\ \A i \in DOMAIN mailbox[a] : Label(mailbox'[a][i]) = Label(mailbox[a][i])
  <2>1. \A i \in DOMAIN mailbox[a] : mailbox[a][i] \in Messages /\ mailbox'[a][i] = Dropped(mailbox[a][i])
    BY <1>1, <1>2
  <2> QED  BY <1>2, <1>3, <2>1
<1> HIDE DEF Dropped
<1>6. Len(mailbox'[a]) = Len(mailbox[a]) /\ mailbox'[a] \in Seq(Messages)
  <2>1. mailbox'[a] \in [1 .. Len(mailbox[a]) -> Messages] /\ Len(mailbox[a]) \in Nat
    BY <1>1, <1>2, <1>3
  <2> QED  BY <2>1
<1>7. ASSUME NEW left, NEW J
      PROVE  Row(current'[a], mailbox'[a], left, J) = Row(current[a], mailbox[a], left, J)
  BY <1>4, <1>5, <1>6 DEF Row
<1>8. CASE script'[c] = script[c]
  BY <1>7, <1>8 DEF Line
<1>9. CASE script'[c] # script[c]
  <2>1. /\ script' = [script EXCEPT ![d] = plan'[d]]
        /\ plan' = [plan EXCEPT ![d] = IF d \in cleaning THEN <<>> ELSE Cleanup[d]]
    BY DEF GiveUp
  <2>2. d = c /\ script'[c] \in {<<>>, Cleanup[c]}
    BY <1>1, <1>9, <2>1
  <2>3. script'[c] \in Seq(Calls) /\ \A i \in DOMAIN script'[c] : Label(script'[c][i]) \notin K
    <3>1. <<>> \in Seq(Calls) /\ DOMAIN <<>> = {}
      OBVIOUS
    <3>2. Cleanup[c] \in Seq(Calls)
      BY ActorAssumption
    <3> QED  BY <2>2, <3>1, <3>2
  <2> PICK other : other = script'[c]
    OBVIOUS
  <2>4. Fit(Row(current[a], mailbox[a], other, K), Row(current[a], mailbox[a], other, L), live)
    BY <1>1, <2>3, FitCut DEF Line
  <2> QED  BY <1>7, <2>4 DEF Line
<1> QED  BY <1>8, <1>9

\* A client that has nothing left to call takes no place of a call (Actor::CallFails and
\* others).
LEMMA LineEmpties ==
  ASSUME ProtocolInv, NEW a \in Actors, NEW c \in Client, NEW K, NEW L, NEW live,
         Fit(Line(a, c, K), Line(a, c, L), live)
  PROVE  Fit(Row(current[a], mailbox[a], <<>>, K), Row(current[a], mailbox[a], <<>>, L), live)
<1>1. script[c] \in Seq(Calls) /\ mailbox[a] \in Seq(Messages)
  BY DEF ProtocolInv, ProtocolType
<1> PICK e : e = <<>>
  OBVIOUS
<1>2. e \in Seq(Calls) /\ DOMAIN e = {}
  OBVIOUS
<1>3. Fit(Row(current[a], mailbox[a], e, K), Row(current[a], mailbox[a], e, L), live)
  BY <1>1, <1>2, FitCut DEF Line
<1> QED  BY <1>3

\* As long as a serves nothing, what comes before the calls of K stays (Actor).
LEMMA LineKeeps ==
  ASSUME ProtocolInv, ProtocolStep, NEW a \in Actors, NEW c \in Client,
         NEW K, NEW L, NEW live, \A k \in K \cup L : k[1] = a, Quiet(c, K),
         \A i \in DOMAIN Cleanup[c] : Label(Cleanup[c][i]) \notin K,
         ~ Serves(a), Fit(Line(a, c, K), Line(a, c, L), live)
  PROVE  Fit(Line(a, c, K)', Line(a, c, L)', live)
<1>1. /\ script[c] \in Seq(Calls) /\ mailbox[a] \in Seq(Messages) /\ script \in [Client -> Seq(Calls)]
      /\ mailbox \in [Actors -> Seq(Messages)] /\ current \in [Actors -> Messages \cup {None}]
  BY DEF ProtocolInv, ProtocolType
<1>2. ASSUME current'[a] = current[a], mailbox'[a] = mailbox[a], script'[c] = script[c] \/ script'[c] = <<>>
      PROVE  Fit(Line(a, c, K)', Line(a, c, L)', live)
  BY <1>2, LineEmpties DEF Line
<1>3. ASSUME NEW d \in Client, CallFails(d) \/ Close(d)
      PROVE  Fit(Line(a, c, K)', Line(a, c, L)', live)
  BY <1>1, <1>2, <1>3 DEF CallFails, Close
<1>4. ASSUME NEW b \in Actors, Receive(b)
      PROVE  Fit(Line(a, c, K)', Line(a, c, L)', live)
  <2>1. CASE b # a
    BY <1>1, <1>2, <1>4, <2>1 DEF Receive, clientVars
  <2>2. CASE b = a
    <3>1. /\ mailbox[a] # <<>> /\ current[a] = None /\ script'[c] = script[c]
          /\ current'[a] = Head(mailbox[a]) /\ mailbox'[a] = Tail(mailbox[a])
      BY <1>1, <1>4, <2>2 DEF Receive, clientVars
    <3> QED  BY <1>1, <3>1, FitReceives DEF Line
  <2> QED  BY <2>1, <2>2
<1>5. ASSUME NEW b \in Actors, Serves(b) \/ Ends(b)
      PROVE  Fit(Line(a, c, K)', Line(a, c, L)', live)
  <2>1. CASE Ends(b)
    BY <1>1, <1>2, <2>1 DEF Ends, clientVars
  <2>2. CASE Serves(b)
    <3>1. b # a
      BY <2>2
    <3> QED  BY <1>1, <1>2, <2>2, <3>1 DEF Serves, Reply, Panic, clientVars
  <2> QED  BY <1>5, <2>1, <2>2
<1>6. CASE UNCHANGED actorVars
  BY <1>2, <1>6 DEF actorVars, clientVars
<1>7. ASSUME NEW d \in Client, Send(d) \/ GiveUp(d)
      PROVE  Fit(Line(a, c, K)', Line(a, c, L)', live)
  BY <1>7, LineSends, LineGivesUp
<1> QED  BY <1>3, <1>4, <1>5, <1>6, <1>7 DEF ProtocolStep

\* What a has served makes a difference to what comes next (Actor::Reply).
LEMMA LineServed ==
  ASSUME ProtocolInv, NEW a \in Actors, NEW c \in Client, NEW result, Reply(a, result),
         NEW K, NEW L, NEW live, NEW after, current[a] # None,
         Fit(Line(a, c, K), Line(a, c, L), live),
         after => Label(current[a]) \in K \/ (live /\ Label(current[a]) \notin L)
  PROVE  Fit(Line(a, c, K)', Line(a, c, L)', after)
<1>1. /\ script[c] \in Seq(Calls) /\ mailbox[a] \in Seq(Messages) /\ script \in [Client -> Seq(Calls)]
      /\ mailbox \in [Actors -> Seq(Messages)] /\ current \in [Actors -> Messages \cup {None}]
  BY DEF ProtocolInv, ProtocolType
<1>2. /\ current'[a] = None /\ mailbox'[a] = mailbox[a]
      /\ script'[c] = script[c] \/ script'[c] = <<>>
  BY <1>1 DEF Reply, clientVars
<1> PICK left : left = script'[c]
  OBVIOUS
<1>3. left \in Seq(Calls)
  <2>1. <<>> \in Seq(Calls)
    OBVIOUS
  <2> QED  BY <1>1, <1>2, <2>1
<1> DEFINE B == Row(current[a], mailbox[a], left, K)
           C == Row(current[a], mailbox[a], left, L)
           D == Row(None, mailbox[a], left, K)
           E == Row(None, mailbox[a], left, L)
<1>4. Fit(B, C, live)
  BY <1>2, LineEmpties DEF Line
<1>5. B \in SUBSET Nat /\ C \in SUBSET Nat /\ D \in SUBSET Nat /\ E \in SUBSET Nat
  BY DEF Row
<1>6. (0 \in B <=> Label(current[a]) \in K) /\ (0 \in C <=> Label(current[a]) \in L)
  BY <1>1, <1>3, RowFirst
<1>7. (\A x \in D : x \in B /\ x # 0) /\ (\A y \in C : y # 0 => y \in E)
  <2>1. 0 \notin D
    BY <1>1, <1>3, RowFirst
  <2> QED  BY <2>1 DEF Row
<1> HIDE DEF B, C, D, E
<1>8. Fit(D, E, after)
  BY <1>4, <1>5, <1>6, <1>7, FitServed
<1> QED  BY <1>2, <1>8 DEF D, E, Line
=============================================================================
