---------------------------- MODULE Bridge_proofs ----------------------------
(***************************************************************************)
(* Proofs about Bridge, for any sockets and credentials, any number of     *)
(* clients and requests, and any number of bridges that cannot listen.     *)
(***************************************************************************)
EXTENDS Bridge, FiniteSetTheorems, SequenceTheorems, TLAPS

\* Writing one more answer to a request keeps the answers well typed.
LEMMA ReplyType ==
  ASSUME answers \in [Id -> Seq(Answer)], NEW r \in Id, NEW a \in Answer, Reply(r, a)
  PROVE  answers' \in [Id -> Seq(Answer)]
  <1>1. Append(answers[r], a) \in Seq(Answer)
    OBVIOUS
  <1>2. answers' = [answers EXCEPT ![r] = Append(answers[r], a)]
    BY DEF Reply
  <1>3. QED
    BY <1>1, <1>2

\* What the coordinators' connections may grow to.
LEMMA Bounded ==
  ASSUME IInv
  PROVE  /\ Disconnected \in Nat /\ Disconnected <= failures
         /\ failures \in 0..MaxFailures
  <1>1. listeners \in Nat /\ failures \in 0..MaxFailures /\ bridge \in BOOLEAN
    BY BridgeAssumption DEF IInv, TypeOK
  <1>2. listeners <= failures + IF bridge THEN 1 ELSE 0
    BY DEF IInv, ConnectionsAreRequests
  <1>3. QED
    BY <1>1, <1>2, BridgeAssumption DEF Disconnected

\* Whenever the server is replaced, no connection and no request is left.
LEMMA ReplaceSafe ==
  ASSUME IInv, NEW listening \in BOOLEAN, NEW n \in Nat, Replace(listening, n),
         n <= MaxFailures + 1, n <= failures' + IF listening THEN 1 ELSE 0,
         failures' \in 0..MaxFailures, unlocked' \in BOOLEAN, enabled' \in BOOLEAN,
         listening => unlocked' /\ enabled',
         questions' \in Seq(Question \union {LockQuestion}),
         UNCHANGED <<offer, posted, requests, chronicle, crashed>>
  PROVE  IInv'
  <1> USE BridgeAssumption
  <1>1. /\ bridge' = listening /\ listeners' = n
        /\ lockGeneration' = IF listening THEN 1 ELSE 0
        /\ clients' = [s \in Socket |-> NoClient]
        /\ unread' = {} /\ activeClients' = 0
        /\ pending' = NoRequests /\ answers' = Cancelled
    BY DEF Replace
  <1>2. TypeOK'
    <2>1. NoRequests \in [Action -> [Socket -> Pending]]
      BY DEF NoRequests, Pending
    <2>2. \A r \in Id : Append(answers[r], "cancelled") \in Seq(Answer)
      BY DEF IInv, TypeOK, Answer
    <2>3. Cancelled \in [Id -> Seq(Answer)]
      BY <2>2 DEF Cancelled, IInv, TypeOK
    <2>4. bridge' \in BOOLEAN /\ lockGeneration' \in 0..1 /\ listeners' \in 0..(MaxFailures + 1)
          /\ clients' \in [Socket -> Id \union {NoClient}] /\ activeClients' \in 0..kMaxClients
      BY <1>1
    <2>5. QED
      BY <1>1, <2>1, <2>3, <2>4 DEF IInv, TypeOK
  <1>3. BridgeFollowsSession' /\ PendingIsConnected'
    BY <1>1 DEF BridgeFollowsSession, PendingIsConnected, NoRequests
  <1>4. ConnectionsAreRequests'
    <2>1. Len(requests) \in Nat
      BY DEF IInv, TypeOK
    <2>2. \A s \in Socket : clients'[s] <= Len(requests')
      BY <1>1, <2>1 DEF NoClient
    <2>3. CASE listening = TRUE
      BY <1>1, <2>2, <2>3 DEF ConnectionsAreRequests
    <2>4. CASE listening = FALSE
      BY <1>1, <2>2, <2>4 DEF ConnectionsAreRequests
    <2>5. QED
      BY <2>3, <2>4
  <1>5. QED
    BY <1>2, <1>3, <1>4 DEF IInv

\* Stopping the bridge.
LEMMA StopSafe ==
  ASSUME IInv, stopBridge, unlocked' \in BOOLEAN, enabled' \in BOOLEAN,
         questions' \in Seq(Question \union {LockQuestion}),
         UNCHANGED <<offer, posted, requests, chronicle, crashed>>
  PROVE  IInv'
  <1>1. Replace(FALSE, Disconnected) /\ failures' = failures
    BY DEF stopBridge
  <1>2. Disconnected \in Nat /\ Disconnected <= MaxFailures + 1
        /\ Disconnected <= failures' + (IF FALSE THEN 1 ELSE 0) /\ failures' \in 0..MaxFailures
    BY <1>1, Bounded, BridgeAssumption
  <1>3. QED
    BY <1>1, <1>2, ReplaceSafe

\* Starting the bridge, or failing to.
LEMMA StartSafe ==
  ASSUME IInv, startBridge, unlocked' \in BOOLEAN, enabled' \in BOOLEAN,
         UNCHANGED <<offer, posted, questions, requests, chronicle, crashed>>
  PROVE  IInv'
  <1> USE BridgeAssumption
  <1>1. questions' \in Seq(Question \union {LockQuestion})
    BY DEF IInv, TypeOK
  <1>2. CASE Replace(TRUE, Disconnected + 1) /\ failures' = failures /\ enabled' /\ unlocked'
    <2>1. Disconnected + 1 \in Nat /\ Disconnected + 1 <= MaxFailures + 1
          /\ Disconnected + 1 <= failures' + (IF TRUE THEN 1 ELSE 0) /\ failures' \in 0..MaxFailures
      BY <1>2, Bounded
    <2>2. QED
      BY <1>1, <1>2, <2>1, ReplaceSafe
  <1>3. CASE /\ Replace(FALSE, Disconnected + 1)
             /\ failures < MaxFailures /\ failures' = failures + 1
    <2>1. Disconnected + 1 \in Nat /\ Disconnected + 1 <= MaxFailures + 1
          /\ Disconnected + 1 <= failures' + (IF FALSE THEN 1 ELSE 0) /\ failures' \in 0..MaxFailures
      BY <1>3, Bounded
    <2>2. QED
      BY <1>1, <1>3, <2>1, ReplaceSafe
  <1>4. CASE stopBridge
    BY <1>1, <1>4, StopSafe
  <1>5. QED
    BY <1>2, <1>3, <1>4 DEF startBridge

\* Locking, whatever happens to the questions.
LEMMA LockSafe ==
  ASSUME IInv, LockNow, questions' \in Seq(Question \union {LockQuestion}),
         UNCHANGED <<enabled, offer, posted, requests, chronicle, crashed>>
  PROVE  IInv'
  <1>1. unlocked' \in BOOLEAN /\ enabled' \in BOOLEAN /\ stopBridge
    BY DEF LockNow, IInv, TypeOK
  <1>2. QED
    BY <1>1, StopSafe

\* Steps that leave the server and its connections alone.
LEMMA UserSafe ==
  ASSUME IInv, UNCHANGED <<bridgeVars, unlocked, enabled, requests, answers, failures>>,
         offer' \in [Credential -> Offer], posted' \in Seq(Question),
         questions' \in Seq(Question \union {LockQuestion}),
         chronicle' \subseteq {"clipped", "approved", "denied"} \X Id,
         crashed' \in BOOLEAN
  PROVE  IInv'
  <1>1. TypeOK'
    BY DEF IInv, TypeOK, bridgeVars
  <1>2. QED
    BY <1>1 DEF IInv, BridgeFollowsSession, PendingIsConnected, ConnectionsAreRequests, bridgeVars

\* Deciding about an address takes what is pending there and answers it.
LEMMA CompleteSafe ==
  ASSUME IInv, NEW a \in Action, NEW s \in Socket, NEW yes \in BOOLEAN, complete(a, s, yes)
  PROVE  /\ pending' \in [Action -> [Socket -> Pending]]
         /\ \A b \in Action, t \in Socket : pending'[b][t] \in {pending[b][t], NoPending}
         /\ answers' \in [Id -> Seq(Answer)]
  <1> DEFINE p == pending[a][s]
  <1>1. CASE p = NoPending
    BY <1>1 DEF complete, IInv, TypeOK
  <1>2. CASE p # NoPending
    <2>1. PICK answr \in Outcome(a, p, yes) : Reply(p.request, answr)
      BY <1>2 DEF complete
    <2>2. answr \in Answer
      BY <2>1 DEF Outcome, Answer, Secret
    <2>3. p \in Pending /\ p.request \in Id
      BY <1>2 DEF IInv, TypeOK, Pending
    <2>4. answers' \in [Id -> Seq(Answer)]
      BY <2>1, <2>2, <2>3, ReplyType DEF IInv, TypeOK
    <2>5. NoPending \in Pending
      BY DEF NoPending, Pending
    <2>6. pending' = [pending EXCEPT ![a][s] = NoPending]
      BY <1>2 DEF complete
    <2>7. QED
      BY <2>4, <2>5, <2>6 DEF IInv, TypeOK
  <1>3. QED
    BY <1>1, <1>2

\* A decision changes nothing else about the connections.
LEMMA DecisionSafe ==
  ASSUME IInv, NEW a \in Action, NEW s \in Socket, NEW yes \in BOOLEAN, complete(a, s, yes),
         UNCHANGED <<bridge, lockGeneration, listeners, clients, unread, activeClients, userVars,
                     requests, failures>>,
         posted' \in Seq(Question),
         questions' \in Seq(Question \union {LockQuestion}),
         chronicle' \subseteq {"clipped", "approved", "denied"} \X Id,
         crashed' \in BOOLEAN
  PROVE  IInv'
  <1>1. /\ pending' \in [Action -> [Socket -> Pending]]
        /\ \A b \in Action, t \in Socket : pending'[b][t] \in {pending[b][t], NoPending}
        /\ answers' \in [Id -> Seq(Answer)]
    BY CompleteSafe
  <1>2. TypeOK'
    BY <1>1 DEF IInv, TypeOK, userVars
  <1>3. BridgeFollowsSession' /\ ConnectionsAreRequests'
    BY DEF IInv, BridgeFollowsSession, ConnectionsAreRequests, userVars
  <1>4. PendingIsConnected'
    BY <1>1 DEF IInv, PendingIsConnected
  <1>5. QED
    BY <1>2, <1>3, <1>4 DEF IInv

\* A new connection gets the number of its request, and is not pending yet.
LEMMA ConnectSafe ==
  ASSUME IInv, NEW a \in Action, NEW c \in Credential, NEW s \in Socket, onNewConnection(a, c, s)
  PROVE  IInv'
  <1> DEFINE r == Len(requests) + 1
  <1> USE BridgeAssumption
  <1>1. r \in Id /\ Len(requests) \in Nat
    BY DEF IInv, TypeOK, onNewConnection, Id
  <1>2. /\ requests' = Append(requests, [action |-> a, cred |-> c])
        /\ requests' \in Seq([action: Action, cred: Credential])
        /\ Len(requests') = r
    BY DEF IInv, TypeOK, onNewConnection
  <1>3. CASE /\ activeClients >= kMaxClients
             /\ Reply(r, "error") /\ UNCHANGED <<clients, unread, activeClients>>
    <2>1. answers' \in [Id -> Seq(Answer)]
      BY <1>1, <1>3, ReplyType DEF IInv, TypeOK, Answer
    <2>2. TypeOK'
      BY <1>2, <1>3, <2>1 DEF IInv, TypeOK, onNewConnection, userVars
    <2>3. BridgeFollowsSession' /\ PendingIsConnected'
      BY <1>3 DEF IInv, onNewConnection, userVars, BridgeFollowsSession, PendingIsConnected
    <2>4. ASSUME NEW t \in Socket PROVE clients'[t] <= Len(requests')
      <3>1. clients'[t] \in Nat /\ clients'[t] <= Len(requests)
        BY <1>3 DEF IInv, TypeOK, ConnectionsAreRequests, Id, NoClient
      <3>2. QED
        BY <1>1, <1>2, <3>1
    <2>5. ConnectionsAreRequests'
      BY <1>3, <2>4 DEF IInv, onNewConnection, ConnectionsAreRequests
    <2>6. QED
      BY <2>2, <2>3, <2>5 DEF IInv
  <1>4. CASE /\ activeClients < kMaxClients
             /\ clients' = [clients EXCEPT ![s] = r]
             /\ unread' = unread \union {s}
             /\ activeClients' = activeClients + 1
             /\ UNCHANGED answers
    <2>1. activeClients' \in 0..kMaxClients
      BY <1>4 DEF IInv, TypeOK
    <2>2. TypeOK'
      <3>1. clients' \in [Socket -> Id \union {NoClient}] /\ unread' \subseteq Socket
        BY <1>1, <1>4 DEF IInv, TypeOK
      <3>2. QED
        BY <1>2, <1>4, <2>1, <3>1 DEF IInv, TypeOK, onNewConnection, userVars
    <2>3. \A b \in Action : pending[b][s] = NoPending
      BY DEF IInv, TypeOK, onNewConnection, PendingIsConnected, Pending, Id, NoClient
    <2>4. BridgeFollowsSession' /\ PendingIsConnected'
      BY <1>4, <2>3 DEF IInv, TypeOK, onNewConnection, userVars, BridgeFollowsSession, PendingIsConnected
    <2>5. \A t \in Socket : clients'[t] <= Len(requests')
      BY <1>1, <1>2, <1>4 DEF IInv, TypeOK, ConnectionsAreRequests, Id, NoClient
    <2>6. \A t \in unread' : bridge' /\ clients'[t] # NoClient
      BY <1>1, <1>4 DEF IInv, TypeOK, onNewConnection, ConnectionsAreRequests, Id, NoClient
    <2>7. ConnectionsAreRequests'
      BY <2>5, <2>6 DEF IInv, onNewConnection, ConnectionsAreRequests
    <2>8. QED
      BY <2>2, <2>4, <2>7 DEF IInv
  <1>5. activeClients \in Nat
    BY DEF IInv, TypeOK
  <1>6. QED
    BY <1>3, <1>4, <1>5 DEF onNewConnection

\* A connection takes its pending requests with it.
LEMMA DisconnectSafe ==
  ASSUME IInv, NEW s \in Socket, onClientDisconnected(s)
  PROVE  IInv'
  <1> USE BridgeAssumption
  <1>1. Without(s) \in [Action -> [Socket -> Pending]]
    BY DEF IInv, TypeOK, Without, Pending
  <1>2. activeClients' \in 0..kMaxClients
    BY DEF IInv, TypeOK, onClientDisconnected
  <1>3. clients' = [clients EXCEPT ![s] = NoClient] /\ unread' = unread \ {s} /\ pending' = Without(s)
    BY DEF onClientDisconnected
  <1>4. TypeOK'
    BY <1>1, <1>2, <1>3 DEF IInv, TypeOK, onClientDisconnected, userVars
  <1>5. \A b \in Action, t \in Socket :
          pending'[b][t] = IF t = s THEN NoPending ELSE pending[b][t]
    BY <1>3 DEF IInv, TypeOK, Without
  <1>6. BridgeFollowsSession' /\ PendingIsConnected'
    BY <1>3, <1>5 DEF IInv, TypeOK, onClientDisconnected, userVars, BridgeFollowsSession, PendingIsConnected
  <1>7. Len(requests) \in Nat
    BY DEF IInv, TypeOK
  <1>8. ConnectionsAreRequests'
    BY <1>3, <1>7 DEF IInv, TypeOK, onClientDisconnected, ConnectionsAreRequests, NoClient
  <1>9. QED
    BY <1>4, <1>6, <1>8 DEF IInv

\* A request that was read is refused or pending: nothing else changes.
LEMMA RequestSafe ==
  ASSUME IInv, NEW s \in Socket, handleRequest(s)
  PROVE  IInv'
  <1> DEFINE r == clients[s]
             a == requests[r].action
  <1>1. s \in unread /\ unread' = unread \ {s} /\ bridge /\ lockGeneration = 1
    BY DEF handleRequest, IInv, ConnectionsAreRequests
  <1>2. r \in Id /\ r \in DOMAIN requests
    <2>1. r \in Id /\ r <= Len(requests) /\ Len(requests) \in Nat
      BY <1>1 DEF IInv, TypeOK, ConnectionsAreRequests, NoClient
    <2>2. QED
      BY <2>1 DEF Id, IInv, TypeOK
  <1>3. a \in Action
    <2>1. \A q \in [action: Action, cred: Credential] : q.action \in Action
      OBVIOUS
    <2>2. \A R, q : q \in Seq(R) => \A n \in DOMAIN q : q[n] \in R
      OBVIOUS
    <2>3. requests \in Seq([action: Action, cred: Credential])
      BY DEF IInv, TypeOK
    <2>4. requests[r] \in [action: Action, cred: Credential]
      BY <1>2, <2>2, <2>3, Zenon
    <2>5. QED
      BY <2>1, <2>4, Zenon
  <1>4. CASE Ask(r, s) /\ answers' = answers
    <2>1. [request |-> r, lockGeneration |-> lockGeneration] \in Pending
      BY <1>1, <1>2 DEF Pending
    <2>2. pending' = [pending EXCEPT ![a][s] = [request |-> r, lockGeneration |-> lockGeneration]]
      BY <1>4 DEF Ask
    <2>3. pending' \in [Action -> [Socket -> Pending]]
      BY <1>3, <2>1, <2>2 DEF IInv, TypeOK
    <2>4. posted' \in Seq(Question)
      <3>1. [about |-> a, socket |-> s, request |-> r] \in Question
        BY <1>2, <1>3 DEF Question
      <3>2. listeners \in Nat
        BY DEF IInv, TypeOK
      <3>3. [i \in 1..listeners |-> [about |-> a, socket |-> s, request |-> r]] \in Seq(Question)
        BY <3>1, <3>2
      <3>4. posted' = posted \o [i \in 1..listeners |-> [about |-> a, socket |-> s, request |-> r]]
        BY <1>4 DEF Ask
      <3>5. posted \in Seq(Question)
        BY DEF IInv, TypeOK
      <3>6. \A p, q \in Seq(Question) : p \o q \in Seq(Question)
        OBVIOUS
      <3>7. QED
        BY <3>3, <3>4, <3>5, <3>6
    <2>5. TypeOK'
      BY <1>1, <1>4, <2>3, <2>4 DEF IInv, TypeOK, handleRequest, userVars
    <2>6. PendingIsConnected'
      BY <1>1, <1>3, <2>2 DEF IInv, TypeOK, handleRequest, PendingIsConnected
    <2>7. BridgeFollowsSession' /\ ConnectionsAreRequests'
      BY <1>1 DEF IInv, handleRequest, userVars, BridgeFollowsSession, ConnectionsAreRequests
    <2>8. QED
      BY <2>5, <2>6, <2>7 DEF IInv
  <1>5. CASE Reply(r, "error") /\ UNCHANGED <<pending, posted>>
    <2>1. answers' \in [Id -> Seq(Answer)]
      BY <1>2, <1>5, ReplyType DEF IInv, TypeOK, Answer
    <2>2. TypeOK'
      BY <1>1, <1>5, <2>1 DEF IInv, TypeOK, handleRequest, userVars
    <2>3. BridgeFollowsSession' /\ PendingIsConnected' /\ ConnectionsAreRequests'
      BY <1>1, <1>5 DEF IInv, handleRequest, userVars, BridgeFollowsSession, PendingIsConnected,
                        ConnectionsAreRequests
    <2>4. QED
      BY <2>2, <2>3 DEF IInv
  <1>6. QED
    BY <1>4, <1>5 DEF handleRequest

\* The first timer becomes a question, or is dropped with the server.
LEMMA OpenSafe ==
  ASSUME IInv, openQuestion
  PROVE  IInv'
  <1> DEFINE q == Head(posted)
  <1>1. q \in Question /\ posted' \in Seq(Question)
    BY DEF openQuestion, IInv, TypeOK
  <1>2. CASE bridge /\ unlocked
    <2>1. questions' = Append(questions, q)
      BY <1>2 DEF openQuestion
    <2>2. questions' \in Seq(Question \union {LockQuestion})
      BY <1>1, <2>1 DEF IInv, TypeOK
    <2>3. UNCHANGED <<bridgeVars, unlocked, enabled, requests, answers, failures, offer, chronicle, crashed>>
      BY <1>2 DEF openQuestion, bridgeVars, userVars
    <2>4. QED
      BY <1>1, <2>2, <2>3, UserSafe DEF IInv, TypeOK
  <1>3. CASE ~(bridge /\ unlocked)
    <2>1. ~bridge
      BY <1>3 DEF IInv, BridgeFollowsSession
    <2>2. UNCHANGED <<bridgeVars, unlocked, enabled, requests, answers, failures, offer, chronicle,
                      crashed, questions>>
      BY <1>3, <2>1 DEF openQuestion, bridgeVars, userVars
    <2>3. QED
      BY <1>1, <2>2, UserSafe DEF IInv, TypeOK
  <1>4. QED
    BY <1>2, <1>3

\* An answered question decides, or meets no server.
LEMMA AnswerSafe ==
  ASSUME IInv, NEW yes \in BOOLEAN, answer(yes)
  PROVE  IInv'
  <1> DEFINE q == questions[Len(questions)]
  <1>1. q \in Question
    BY DEF answer, IInv, TypeOK
  <1>2. CASE bridge
    <2>1. questions' = SubSeq(questions, 1, Len(questions) - 1)
      BY <1>2 DEF answer
    <2>2. questions' \in Seq(Question \union {LockQuestion})
      BY <2>1 DEF answer, IInv, TypeOK
    <2>3. Recorded(q, yes) \subseteq {"clipped", "approved", "denied"} \X Id
      BY <1>1 DEF Recorded, Question
    <2>4. chronicle' \subseteq {"clipped", "approved", "denied"} \X Id
      BY <1>2, <2>3 DEF answer, IInv, TypeOK
    <2>5. (yes /\ unlocked) \in BOOLEAN /\ q.about \in Action /\ q.socket \in Socket
      BY <1>1 DEF Question
    <2>6. complete(q.about, q.socket, yes /\ unlocked) /\ UNCHANGED <<posted, crashed>>
      BY <1>2 DEF answer
    <2>7. UNCHANGED <<bridge, lockGeneration, listeners, clients, unread, activeClients, userVars,
                      requests, failures>>
      BY DEF answer
    <2>8. posted' \in Seq(Question) /\ crashed' \in BOOLEAN
      BY <2>6 DEF IInv, TypeOK
    <2>9. QED
      BY <2>2, <2>4, <2>5, <2>6, <2>7, <2>8, DecisionSafe
  <1>3. CASE ~bridge
    <2>1. /\ crashed' = TRUE /\ questions' = <<>> /\ posted' = <<>>
          /\ UNCHANGED <<bridgeVars, unlocked, enabled, requests, answers, failures, offer, chronicle>>
      BY <1>3 DEF answer, bridgeVars, userVars
    <2>2. /\ posted' \in Seq(Question) /\ crashed' \in BOOLEAN
          /\ questions' \in Seq(Question \union {LockQuestion})
      BY <2>1
    <2>3. QED
      BY <2>1, <2>2, UserSafe DEF IInv, TypeOK
  <1>4. QED
    BY <1>2, <1>3

\* The question of a lock that cannot save.
LEMMA AnswerLockSafe ==
  ASSUME IInv, NEW yes \in BOOLEAN, answerLock(yes)
  PROVE  IInv'
  <1>1. questions' \in Seq(Question \union {LockQuestion})
        /\ UNCHANGED <<enabled, offer, posted, requests, chronicle, crashed>>
    BY DEF answerLock, IInv, TypeOK
  <1>2. CASE yes
    BY <1>1, <1>2, LockSafe DEF answerLock
  <1>3. CASE ~yes
    <2>1. UNCHANGED <<bridgeVars, unlocked, answers, failures>>
      BY <1>3 DEF answerLock
    <2>2. QED
      BY <1>1, <2>1, UserSafe DEF IInv, TypeOK
  <1>4. QED
    BY <1>2, <1>3

\* The application starts locked, without a server.
LEMMA InitSafe == Init => IInv
  <1> SUFFICES ASSUME Init PROVE IInv
    OBVIOUS
  <1> USE BridgeAssumption
  <1>1. NoRequests \in [Action -> [Socket -> Pending]]
    BY DEF NoRequests, Pending
  <1>2. posted \in Seq(Question) /\ questions \in Seq(Question \union {LockQuestion})
        /\ requests \in Seq([action: Action, cred: Credential]) /\ answers \in [Id -> Seq(Answer)]
        /\ Len(requests) = 0
    BY DEF Init
  <1>3. offer \in [Credential -> Offer] /\ clients \in [Socket -> Id \union {NoClient}]
    BY DEF Init, Offer
  <1>4. /\ lockGeneration \in 0..1 /\ listeners \in 0..(MaxFailures + 1)
        /\ activeClients \in 0..kMaxClients /\ failures \in 0..MaxFailures
    BY DEF Init
  <1>5. /\ unlocked \in BOOLEAN /\ enabled \in BOOLEAN /\ bridge \in BOOLEAN /\ crashed \in BOOLEAN
        /\ unread \subseteq Socket /\ chronicle \subseteq {"clipped", "approved", "denied"} \X Id
        /\ pending = NoRequests
    BY DEF Init
  <1>6. TypeOK
    BY <1>1, <1>2, <1>3, <1>4, <1>5 DEF TypeOK
  <1>7. BridgeFollowsSession /\ PendingIsConnected /\ ConnectionsAreRequests
    BY <1>2 DEF Init, BridgeFollowsSession, PendingIsConnected, ConnectionsAreRequests, NoRequests, NoClient
  <1>8. QED
    BY <1>6, <1>7 DEF IInv

\* Every step keeps the invariant: one step of the proof for each action.
LEMMA NextSafe == IInv /\ [Next]_vars => IInv'
  <1> SUFFICES ASSUME IInv, [Next]_vars PROVE IInv'
    OBVIOUS
  <1>1. CASE onVaultUnlocked
    <2>1. unlocked' \in BOOLEAN /\ enabled' \in BOOLEAN
      BY <1>1 DEF onVaultUnlocked, IInv, TypeOK
    <2>2. QED
      BY <1>1, <2>1, StartSafe DEF onVaultUnlocked
  <1>2. ASSUME NEW on \in BOOLEAN, browserBridgeChanged(on) PROVE IInv'
    <2>1. unlocked' \in BOOLEAN /\ enabled' \in BOOLEAN
      BY <1>2 DEF browserBridgeChanged, IInv, TypeOK
    <2>2. QED
      BY <1>2, <2>1, StartSafe DEF browserBridgeChanged
  <1>3. CASE onLockVault
    <2>1. UNCHANGED <<enabled, offer, posted, requests, chronicle, crashed>>
      BY <1>3 DEF onLockVault
    <2>2. CASE LockNow /\ UNCHANGED questions
      <3>1. questions' \in Seq(Question \union {LockQuestion})
        BY <2>2 DEF IInv, TypeOK
      <3>2. QED
        BY <2>1, <2>2, <3>1, LockSafe
    <2>3. CASE /\ questions' = Append(questions, LockQuestion)
               /\ UNCHANGED <<bridgeVars, unlocked, answers, failures>>
      <3>1. questions' \in Seq(Question \union {LockQuestion})
        BY <2>3 DEF IInv, TypeOK
      <3>2. QED
        BY <2>1, <2>3, <3>1, UserSafe DEF IInv, TypeOK
    <2>4. QED
      BY <1>3, <2>2, <2>3 DEF onLockVault
  <1>4. ASSUME NEW c \in Credential, NEW o \in Offer, saveCredential(c, o) PROVE IInv'
    <2>1. offer' \in [Credential -> Offer]
      BY <1>4 DEF saveCredential, IInv, TypeOK
    <2>2. UNCHANGED <<bridgeVars, unlocked, enabled, posted, questions, requests, answers,
                      chronicle, failures, crashed>>
      BY <1>4 DEF saveCredential
    <2>3. QED
      BY <2>1, <2>2, UserSafe DEF IInv, TypeOK
  <1>5. CASE UNCHANGED vars
    <2>1. UNCHANGED <<bridgeVars, unlocked, enabled, offer, posted, questions, requests, answers,
                      chronicle, failures, crashed>>
      BY <1>5 DEF vars, userVars
    <2>2. QED
      BY <2>1, UserSafe DEF IInv, TypeOK
  <1>6. QED
    BY <1>1, <1>2, <1>3, <1>4, <1>5, ConnectSafe, DisconnectSafe, RequestSafe, OpenSafe,
       AnswerSafe, AnswerLockSafe DEF Next

\* However hosts, questions, restarts and locks interleave: a server lives in an
\* unlocked session only, and what is pending on it is what the host connected
\* at that address is waiting for, since this server's last lock.
THEOREM Connected == Spec => [](TypeOK /\ BridgeFollowsSession /\ PendingIsConnected)
  <1>1. IInv => TypeOK /\ BridgeFollowsSession /\ PendingIsConnected
    BY DEF IInv
  <1>2. QED
    BY InitSafe, NextSafe, <1>1, PTL DEF Spec

\* No lock, question or setting leaves a server running behind it (stopBridge).
THEOREM FollowsSession == Spec => []BridgeFollowsSession
  BY Connected, PTL

----------------------------------------------------------------------------
(* Which steps there are, to the connections and what the user is asked.   *)

\* The questions open or about to be.
Asked == {posted[i] : i \in DOMAIN posted} \union {questions[i] : i \in DOMAIN questions}

\* Nobody is connected twice, and who waits for an answer has none yet: what is
\* unread, pending or still to be made has not been answered, and what is connected
\* has at most one answer, which is not a cancellation.
Unanswered ==
  /\ \A r \in Id : r > Len(requests) => answers[r] = <<>>
  /\ \A s, t \in Socket : clients[s] = clients[t] /\ clients[s] # NoClient => s = t
  /\ \A s \in unread : answers[clients[s]] = <<>> /\ \A a \in Action : pending[a][s] = NoPending
  /\ \A a \in Action, s \in Socket : pending[a][s] # NoPending =>
       /\ answers[clients[s]] = <<>>
       /\ \A b \in Action : b # a => pending[b][s] = NoPending
  /\ \A s \in Socket : clients[s] # NoClient =>
       \/ answers[clients[s]] = <<>>
       \/ \E x \in Answer \ {"cancelled"} : answers[clients[s]] = <<x>>

\* A server's coordinators have somebody who asks.
SomebodyAsks == bridge => listeners >= 1

\* The connected sockets.
Connections == {s \in Socket : clients[s] # NoClient}
Counted == IsFiniteSet(Connections) /\ ClientsCounted

\* A step that starts or stops the server.
Restarts == \E l \in BOOLEAN, n \in Nat : Replace(l, n) /\ (l => n >= 1) /\ UNCHANGED requests

\* A step of the user or the event loop that leaves the server alone; a question
\* goes with the server only.
Leaves == UNCHANGED <<bridgeVars, answers, requests>> /\ (bridge => Asked \subseteq Asked' \union {LockQuestion})

\* A step that decides about the address of the question on top, which goes with it.
Decides(q, yes) ==
  /\ questions # <<>> /\ q = questions[Len(questions)]
  /\ complete(q.about, q.socket, yes)
  /\ UNCHANGED <<bridge, lockGeneration, listeners, clients, unread, activeClients, requests>>
  /\ Asked \subseteq Asked' \union {q}

\* Starting the bridge restarts it, with somebody who asks.
LEMMA StartRestarts ==
  ASSUME IInv, startBridge, UNCHANGED requests
  PROVE  Restarts
  <1>1. Disconnected \in Nat /\ Disconnected + 1 \in Nat /\ Disconnected + 1 >= 1
    BY Bounded
  <1>2. QED
    BY <1>1 DEF startBridge, stopBridge, Restarts

\* The last question is closed; the others stay.
LEMMA ClosingQuestion ==
  ASSUME IInv, questions # <<>>, questions' = SubSeq(questions, 1, Len(questions) - 1),
         UNCHANGED posted
  PROVE  Asked \subseteq Asked' \union {questions[Len(questions)]}
  <1>1. questions \in Seq(Question \union {LockQuestion})
    BY DEF IInv, TypeOK
  <1>2. \A i \in DOMAIN questions : i = Len(questions) \/ (i \in DOMAIN questions' /\ questions'[i] = questions[i])
    BY <1>1
  <1>3. QED
    BY <1>2 DEF Asked

\* A question more, or none less.
LEMMA OpeningQuestion ==
  ASSUME IInv, NEW q \in Question \union {LockQuestion}, questions' = Append(questions, q),
         \A i \in DOMAIN posted : posted[i] = q \/ \E j \in DOMAIN posted' : posted'[j] = posted[i]
  PROVE  Asked \subseteq Asked'
  <1>1. questions \in Seq(Question \union {LockQuestion})
    BY DEF IInv, TypeOK
  <1>2. \A i \in DOMAIN questions : i \in DOMAIN questions' /\ questions'[i] = questions[i]
    BY <1>1
  <1>3. Len(questions') \in DOMAIN questions' /\ questions'[Len(questions')] = q
    BY <1>1
  <1>4. QED
    BY <1>2, <1>3 DEF Asked

\* Every step is of one of six kinds.
LEMMA Kinds ==
  ASSUME IInv, [Next]_vars
  PROVE  \/ Restarts \/ Leaves
         \/ \E a \in Action, c \in Credential, s \in Socket : onNewConnection(a, c, s)
         \/ \E s \in Socket : handleRequest(s) \/ onClientDisconnected(s)
         \/ \E q \in Question, yes \in BOOLEAN : Decides(q, yes)
  <1>1. CASE onVaultUnlocked
    BY <1>1, StartRestarts DEF onVaultUnlocked
  <1>2. ASSUME NEW on \in BOOLEAN, browserBridgeChanged(on) PROVE Restarts
    BY <1>2, StartRestarts DEF browserBridgeChanged
  <1>3. ASSUME LockNow, UNCHANGED requests PROVE Restarts
    BY <1>3, Bounded DEF LockNow, stopBridge, Restarts
  <1>4. CASE onLockVault
    <2>1. CASE LockNow
      BY <1>3, <1>4, <2>1 DEF onLockVault
    <2>2. CASE questions' = Append(questions, LockQuestion) /\ UNCHANGED <<bridgeVars, answers, posted, requests>>
      <3>1. Asked \subseteq Asked'
        BY <2>2, OpeningQuestion
      <3>2. QED
        BY <2>2, <3>1 DEF Leaves
    <2>3. QED
      BY <1>4, <2>1, <2>2 DEF onLockVault
  <1>5. CASE openQuestion
    <2>1. CASE ~bridge
      BY <1>5, <2>1 DEF openQuestion, Leaves, bridgeVars
    <2>2. CASE bridge
      <3>1. unlocked
        BY <2>2 DEF IInv, BridgeFollowsSession
      <3>2. posted \in Seq(Question) /\ posted # <<>> /\ posted' = Tail(posted)
            /\ questions' = Append(questions, Head(posted))
        BY <1>5, <2>2, <3>1 DEF openQuestion, IInv, TypeOK
      <3>3. Head(posted) \in Question
        BY <3>2
      <3>4. \A i \in DOMAIN posted : posted[i] = Head(posted) \/ \E j \in DOMAIN posted' : posted'[j] = posted[i]
        <4>1. \A i \in DOMAIN posted : i = 1 \/ (i - 1 \in DOMAIN posted' /\ posted'[i - 1] = posted[i])
          BY <3>2
        <4>2. Head(posted) = posted[1]
          BY <3>2
        <4>3. QED
          BY <4>1, <4>2
      <3>5. Asked \subseteq Asked'
        BY <3>2, <3>3, <3>4, OpeningQuestion
      <3>6. UNCHANGED <<bridgeVars, answers, requests>>
        BY <1>5, <2>2, <3>1 DEF openQuestion, bridgeVars
      <3>7. QED
        BY <3>5, <3>6 DEF Leaves
    <2>3. QED
      BY <2>1, <2>2
  <1>6. ASSUME NEW c \in Credential, NEW o \in Offer, saveCredential(c, o) PROVE Leaves
    BY <1>6 DEF saveCredential, Leaves, Asked
  <1>7. ASSUME NEW yes \in BOOLEAN, answer(yes)
        PROVE  Leaves \/ \E q \in Question, y \in BOOLEAN : Decides(q, y)
    <2>1. CASE ~bridge
      BY <1>7, <2>1 DEF answer, Leaves, bridgeVars
    <2>2. CASE bridge
      <3> DEFINE q == questions[Len(questions)]
                 y == yes /\ unlocked
      <3>1. q \in Question
        BY <1>7 DEF answer, IInv, TypeOK
      <3>2. Asked \subseteq Asked' \union {q}
        BY <1>7, <2>2, ClosingQuestion DEF answer
      <3>3. y \in BOOLEAN /\ Decides(q, y)
        BY <1>7, <2>2, <3>2 DEF answer, Decides
      <3>4. QED
        BY <3>1, <3>3
    <2>3. QED
      BY <2>1, <2>2
  <1>8. ASSUME NEW yes \in BOOLEAN, answerLock(yes) PROVE Restarts \/ Leaves
    <2>1. CASE yes
      BY <1>3, <1>8, <2>1 DEF answerLock
    <2>2. CASE ~yes
      <3>1. Asked \subseteq Asked' \union {LockQuestion}
        BY <1>8, ClosingQuestion DEF answerLock
      <3>2. QED
        BY <1>8, <2>2, <3>1 DEF answerLock, Leaves
    <2>3. QED
      BY <2>1, <2>2
  <1>9. CASE UNCHANGED vars
    BY <1>9 DEF vars, Leaves, Asked
  <1>10. QED
    BY <1>1, <1>2, <1>4, <1>5, <1>6, <1>7, <1>8, <1>9 DEF Next

----------------------------------------------------------------------------
(* Everything pending is asked about.                                      *)

\* The question of what is pending at an address.
AskedAbout(a, s) == [about |-> a, socket |-> s, request |-> pending[a][s].request]

\* PendingIsAsked, said of the questions there are.
LEMMA PendingIsAskedIs ==
  PendingIsAsked <=> \A a \in Action, s \in Socket : pending[a][s] # NoPending => AskedAbout(a, s) \in Asked
  BY DEF PendingIsAsked, Asked, AskedAbout

\* Each step keeps what is pending asked about.
LEMMA AskedSafe ==
  ASSUME IInv, SomebodyAsks, PendingIsAsked, [Next]_vars
  PROVE  SomebodyAsks' /\ PendingIsAsked'
  <1> DEFINE p(a, s) == pending[a][s]
  <1>0. SUFFICES SomebodyAsks' /\ \A a \in Action, s \in Socket :
                   pending'[a][s] # NoPending => AskedAbout(a, s)' \in Asked'
    BY DEF PendingIsAsked, Asked, AskedAbout
  <1>00. \A a \in Action, s \in Socket : pending[a][s] # NoPending => AskedAbout(a, s) \in Asked
    BY PendingIsAskedIs
  <1>1. CASE Restarts
    BY <1>1 DEF Restarts, Replace, NoRequests, SomebodyAsks
  <1>2. CASE Leaves
    <2>1. \A a \in Action, s \in Socket : AskedAbout(a, s) # LockQuestion
      BY DEF AskedAbout, LockQuestion, Action
    <2>2. \A a \in Action, s \in Socket : pending[a][s] # NoPending => bridge
      BY DEF IInv, PendingIsConnected
    <2>3. pending' = pending /\ listeners' = listeners /\ bridge' = bridge
      BY <1>2 DEF Leaves, bridgeVars
    <2>4. QED
      BY <1>00, <1>2, <2>1, <2>2, <2>3 DEF Leaves, AskedAbout, SomebodyAsks
  <1>3. ASSUME NEW b \in Action, NEW c \in Credential, NEW t \in Socket, onNewConnection(b, c, t)
        PROVE  SomebodyAsks' /\ \A a \in Action, s \in Socket :
                   pending'[a][s] # NoPending => AskedAbout(a, s)' \in Asked'
    BY <1>00, <1>3 DEF onNewConnection, AskedAbout, SomebodyAsks, Asked
  <1>4. ASSUME NEW t \in Socket, onClientDisconnected(t)
        PROVE  SomebodyAsks' /\ \A a \in Action, s \in Socket :
                   pending'[a][s] # NoPending => AskedAbout(a, s)' \in Asked'
    <2>1. pending' = Without(t) /\ UNCHANGED <<bridge, listeners, posted, questions>>
      BY <1>4 DEF onClientDisconnected
    <2>2. \A a \in Action, s \in Socket : pending'[a][s] # NoPending => pending'[a][s] = pending[a][s]
      BY <2>1 DEF Without, IInv, TypeOK
    <2>3. QED
      BY <1>00, <2>1, <2>2 DEF AskedAbout, SomebodyAsks, Asked
  <1>5. ASSUME NEW t \in Socket, handleRequest(t)
        PROVE  SomebodyAsks' /\ \A a \in Action, s \in Socket :
                   pending'[a][s] # NoPending => AskedAbout(a, s)' \in Asked'
    <2> DEFINE r == clients[t]
               a0 == requests[r].action
               q == [about |-> a0, socket |-> t, request |-> r]
    <2>1. bridge /\ UNCHANGED <<bridge, listeners, questions>>
      BY <1>5 DEF handleRequest, IInv, ConnectionsAreRequests
    <2>2. CASE UNCHANGED <<pending, posted>>
      BY <1>00, <2>1, <2>2 DEF AskedAbout, SomebodyAsks, Asked
    <2>3. CASE Ask(r, t)
      <3>1. /\ pending' = [pending EXCEPT ![a0][t] = [request |-> r, lockGeneration |-> lockGeneration]]
            /\ posted' = posted \o [i \in 1..listeners |-> q]
        BY <2>3 DEF Ask
      <3>2. posted \in Seq(Question) /\ listeners \in Nat /\ listeners >= 1
        BY <2>1 DEF IInv, TypeOK, SomebodyAsks
      <3>3. \A i \in DOMAIN posted : i \in DOMAIN posted' /\ posted'[i] = posted[i]
        BY <3>1, <3>2
      <3>4. Len(posted) + 1 \in DOMAIN posted' /\ posted'[Len(posted) + 1] = q
        <4> DEFINE more == [i \in 1..listeners |-> q]
        <4>1. more \in Seq({q}) /\ Len(more) = listeners /\ more[1] = q
          BY <3>2
        <4>2. posted' = posted \o more
          BY <3>1
        <4> HIDE DEF more, q
        <4>3. QED
          BY <3>2, <4>1, <4>2
      <3>5. Asked \subseteq Asked' /\ q \in Asked'
        BY <2>1, <3>3, <3>4 DEF Asked
      <3>6. ASSUME NEW a \in Action, NEW s \in Socket, pending'[a][s] # NoPending
            PROVE  AskedAbout(a, s)' \in Asked'
        <4>1. CASE a = a0 /\ s = t
          <5>1. pending'[a][s] = [request |-> r, lockGeneration |-> lockGeneration]
            BY <3>1, <4>1 DEF IInv, TypeOK
          <5>2. QED
            BY <3>5, <4>1, <5>1 DEF AskedAbout
        <4>2. CASE ~(a = a0 /\ s = t)
          <5>1. pending'[a][s] = pending[a][s]
            BY <3>1, <4>2 DEF IInv, TypeOK
          <5>2. QED
            BY <1>00, <3>5, <3>6, <5>1 DEF AskedAbout
        <4>3. QED
          BY <4>1, <4>2
      <3>7. QED
        BY <2>1, <3>6 DEF SomebodyAsks
    <2>4. QED
      BY <1>5, <2>2, <2>3 DEF handleRequest
  <1>6. ASSUME NEW q \in Question, NEW yes \in BOOLEAN, Decides(q, yes)
        PROVE  SomebodyAsks' /\ \A a \in Action, s \in Socket :
                   pending'[a][s] # NoPending => AskedAbout(a, s)' \in Asked'
    <2>1. q.about \in Action /\ q.socket \in Socket
      BY DEF Question
    <2>2. \A a \in Action, s \in Socket : pending'[a][s] # NoPending =>
            /\ pending'[a][s] = pending[a][s]
            /\ ~(a = q.about /\ s = q.socket)
      BY <1>6, <2>1 DEF Decides, complete, IInv, TypeOK
    <2>3. \A a \in Action, s \in Socket : ~(a = q.about /\ s = q.socket) => AskedAbout(a, s) # q
      BY DEF AskedAbout
    <2>4. QED
      BY <1>00, <1>6, <2>2, <2>3 DEF Decides, AskedAbout, SomebodyAsks
  <1>7. QED
    BY <1>1, <1>2, <1>3, <1>4, <1>5, <1>6, Kinds

\* Nothing pending is forgotten by the user interface: its question is open, or will
\* be, whatever was answered, locked or restarted (confirmationRequested).
THEOREM AskedAll == Spec => []PendingIsAsked
  <1>1. Init => SomebodyAsks /\ PendingIsAsked
    BY DEF Init, SomebodyAsks, PendingIsAsked, NoRequests
  <1>2. IInv /\ SomebodyAsks /\ PendingIsAsked /\ [Next]_vars => (SomebodyAsks /\ PendingIsAsked)'
    BY AskedSafe
  <1>3. Spec => []IInv
    BY InitSafe, NextSafe, PTL DEF Spec
  <1>4. QED
    BY <1>1, <1>2, <1>3, PTL DEF Spec

----------------------------------------------------------------------------
(* Connections are counted.                                                *)

\* Each step counts as many connections as it makes or drops.
LEMMA CountedSafe ==
  ASSUME IInv, Counted, [Next]_vars
  PROVE  Counted'
  <1>0. /\ IsFiniteSet(Connections) /\ activeClients = Cardinality(Connections)
        /\ Cardinality(Connections) \in Nat
    BY FS_CardinalityType DEF Counted, ClientsCounted, Connections
  <1>1. CASE UNCHANGED <<clients, activeClients>>
    BY <1>0, <1>1 DEF Counted, ClientsCounted, Connections
  <1>2. CASE Restarts
    <2>1. Connections' = {} /\ activeClients' = 0
      BY <1>2 DEF Restarts, Replace, Connections
    <2>2. QED
      BY <2>1, FS_EmptySet DEF Counted, ClientsCounted, Connections
  <1>3. ASSUME NEW a \in Action, NEW c \in Credential, NEW s \in Socket, onNewConnection(a, c, s)
        PROVE  Counted'
    <2>1. CASE clients' = [clients EXCEPT ![s] = Len(requests) + 1] /\ activeClients' = activeClients + 1
      <3>1. Len(requests) + 1 # NoClient
        BY DEF IInv, TypeOK, NoClient
      <3>2. s \notin Connections /\ Connections' = Connections \union {s}
        BY <1>3, <2>1, <3>1 DEF onNewConnection, Connections, IInv, TypeOK
      <3>3. IsFiniteSet(Connections') /\ Cardinality(Connections') = Cardinality(Connections) + 1
        BY <1>0, <3>2, FS_AddElement
      <3>4. QED
        BY <1>0, <2>1, <3>3 DEF Counted, ClientsCounted, Connections
    <2>2. QED
      BY <1>1, <1>3, <2>1 DEF onNewConnection
  <1>4. ASSUME NEW s \in Socket, onClientDisconnected(s)
        PROVE  Counted'
    <2>1. s \in Connections /\ Connections' = Connections \ {s}
      BY <1>4 DEF onClientDisconnected, Connections, IInv, TypeOK
    <2>2. IsFiniteSet(Connections') /\ Cardinality(Connections') = Cardinality(Connections) - 1
          /\ Cardinality(Connections') \in Nat
      BY <1>0, <2>1, FS_RemoveElement, FS_CardinalityType
    <2>3. activeClients' = activeClients - 1
      BY <1>0, <1>4, <2>2 DEF onClientDisconnected
    <2>4. QED
      BY <1>0, <2>2, <2>3 DEF Counted, ClientsCounted, Connections
  <1>5. ASSUME NEW s \in Socket, handleRequest(s) PROVE UNCHANGED <<clients, activeClients>>
    BY <1>5 DEF handleRequest
  <1>6. QED
    BY <1>1, <1>2, <1>3, <1>4, <1>5, Kinds DEF Leaves, bridgeVars, Decides

\* m_activeClients never drifts from the connections, whoever is refused, gives up or
\* is dropped with its server (onNewConnection, onClientDisconnected, stop).
THEOREM AllCounted == Spec => []ClientsCounted
  <1>1. Init => Counted
    <2> SUFFICES ASSUME Init PROVE Counted
      OBVIOUS
    <2>1. Connections = {} /\ activeClients = 0
      BY DEF Init, Connections
    <2>2. QED
      BY <2>1, FS_EmptySet DEF Counted, ClientsCounted, Connections
  <1>2. IInv /\ Counted /\ [Next]_vars => Counted'
    BY CountedSafe
  <1>3. Spec => []IInv
    BY InitSafe, NextSafe, PTL DEF Spec
  <1>4. Counted => ClientsCounted
    BY DEF Counted
  <1>5. QED
    BY <1>1, <1>2, <1>3, <1>4, PTL DEF Spec

----------------------------------------------------------------------------
(* A request is answered once.                                             *)

\* One answer, and after it at most the cancellation of a connection.
Once(w) == \A i, j \in DOMAIN w : i < j => w[i] # "cancelled" /\ w[j] = "cancelled"

\* The first answer.
LEMMA OnceOne ==
  ASSUME NEW w, w = <<>>, NEW x
  PROVE  Append(w, x) = <<x>> /\ Once(Append(w, x))
  BY DEF Once

\* A sequence of one, and one more.
LEMMA Second ==
  ASSUME NEW S, NEW w \in Seq(S), NEW e \in S, Len(w) = 1
  PROVE  /\ DOMAIN Append(w, e) = 1..2
         /\ Append(w, e)[1] = w[1] /\ Append(w, e)[2] = e
  <1>1. /\ Append(w, e) \in Seq(S)
        /\ Append(w, e) # << >>
        /\ Len(Append(w, e)) = Len(w) + 1
        /\ \A i \in 1..Len(w) : Append(w, e)[i] = w[i]
        /\ Append(w, e)[Len(w) + 1] = e
    BY AppendProperties, Zenon
  <1>2. 1 \in 1..Len(w) /\ Len(w) + 1 = 2
    OBVIOUS
  <1>3. Append(w, e)[1] = w[1] /\ Append(w, e)[2] = e /\ Len(Append(w, e)) = 2
    BY <1>1, <1>2, Zenon
  <1>4. QED
    BY <1>1, <1>3

\* A cancellation may follow one answer.
LEMMA OnceMore ==
  ASSUME NEW w, NEW x, w = <<x>>, x # "cancelled"
  PROVE  Once(Append(w, "cancelled"))
  <1> DEFINE S == {x, "cancelled"}
  <1>1. x \in S /\ "cancelled" \in S
    OBVIOUS
  <1> HIDE DEF S
  <1>2. w \in Seq(S) /\ Len(w) = 1 /\ w[1] = x
    BY <1>1
  <1>3. /\ DOMAIN Append(w, "cancelled") = 1..2
        /\ Append(w, "cancelled")[1] = w[1] /\ Append(w, "cancelled")[2] = "cancelled"
    BY <1>1, <1>2, Second
  <1>4. QED
    BY <1>2, <1>3 DEF Once

\* What a request was answered to so far, for those the invariant speaks of.
Fresh(w) == w = <<>> \/ \E x \in Answer \ {"cancelled"} : w = <<x>>

\* A connection's request can be cancelled once more.
LEMMA Cancelling ==
  ASSUME NEW w, Fresh(w)
  PROVE  Once(Append(w, "cancelled"))
  BY OnceOne, OnceMore DEF Fresh

\* One answer to a request that has none and is waiting at s, or nowhere.
LEMMA Answering ==
  ASSUME IInv, Unanswered, NEW r \in Id, NEW x \in Answer \ {"cancelled"}, answers[r] = <<>>,
         Reply(r, x)
  PROVE  /\ answers'[r] = <<x>>
         /\ Once(answers'[r])
         /\ \A q \in Id : q # r => answers'[q] = answers[q]
         /\ \A q \in Id : Fresh(answers[q]) => Fresh(answers'[q])
  <1>1. answers' = [answers EXCEPT ![r] = Append(@, x)]
    BY DEF Reply
  <1>2. answers'[r] = Append(answers[r], x)
    BY <1>1 DEF IInv, TypeOK
  <1>3. answers'[r] = <<x>> /\ Once(answers'[r])
    BY <1>2, OnceOne
  <1>4. \A q \in Id : q # r => answers'[q] = answers[q]
    BY <1>1 DEF IInv, TypeOK
  <1>5. QED
    BY <1>3, <1>4 DEF Fresh

\* Each step answers only what waits for its answer, or cancels what is connected.
LEMMA OnceSafe ==
  ASSUME IInv, Unanswered, DecidedOnce, [Next]_vars
  PROVE  Unanswered' /\ DecidedOnce'
  <1> USE DEF NoClient
  <1>0. /\ \A r \in Id : Once(answers[r])
        /\ \A s \in Socket : clients[s] # NoClient => clients[s] \in Id /\ Fresh(answers[clients[s]])
        /\ \A s \in Socket : clients[s] \in Nat /\ clients[s] <= Len(requests)
        /\ Len(requests) \in Nat /\ Id \subseteq Nat \ {0}
    BY BridgeAssumption DEF DecidedOnce, Once, Unanswered, Fresh, IInv, TypeOK, ConnectionsAreRequests, Id
  <1>00. ASSUME \A r \in Id : Once(answers'[r]) PROVE DecidedOnce'
    BY <1>00 DEF DecidedOnce, Once
  <1>1. CASE Restarts
    <2>1. /\ clients' = [s \in Socket |-> NoClient] /\ unread' = {} /\ pending' = NoRequests
          /\ answers' = Cancelled /\ requests' = requests
      BY <1>1 DEF Restarts, Replace
    <2>2. ASSUME NEW r \in Id PROVE Once(answers'[r])
      <3>1. CASE \E s \in Socket : clients[s] = r
        BY <1>0, <2>1, <3>1, Cancelling DEF Cancelled
      <3>2. CASE ~\E s \in Socket : clients[s] = r
        BY <1>0, <2>1, <3>2 DEF Cancelled
      <3>3. QED
        BY <3>1, <3>2
    <2>3. \A r \in Id : r > Len(requests) => answers'[r] = <<>>
      <3>1. \A r \in Id, s \in Socket : r > Len(requests) => clients[s] # r
        BY <1>0
      <3>2. QED
        BY <2>1, <3>1 DEF Cancelled, Unanswered
    <2>4. Unanswered'
      BY <2>1, <2>3 DEF Unanswered, NoRequests
    <2>5. QED
      BY <1>00, <2>2, <2>4
  <1>2. CASE Leaves
    BY <1>2 DEF Leaves, bridgeVars, Unanswered, DecidedOnce
  <1>3. ASSUME NEW a \in Action, NEW c \in Credential, NEW s \in Socket, onNewConnection(a, c, s)
        PROVE  Unanswered' /\ DecidedOnce'
    <2> DEFINE r == Len(requests) + 1
    <2>1. r \in Id /\ answers[r] = <<>> /\ Len(requests') = r /\ pending' = pending
      <3>1. r \in Id
        BY <1>3, BridgeAssumption DEF onNewConnection, IInv, TypeOK, Id
      <3>2. Len(requests') = r
        BY <1>3 DEF onNewConnection, IInv, TypeOK
      <3>3. QED
        BY <1>0, <1>3, <3>1, <3>2 DEF onNewConnection, Unanswered
    <2>2. \A t \in Socket : clients[t] # r
      BY <1>0
    <2>3. CASE Reply(r, "error") /\ UNCHANGED <<clients, unread>>
      <3>1. /\ Once(answers'[r])
            /\ \A q \in Id : q # r => answers'[q] = answers[q]
        BY <2>1, <2>3, Answering DEF Answer
      <3>2. \A t \in Socket : clients[t] # NoClient => answers'[clients[t]] = answers[clients[t]]
        BY <1>0, <2>2, <3>1
      <3>3. \A q \in Id : q > Len(requests') => answers'[q] = <<>>
        <4>1. ASSUME NEW q \in Id, q > Len(requests') PROVE q # r /\ q > Len(requests)
          <5>1. Len(requests') = Len(requests) + 1 /\ Len(requests) \in Nat /\ q \in Nat
            BY <1>0, <2>1
          <5>2. QED
            BY <4>1, <5>1
        <4>2. QED
          BY <3>1, <4>1 DEF Unanswered
      <3>4. \A t \in unread' : answers'[clients'[t]] = <<>> /\ \A b \in Action : pending'[b][t] = NoPending
        <4>1. \A t \in unread : t \in Socket /\ clients[t] # NoClient
          BY DEF IInv, TypeOK, ConnectionsAreRequests
        <4>2. QED
          BY <2>1, <2>3, <3>2, <4>1 DEF Unanswered
      <3>5. \A b \in Action, t \in Socket : pending'[b][t] # NoPending =>
              /\ answers'[clients'[t]] = <<>>
              /\ \A d \in Action : d # b => pending'[d][t] = NoPending
        <4>1. \A b \in Action, t \in Socket : pending[b][t] # NoPending => clients[t] # NoClient
          BY <1>0 DEF IInv, TypeOK, PendingIsConnected, Pending
        <4>2. QED
          BY <2>1, <2>3, <3>2, <4>1 DEF Unanswered
      <3>6. Unanswered'
        <4>1. \A t, u \in Socket : clients'[t] = clients'[u] /\ clients'[t] # NoClient => t = u
          BY <2>3 DEF Unanswered
        <4>2. \A t \in Socket : clients'[t] # NoClient => Fresh(answers'[clients'[t]])
          BY <1>0, <2>3, <3>2
        <4>3. QED
          BY <3>3, <3>4, <3>5, <4>1, <4>2 DEF Unanswered, Fresh
      <3>7. QED
        BY <1>0, <1>00, <3>1, <3>6
    <2>4. CASE clients' = [clients EXCEPT ![s] = r] /\ unread' = unread \union {s} /\ UNCHANGED answers
      <3>1. clients[s] = NoClient /\ \A b \in Action : pending[b][s] = NoPending
        BY <1>0, <1>3 DEF onNewConnection, IInv, TypeOK, PendingIsConnected, Pending
      <3>2. clients'[s] = r /\ \A t \in Socket : t # s => clients'[t] = clients[t]
        BY <2>4 DEF IInv, TypeOK
      <3>3. \A q \in Id : q > Len(requests') => answers'[q] = <<>>
        BY <1>0, <2>1, <2>4 DEF Unanswered
      <3>4. \A t, u \in Socket : clients'[t] = clients'[u] /\ clients'[t] # NoClient => t = u
        BY <2>2, <3>2 DEF Unanswered
      <3>5. \A t \in unread' : answers'[clients'[t]] = <<>> /\ \A b \in Action : pending'[b][t] = NoPending
        BY <2>1, <2>4, <3>1, <3>2 DEF Unanswered, IInv, TypeOK
      <3>6. \A b \in Action, t \in Socket : pending'[b][t] # NoPending =>
              /\ answers'[clients'[t]] = <<>>
              /\ \A d \in Action : d # b => pending'[d][t] = NoPending
        BY <2>1, <2>4, <3>1, <3>2 DEF Unanswered
      <3>7. ASSUME NEW t \in Socket, clients'[t] # NoClient PROVE Fresh(answers'[clients'[t]])
        <4>1. CASE t = s
          BY <2>1, <2>4, <3>2, <4>1 DEF Fresh
        <4>2. CASE t # s
          BY <1>0, <2>4, <3>2, <3>7, <4>2
        <4>3. QED
          BY <4>1, <4>2
      <3>8. Unanswered'
        BY <3>3, <3>4, <3>5, <3>6, <3>7 DEF Unanswered, Fresh
      <3>9. QED
        BY <1>0, <1>00, <2>4, <3>8
    <2>5. QED
      BY <1>3, <2>3, <2>4 DEF onNewConnection
  <1>4. ASSUME NEW s \in Socket, onClientDisconnected(s)
        PROVE  Unanswered' /\ DecidedOnce'
    <2>1. /\ clients' = [clients EXCEPT ![s] = NoClient] /\ unread' = unread \ {s}
          /\ pending' = Without(s) /\ UNCHANGED <<answers, requests>>
      BY <1>4 DEF onClientDisconnected
    <2>2. clients'[s] = NoClient /\ \A t \in Socket : t # s => clients'[t] = clients[t]
      BY <2>1 DEF IInv, TypeOK
    <2>3. \A b \in Action, t \in Socket : pending'[b][t] = IF t = s THEN NoPending ELSE pending[b][t]
      BY <2>1 DEF Without, IInv, TypeOK
    <2>4. Unanswered'
      BY <2>1, <2>2, <2>3 DEF Unanswered, IInv, TypeOK
    <2>5. QED
      BY <2>1, <2>4 DEF DecidedOnce
  <1>5. ASSUME NEW s \in Socket, handleRequest(s)
        PROVE  Unanswered' /\ DecidedOnce'
    <2> DEFINE r == clients[s]
               a0 == requests[r].action
    <2>1. /\ s \in unread /\ unread' = unread \ {s} /\ UNCHANGED <<clients, requests>>
          /\ r \in Id /\ answers[r] = <<>> /\ \A b \in Action : pending[b][s] = NoPending
      BY <1>0, <1>5 DEF handleRequest, Unanswered, IInv, ConnectionsAreRequests
    <2>2. CASE Ask(r, s) /\ UNCHANGED answers
      <3>1. pending' = [pending EXCEPT ![a0][s] = [request |-> r, lockGeneration |-> lockGeneration]]
        BY <2>2 DEF Ask
      <3>2. \A b \in Action, t \in Socket : ~(b = a0 /\ t = s) => pending'[b][t] = pending[b][t]
        BY <3>1 DEF IInv, TypeOK
      <3>3. \A t \in unread' : answers'[clients'[t]] = <<>> /\ \A b \in Action : pending'[b][t] = NoPending
        BY <2>1, <2>2, <3>2 DEF Unanswered, IInv, TypeOK
      <3>4. \A b \in Action, t \in Socket : pending'[b][t] # NoPending =>
              /\ answers'[clients'[t]] = <<>>
              /\ \A d \in Action : d # b => pending'[d][t] = NoPending
        BY <2>1, <2>2, <3>2 DEF Unanswered
      <3>5. Unanswered'
        BY <2>1, <2>2, <3>3, <3>4 DEF Unanswered
      <3>6. QED
        BY <2>2, <3>5 DEF DecidedOnce
    <2>3. CASE Reply(r, "error") /\ UNCHANGED pending
      <3>1. /\ Once(answers'[r])
            /\ \A q \in Id : q # r => answers'[q] = answers[q]
            /\ \A q \in Id : Fresh(answers[q]) => Fresh(answers'[q])
        BY <2>1, <2>3, Answering DEF Answer
      <3>2. \A t \in Socket : t # s => clients[t] # r
        BY <1>0, <2>1 DEF Unanswered
      <3>3. \A q \in Id : q > Len(requests') => answers'[q] = <<>>
        BY <1>0, <2>1, <3>1 DEF Unanswered
      <3>4. \A t \in unread' : answers'[clients'[t]] = <<>> /\ \A b \in Action : pending'[b][t] = NoPending
        <4>1. \A t \in unread' : t \in Socket /\ t # s /\ clients[t] \in Id
          BY <1>0, <2>1 DEF IInv, TypeOK, ConnectionsAreRequests
        <4>2. QED
          BY <2>1, <2>3, <3>1, <3>2, <4>1 DEF Unanswered
      <3>5. \A b \in Action, t \in Socket : pending'[b][t] # NoPending =>
              /\ answers'[clients'[t]] = <<>>
              /\ \A d \in Action : d # b => pending'[d][t] = NoPending
        <4>1. \A b \in Action, t \in Socket : pending[b][t] # NoPending => t # s /\ clients[t] \in Id
          BY <1>0, <2>1 DEF IInv, TypeOK, PendingIsConnected, Pending
        <4>2. QED
          BY <2>1, <2>3, <3>1, <3>2, <4>1 DEF Unanswered
      <3>6. \A t \in Socket : clients'[t] # NoClient => Fresh(answers'[clients'[t]])
        BY <1>0, <2>1, <3>1
      <3>7. Unanswered'
        BY <2>1, <3>3, <3>4, <3>5, <3>6 DEF Unanswered, Fresh
      <3>8. QED
        BY <1>0, <1>00, <3>1, <3>7
    <2>4. QED
      BY <1>5, <2>2, <2>3 DEF handleRequest
  <1>6. ASSUME NEW q \in Question, NEW yes \in BOOLEAN, Decides(q, yes)
        PROVE  Unanswered' /\ DecidedOnce'
    <2> DEFINE a == q.about
               s == q.socket
               p == pending[a][s]
    <2>1. /\ a \in Action /\ s \in Socket /\ complete(a, s, yes)
          /\ UNCHANGED <<clients, unread, requests>>
      BY <1>6 DEF Question, Decides
    <2>2. CASE p = NoPending
      BY <2>1, <2>2 DEF complete, Unanswered, DecidedOnce
    <2>3. CASE p # NoPending
      <3>1. PICK x \in Outcome(a, p, yes) : Reply(p.request, x)
        BY <2>1, <2>3 DEF complete
      <3>2. x \in Answer \ {"cancelled"}
        BY <3>1 DEF Outcome, Answer, Secret
      <3>3. p.request = clients[s] /\ p.request \in Id /\ answers[p.request] = <<>>
        BY <2>1, <2>3 DEF IInv, TypeOK, Pending, PendingIsConnected, Unanswered
      <3>4. /\ Once(answers'[p.request])
            /\ \A r \in Id : r # p.request => answers'[r] = answers[r]
            /\ \A r \in Id : Fresh(answers[r]) => Fresh(answers'[r])
        BY <3>1, <3>2, <3>3, Answering
      <3>5. pending' = [pending EXCEPT ![a][s] = NoPending]
        BY <2>1, <2>3 DEF complete
      <3>6. \A b \in Action : pending'[b][s] = NoPending
        BY <2>1, <2>3, <3>5 DEF Unanswered, IInv, TypeOK
      <3>7. \A b \in Action, t \in Socket : t # s => pending'[b][t] = pending[b][t]
        BY <3>5 DEF IInv, TypeOK
      <3>8. \A t \in Socket : t # s => clients[t] # p.request
        BY <1>0, <2>1, <3>3 DEF Unanswered
      <3>9. \A r \in Id : r > Len(requests') => answers'[r] = <<>>
        BY <1>0, <2>1, <3>3, <3>4 DEF Unanswered
      <3>10. \A t \in unread' : answers'[clients'[t]] = <<>> /\ \A b \in Action : pending'[b][t] = NoPending
        <4>1. \A t \in unread' : t \in Socket /\ t # s /\ clients[t] \in Id
          BY <1>0, <2>1, <2>3 DEF IInv, TypeOK, ConnectionsAreRequests, Unanswered
        <4>2. QED
          BY <2>1, <3>4, <3>7, <3>8, <4>1 DEF Unanswered
      <3>11. \A b \in Action, t \in Socket : pending'[b][t] # NoPending =>
              /\ answers'[clients'[t]] = <<>>
              /\ \A d \in Action : d # b => pending'[d][t] = NoPending
        <4>1. \A b \in Action, t \in Socket : pending'[b][t] # NoPending =>
                t # s /\ pending[b][t] # NoPending /\ clients[t] \in Id
          BY <1>0, <3>6, <3>7 DEF IInv, TypeOK, PendingIsConnected, Pending
        <4>2. QED
          BY <2>1, <3>4, <3>7, <3>8, <4>1 DEF Unanswered
      <3>12. \A t \in Socket : clients'[t] # NoClient => Fresh(answers'[clients'[t]])
        BY <1>0, <2>1, <3>4
      <3>13. Unanswered'
        BY <2>1, <3>9, <3>10, <3>11, <3>12 DEF Unanswered, Fresh
      <3>14. QED
        BY <1>0, <1>00, <3>4, <3>13
    <2>4. QED
      BY <2>2, <2>3
  <1>7. QED
    BY <1>1, <1>2, <1>3, <1>4, <1>5, <1>6, Kinds

\* However questions repeat, outlive their request or meet a lock, a request is
\* answered once, and not after its cancellation (completeFillDecision, stop).
THEOREM AnsweredOnce == Spec => []DecidedOnce
  <1>1. Init => Unanswered /\ DecidedOnce
    BY DEF Init, Unanswered, DecidedOnce, NoRequests, NoClient
  <1>2. IInv /\ Unanswered /\ DecidedOnce /\ [Next]_vars => (Unanswered /\ DecidedOnce)'
    BY OnceSafe
  <1>3. Spec => []IInv
    BY InitSafe, NextSafe, PTL DEF Spec
  <1>4. QED
    BY <1>1, <1>2, <1>3, PTL DEF Spec

----------------------------------------------------------------------------
(* What a yes and a no are about.                                          *)

\* The request of a question has been read, at the question's address only, and
\* whoever is connected at that address asked no earlier.
Within(q) ==
  q # LockQuestion =>
    /\ q.request <= Len(requests)
    /\ \A s \in Socket : clients[s] = q.request => s = q.socket /\ s \notin unread
    /\ clients[q.socket] # NoClient => q.request <= clients[q.socket]

\* A request that is neither to be read nor pending as a fill, and never will be.
Settled(r) ==
  /\ r <= Len(requests)
  /\ \A s \in Socket : clients[s] = r => s \notin unread /\ pending["fill"][s] = NoPending

\* Of two questions about one address, that of the later request comes later.
NotAfter(p, q) ==
  p # LockQuestion /\ q # LockQuestion => (p.socket = q.socket => p.request <= q.request)

InOrder(Q, P) ==
  /\ \A i, j \in DOMAIN Q : i < j => NotAfter(Q[i], Q[j])
  /\ \A i, j \in DOMAIN P : i < j => NotAfter(P[i], P[j])
  /\ \A i \in DOMAIN Q, j \in DOMAIN P : NotAfter(Q[i], P[j])

\* With IInv and PendingIsAsked this is what makes a no final and a yes precise.
DecidedInv ==
  /\ \A q \in Asked : Within(q)
  /\ \A r \in Id : <<"denied", r>> \in chronicle => Settled(r)
  /\ InOrder(questions, posted)

\* What any step does to the connections: some go, one may come with a new
\* request, and only what was unread becomes pending.
Connects ==
  /\ Len(requests') \in Nat /\ Len(requests) <= Len(requests')
  /\ \A s \in Socket : clients'[s] \in {clients[s], NoClient, Len(requests) + 1}
  /\ \A s \in unread' : (s \in unread /\ clients'[s] = clients[s]) \/ clients'[s] = Len(requests) + 1
  /\ \A s \in Socket : pending'["fill"][s] \in {pending["fill"][s], NoPending} \/ s \in unread

\* Every step does no more than that.
LEMMA EveryStepConnects ==
  ASSUME IInv, [Next]_vars
  PROVE  Connects
  <1> USE DEF NoClient
  <1>0. Len(requests) \in Nat /\ unread \subseteq Socket /\ "fill" \in Action
    BY DEF IInv, TypeOK, Action
  <1>1. CASE Restarts
    BY <1>0, <1>1 DEF Restarts, Replace, NoRequests, Connects
  <1>2. CASE Leaves
    BY <1>0, <1>2 DEF Leaves, bridgeVars, Connects
  <1>3. ASSUME NEW a \in Action, NEW c \in Credential, NEW t \in Socket, onNewConnection(a, c, t)
        PROVE  Connects
    <2>1. Len(requests') = Len(requests) + 1 /\ pending' = pending
      BY <1>3 DEF onNewConnection, IInv, TypeOK
    <2>2. CASE UNCHANGED <<clients, unread>>
      BY <1>0, <2>1, <2>2 DEF Connects
    <2>3. CASE clients' = [clients EXCEPT ![t] = Len(requests) + 1] /\ unread' = unread \union {t}
      <3>1. \A s \in Socket : clients'[s] = IF s = t THEN Len(requests) + 1 ELSE clients[s]
        BY <2>3 DEF IInv, TypeOK
      <3>2. QED
        BY <1>0, <2>1, <2>3, <3>1 DEF Connects
    <2>4. QED
      BY <1>3, <2>2, <2>3 DEF onNewConnection
  <1>4. ASSUME NEW t \in Socket, onClientDisconnected(t)
        PROVE  Connects
    <2>1. \A s \in Socket : clients'[s] = IF s = t THEN NoClient ELSE clients[s]
      BY <1>4 DEF onClientDisconnected, IInv, TypeOK
    <2>2. \A s \in Socket : pending'["fill"][s] \in {pending["fill"][s], NoPending}
      BY <1>0, <1>4 DEF onClientDisconnected, Without, IInv, TypeOK
    <2>3. unread' = unread \ {t} /\ requests' = requests
      BY <1>4 DEF onClientDisconnected
    <2>4. QED
      BY <1>0, <2>1, <2>2, <2>3 DEF Connects
  <1>5. ASSUME NEW t \in Socket, handleRequest(t)
        PROVE  Connects
    <2>1. /\ t \in unread /\ unread' = unread \ {t} /\ UNCHANGED <<clients, requests>>
          /\ pending' = pending \/ Ask(clients[t], t)
      BY <1>5 DEF handleRequest
    <2>2. \A s \in Socket : pending'["fill"][s] = pending["fill"][s] \/ s = t
      <3>1. CASE pending' = pending
        BY <3>1
      <3>2. CASE Ask(clients[t], t)
        <4>1. PICK a, x : pending' = [pending EXCEPT ![a][t] = x]
          BY <3>2, Zenon DEF Ask
        <4>2. "fill" \in DOMAIN pending /\ \A s \in Socket : s \in DOMAIN pending["fill"]
          BY <1>0 DEF IInv, TypeOK
        <4>3. QED
          BY <4>1, <4>2
      <3>3. QED
        BY <2>1, <3>1, <3>2
    <2>3. QED
      BY <1>0, <2>1, <2>2 DEF Connects
  <1>6. ASSUME NEW q \in Question, NEW yes \in BOOLEAN, Decides(q, yes)
        PROVE  Connects
    <2>1. q.about \in Action /\ q.socket \in Socket
      BY DEF Question
    <2>2. \A s \in Socket : pending'["fill"][s] \in {pending["fill"][s], NoPending}
      BY <1>0, <1>6, <2>1, CompleteSafe DEF Decides
    <2>3. UNCHANGED <<clients, unread, requests>>
      BY <1>6 DEF Decides
    <2>4. QED
      BY <1>0, <2>2, <2>3 DEF Connects
  <1>7. QED
    BY <1>1, <1>2, <1>3, <1>4, <1>5, <1>6, Kinds

\* So what was said of a question stays true of it, and a settled request settled.
LEMMA Past ==
  ASSUME IInv, Connects
  PROVE  /\ \A q \in Question \union {LockQuestion} : Within(q) => Within(q)'
         /\ \A r \in Id : Settled(r) => Settled(r)'
  <1> USE DEF NoClient
  <1>0. /\ Len(requests) \in Nat /\ Len(requests') \in Nat /\ Len(requests) <= Len(requests')
        /\ \A r \in Id : r \in Nat /\ r # NoClient
        /\ \A s \in Socket : clients[s] \in Nat
    BY BridgeAssumption DEF IInv, TypeOK, Id, Connects
  <1>1. ASSUME NEW r \in Id, r <= Len(requests), NEW s \in Socket, clients'[s] = r
        PROVE  clients[s] = r /\ (s \notin unread => s \notin unread')
    <2>1. r # Len(requests) + 1
      BY <1>0, <1>1
    <2>2. QED
      BY <1>0, <1>1, <2>1 DEF Connects
  <1>2. ASSUME NEW q \in Question, Within(q), q # LockQuestion
        PROVE  Within(q)'
    <2>1. q.request \in Id /\ q.socket \in Socket /\ q.request <= Len(requests)
      BY <1>2 DEF Within, Question
    <2>2. q.request <= Len(requests')
      BY <1>0, <2>1
    <2>3. \A s \in Socket : clients'[s] = q.request => s = q.socket /\ s \notin unread'
      BY <1>1, <1>2, <2>1 DEF Within
    <2>4. clients'[q.socket] # NoClient => q.request <= clients'[q.socket]
      <3>1. CASE clients'[q.socket] = clients[q.socket]
        BY <1>2, <3>1 DEF Within
      <3>2. CASE clients'[q.socket] = Len(requests) + 1
        BY <1>0, <2>1, <3>2
      <3>3. QED
        BY <2>1, <3>1, <3>2 DEF Connects
    <2>5. QED
      BY <2>2, <2>3, <2>4 DEF Within
  <1>3. \A q : q = LockQuestion => Within(q)'
    BY DEF Within
  <1>4. ASSUME NEW r \in Id, Settled(r)
        PROVE  Settled(r)'
    <2>1. r <= Len(requests) /\ r <= Len(requests')
      BY <1>0, <1>4 DEF Settled
    <2>2. ASSUME NEW s \in Socket, clients'[s] = r
          PROVE  s \notin unread' /\ pending'["fill"][s] = NoPending
      <3>1. clients[s] = r /\ s \notin unread /\ s \notin unread' /\ pending["fill"][s] = NoPending
        BY <1>1, <1>4, <2>1, <2>2 DEF Settled
      <3>2. QED
        BY <3>1 DEF Connects
    <2>3. QED
      BY <2>1, <2>2 DEF Settled
  <1>5. QED
    BY <1>2, <1>3, <1>4

\* A question of a lock may come in between.
LEMMA OrderLocked ==
  ASSUME NEW Q \in Seq(Question \union {LockQuestion}), NEW P \in Seq(Question), InOrder(Q, P)
  PROVE  InOrder(Append(Q, LockQuestion), P)
  <1> DEFINE R == Append(Q, LockQuestion)
  <1>1. \A i \in DOMAIN R : R[i] = LockQuestion \/ (i \in DOMAIN Q /\ R[i] = Q[i])
    OBVIOUS
  <1>2. QED
    BY <1>1 DEF InOrder, NotAfter

\* The question on top may go.
LEMMA OrderClosed ==
  ASSUME NEW Q \in Seq(Question \union {LockQuestion}), NEW P \in Seq(Question), InOrder(Q, P),
         Q # << >>
  PROVE  InOrder(SubSeq(Q, 1, Len(Q) - 1), P)
  <1> DEFINE R == SubSeq(Q, 1, Len(Q) - 1)
  <1>1. \A i \in DOMAIN R : i \in DOMAIN Q /\ R[i] = Q[i]
    OBVIOUS
  <1>2. QED
    BY <1>1 DEF InOrder

\* The first of those to be opened may go, or be opened on top of the others.
LEMMA OrderOpened ==
  ASSUME NEW Q \in Seq(Question \union {LockQuestion}), NEW P \in Seq(Question), InOrder(Q, P),
         P # << >>
  PROVE  InOrder(Q, Tail(P)) /\ InOrder(Append(Q, Head(P)), Tail(P))
  <1> DEFINE R == Append(Q, Head(P))
  <1>1. \A i \in DOMAIN Tail(P) : i \in Nat /\ i + 1 \in DOMAIN P /\ 1 < i + 1 /\ Tail(P)[i] = P[i + 1]
    OBVIOUS
  <1>2. Head(P) = P[1] /\ 1 \in DOMAIN P
    OBVIOUS
  <1>3. InOrder(Q, Tail(P))
    <2>1. \A i, j \in DOMAIN Tail(P) : i < j => i + 1 < j + 1
      OBVIOUS
    <2>2. QED
      BY <1>1, <2>1 DEF InOrder
  <1>4. /\ \A i \in DOMAIN R : (i \in DOMAIN Q /\ R[i] = Q[i]) \/ (i = Len(Q) + 1 /\ R[i] = P[1])
        /\ \A i \in DOMAIN Q : i < Len(Q) + 1
        /\ Len(Q) \in Nat /\ DOMAIN R \subseteq Nat /\ DOMAIN Q = 1..Len(Q) /\ DOMAIN R = 1..(Len(Q) + 1)
    BY <1>2
  <1> HIDE DEF R
  <1>5. \A i, j \in DOMAIN R : i < j => NotAfter(R[i], R[j])
    <2>1. ASSUME NEW i \in DOMAIN R, NEW j \in DOMAIN R, i < j PROVE NotAfter(R[i], R[j])
      <3>1. i \in DOMAIN Q /\ R[i] = Q[i]
        BY <1>4, <2>1
      <3>2. QED
        BY <1>2, <1>4, <2>1, <3>1 DEF InOrder
    <2>2. QED
      BY <2>1
  <1>6. \A i \in DOMAIN R, j \in DOMAIN Tail(P) : NotAfter(R[i], Tail(P)[j])
    BY <1>1, <1>2, <1>4 DEF InOrder
  <1>7. InOrder(R, Tail(P))
    BY <1>3, <1>5, <1>6 DEF InOrder
  <1>8. QED
    BY <1>3, <1>7 DEF R

\* Questions that are not earlier than any other may be added.
LEMMA OrderAsked ==
  ASSUME NEW Q \in Seq(Question \union {LockQuestion}), NEW P \in Seq(Question), InOrder(Q, P),
         NEW q \in Question, NEW n \in Nat,
         \A i \in DOMAIN Q : NotAfter(Q[i], q), \A i \in DOMAIN P : NotAfter(P[i], q)
  PROVE  InOrder(Q, P \o [i \in 1..n |-> q])
  <1> DEFINE more == [i \in 1..n |-> q]
             R == P \o more
  <1>1. /\ \A i \in DOMAIN R : (i \in DOMAIN P /\ R[i] = P[i]) \/ (i > Len(P) /\ R[i] = q)
        /\ DOMAIN R \subseteq Nat /\ DOMAIN P = 1..Len(P) /\ Len(P) \in Nat
    <2>1. more \in Seq({q}) /\ \A i \in DOMAIN more : more[i] = q
      OBVIOUS
    <2> HIDE DEF more
    <2>2. QED
      BY <2>1
  <1>2. NotAfter(q, q)
    BY BridgeAssumption DEF NotAfter, Question, Id
  <1> HIDE DEF R
  <1>3. ASSUME NEW i \in DOMAIN R, NEW j \in DOMAIN R, i < j PROVE NotAfter(R[i], R[j])
    <2>1. CASE j \in DOMAIN P /\ R[j] = P[j]
      <3>1. i \in DOMAIN P /\ R[i] = P[i]
        BY <1>1, <1>3, <2>1
      <3>2. QED
        BY <1>3, <2>1, <3>1 DEF InOrder
    <2>2. CASE R[j] = q
      BY <1>1, <1>2, <2>2
    <2>3. QED
      BY <1>1, <2>1, <2>2
  <1>4. \A i \in DOMAIN Q, j \in DOMAIN R : NotAfter(Q[i], R[j])
    BY <1>1 DEF InOrder
  <1>5. InOrder(Q, R)
    BY <1>3, <1>4 DEF InOrder
  <1>6. QED
    BY <1>5 DEF R

\* A question whose request has just been read is the latest.
LEMMA Latest ==
  ASSUME IInv, DecidedInv, NEW t \in unread,
         NEW q \in Question, q.socket = t, q.request = clients[t]
  PROVE  /\ \A i \in DOMAIN questions : NotAfter(questions[i], q)
         /\ \A i \in DOMAIN posted : NotAfter(posted[i], q)
  <1>1. t \in Socket /\ clients[t] # NoClient
    BY DEF IInv, TypeOK, ConnectionsAreRequests
  <1>2. \A x \in Asked : Within(x)
    BY DEF DecidedInv
  <1>3. \A x \in Asked : NotAfter(x, q)
    BY <1>1, <1>2 DEF Within, NotAfter
  <1>4. QED
    BY <1>3 DEF Asked

\* What any step does to the questions and to what is recorded of their answers.
UserSees ==
  \/ UNCHANGED <<questions, posted, chronicle>>
  \/ questions' = Append(questions, LockQuestion) /\ UNCHANGED <<posted, chronicle>>
  \/ /\ posted # <<>> /\ posted' = Tail(posted)
     /\ questions' \in {questions, Append(questions, Head(posted))} /\ UNCHANGED chronicle
  \/ /\ questions # <<>> /\ questions' = SubSeq(questions, 1, Len(questions) - 1)
     /\ UNCHANGED <<posted, chronicle>>
  \/ questions' = <<>> /\ posted' = <<>> /\ UNCHANGED chronicle

\* A request becomes pending, and is to be asked about.
Asks == \E t \in unread, a \in Action :
  /\ posted' = posted \o [i \in 1..listeners |-> [about |-> a, socket |-> t, request |-> clients[t]]]
  /\ unread' = unread \ {t}
  /\ UNCHANGED <<clients, requests, questions, chronicle>>

\* The question on top is answered.
Answers == \E yes \in BOOLEAN :
  LET q == questions[Len(questions)] IN
  /\ questions # <<>> /\ q \in Question
  /\ questions' = SubSeq(questions, 1, Len(questions) - 1)
  /\ Decides(q, yes) /\ UNCHANGED posted
  /\ chronicle' \subseteq chronicle \union {<<"clipped", q.request>>, <<"approved", q.request>>}
                                    \union {<<"denied", r>> : r \in {x \in {q.request} : q.about = "fill"}}

\* Every step does one of these.
LEMMA EveryStepIsSeen ==
  ASSUME IInv, [Next]_vars
  PROVE  UserSees \/ Asks \/ Answers
  <1>1. CASE onVaultUnlocked
    BY <1>1 DEF onVaultUnlocked, UserSees
  <1>2. ASSUME NEW on \in BOOLEAN, browserBridgeChanged(on) PROVE UserSees
    BY <1>2 DEF browserBridgeChanged, UserSees
  <1>3. CASE onLockVault
    BY <1>3 DEF onLockVault, UserSees
  <1>4. CASE openQuestion
    BY <1>4 DEF openQuestion, UserSees
  <1>5. ASSUME NEW c \in Credential, NEW o \in Offer, saveCredential(c, o) PROVE UserSees
    BY <1>5 DEF saveCredential, UserSees
  <1>6. ASSUME NEW a \in Action, NEW c \in Credential, NEW s \in Socket, onNewConnection(a, c, s)
        PROVE  UserSees
    BY <1>6 DEF onNewConnection, UserSees
  <1>7. ASSUME NEW s \in Socket, onClientDisconnected(s) PROVE UserSees
    BY <1>7 DEF onClientDisconnected, UserSees
  <1>8. ASSUME NEW s \in Socket, handleRequest(s) PROVE UserSees \/ Asks
    <2> DEFINE r == clients[s]
               a == requests[r].action
    <2>1. CASE UNCHANGED posted
      BY <1>8, <2>1 DEF handleRequest, UserSees
    <2>2. CASE Ask(r, s)
      <3>1. a \in Action
        <4>1. r \in Id /\ r <= Len(requests)
          BY <1>8 DEF handleRequest, IInv, TypeOK, ConnectionsAreRequests, NoClient
        <4>2. requests \in Seq([action: Action, cred: Credential])
          BY DEF IInv, TypeOK
        <4>3. r \in 1..Len(requests)
          BY <4>1, <4>2 DEF Id
        <4>4. requests[r] \in [action: Action, cred: Credential]
          <5>1. \A R, w : w \in Seq(R) => \A n \in 1..Len(w) : w[n] \in R
            OBVIOUS
          <5>2. QED
            BY <4>2, <4>3, <5>1, Zenon
        <4>5. \A x \in [action: Action, cred: Credential] : x.action \in Action
          OBVIOUS
        <4>6. QED
          BY <4>4, <4>5, Zenon
      <3>2. /\ posted' = posted \o [i \in 1..listeners |-> [about |-> a, socket |-> s, request |-> r]]
            /\ s \in unread /\ unread' = unread \ {s} /\ UNCHANGED <<clients, requests, questions, chronicle>>
        BY <1>8, <2>2 DEF Ask, handleRequest
      <3>3. QED
        BY <3>1, <3>2, Zenon DEF Asks
    <2>3. QED
      BY <1>8, <2>1, <2>2 DEF handleRequest
  <1>9. ASSUME NEW yes \in BOOLEAN, answer(yes) PROVE UserSees \/ Answers
    <2>1. CASE ~bridge
      BY <1>9, <2>1 DEF answer, UserSees
    <2>2. CASE bridge
      <3> DEFINE q == questions[Len(questions)]
                 y == yes /\ unlocked
      <3>1. q \in Question /\ questions # <<>> /\ y \in BOOLEAN
        BY <1>9 DEF answer, IInv, TypeOK
      <3>2. questions' = SubSeq(questions, 1, Len(questions) - 1) /\ UNCHANGED posted
        BY <1>9, <2>2 DEF answer
      <3>3. Asked \subseteq Asked' \union {q}
        BY <3>1, <3>2, ClosingQuestion
      <3>4. Decides(q, y) /\ chronicle' = chronicle \union Recorded(q, yes)
        BY <1>9, <2>2, <3>3 DEF answer, Decides
      <3>5. q.about = "clip" \/ q.about = "fill"
        BY <3>1 DEF Question, Action
      <3>6. Recorded(q, yes) \subseteq
              {<<"clipped", q.request>>, <<"approved", q.request>>}
              \union {<<"denied", r>> : r \in {x \in {q.request} : q.about = "fill"}}
        BY <3>5 DEF Recorded
      <3>7. chronicle' \subseteq
              chronicle \union {<<"clipped", q.request>>, <<"approved", q.request>>}
                        \union {<<"denied", r>> : r \in {x \in {q.request} : q.about = "fill"}}
        BY <3>4, <3>6
      <3> HIDE DEF y
      <3>8. QED
        BY <3>1, <3>2, <3>4, <3>7, Zenon DEF Answers
    <2>3. QED
      BY <2>1, <2>2
  <1>10. ASSUME NEW yes \in BOOLEAN, answerLock(yes) PROVE UserSees
    BY <1>10 DEF answerLock, UserSees
  <1>11. CASE UNCHANGED vars
    BY <1>11 DEF vars, UserSees
  <1>12. QED
    BY <1>1, <1>2, <1>3, <1>4, <1>5, <1>6, <1>7, <1>8, <1>9, <1>10, <1>11 DEF Next

\* Every step keeps the invariant.
LEMMA DecidedInvSafe ==
  ASSUME IInv, Unanswered, DecidedInv, [Next]_vars
  PROVE  DecidedInv'
  <1>0. /\ questions \in Seq(Question \union {LockQuestion}) /\ posted \in Seq(Question)
        /\ Asked \subseteq Question \union {LockQuestion}
        /\ InOrder(questions, posted) /\ \A x \in Asked : Within(x)
        /\ \A r \in Id : <<"denied", r>> \in chronicle => Settled(r)
    BY DEF IInv, TypeOK, DecidedInv, Asked
  <1>1. \A x \in Asked : Within(x)'
    BY <1>0, EveryStepConnects, Past
  <1>2. \A r \in Id : Settled(r) => Settled(r)'
    BY EveryStepConnects, Past
  <1>3. Within(LockQuestion)'
    BY DEF Within
  <1>4. CASE UserSees
    <2>1. Asked' \subseteq Asked \union {LockQuestion}
      <3>1. CASE UNCHANGED <<questions, posted>>
        BY <3>1 DEF Asked
      <3>2. CASE questions' = Append(questions, LockQuestion) /\ UNCHANGED posted
        BY <1>0, <3>2 DEF Asked
      <3>3. CASE /\ posted # <<>> /\ posted' = Tail(posted)
                 /\ questions' \in {questions, Append(questions, Head(posted))}
        <4>1. \A i \in DOMAIN posted' : \E j \in DOMAIN posted : posted'[i] = posted[j]
          <5>1. \A i \in DOMAIN posted' : i + 1 \in DOMAIN posted /\ posted'[i] = posted[i + 1]
            BY <1>0, <3>3
          <5>2. QED
            BY <5>1
        <4>2. Head(posted) = posted[1] /\ 1 \in DOMAIN posted
          BY <1>0, <3>3
        <4>3. \A i \in DOMAIN questions' : questions'[i] = posted[1] \/ (i \in DOMAIN questions /\ questions'[i] = questions[i])
          BY <1>0, <3>3, <4>2
        <4>4. QED
          BY <4>1, <4>2, <4>3 DEF Asked
      <3>4. CASE questions # <<>> /\ questions' = SubSeq(questions, 1, Len(questions) - 1) /\ UNCHANGED posted
        BY <1>0, <3>4 DEF Asked
      <3>5. CASE questions' = <<>> /\ posted' = <<>>
        BY <3>5 DEF Asked
      <3>6. QED
        BY <1>4, <3>1, <3>2, <3>3, <3>4, <3>5 DEF UserSees
    <2>2. InOrder(questions', posted')
      <3>1. InOrder(<<>>, <<>>)
        BY DEF InOrder
      <3>2. QED
        BY <1>0, <1>4, <3>1, OrderLocked, OrderClosed, OrderOpened DEF UserSees
    <2>3. chronicle' = chronicle
      BY <1>4 DEF UserSees
    <2>4. QED
      BY <1>0, <1>1, <1>2, <1>3, <2>1, <2>2, <2>3 DEF DecidedInv
  <1>5. CASE Asks
    <2>1. PICK t \in unread, a \in Action :
            /\ posted' = posted \o [i \in 1..listeners |-> [about |-> a, socket |-> t, request |-> clients[t]]]
            /\ unread' = unread \ {t}
            /\ UNCHANGED <<clients, requests, questions, chronicle>>
      BY <1>5 DEF Asks
    <2>2. t \in Socket /\ clients[t] \in Id /\ clients[t] <= Len(requests) /\ clients[t] # NoClient
      BY DEF IInv, TypeOK, ConnectionsAreRequests
    <2> PICK q : q = [about |-> a, socket |-> t, request |-> clients[t]]
      OBVIOUS
    <2>3. q \in Question /\ q.socket = t /\ q.request = clients[t] /\ q # LockQuestion
      BY <2>2 DEF Question, LockQuestion, Action
    <2>4. InOrder(questions', posted')
      <3>1. listeners \in Nat
        BY DEF IInv, TypeOK
      <3>2. /\ \A i \in DOMAIN questions : NotAfter(questions[i], q)
            /\ \A i \in DOMAIN posted : NotAfter(posted[i], q)
        BY <2>3, Latest
      <3>3. InOrder(questions, posted \o [i \in 1..listeners |-> q])
        BY <1>0, <2>3, <3>1, <3>2, OrderAsked
      <3>4. QED
        BY <2>1, <3>3
    <2>5. \A s \in Socket : clients[s] = clients[t] => s = t
      BY <2>2 DEF Unanswered
    <2>6. Within(q)'
      <3>1. /\ clients' = clients /\ requests' = requests /\ t \notin unread'
            /\ Len(requests) \in Nat /\ clients[t] \in Nat
        BY <2>1, <2>2, BridgeAssumption DEF IInv, TypeOK, Id
      <3>2. \A s \in Socket : clients'[s] = q.request => s = q.socket /\ s \notin unread'
        BY <2>3, <2>5, <3>1
      <3>3. q.request <= Len(requests') /\ q.request <= clients'[q.socket]
        BY <2>2, <2>3, <3>1
      <3>4. QED
        BY <3>2, <3>3 DEF Within
    <2>7. Asked' \subseteq Asked \union {q}
      <3> DEFINE more == [i \in 1..listeners |-> q]
      <3>1. more \in Seq({q}) /\ \A i \in DOMAIN more : more[i] = q
        BY DEF IInv, TypeOK
      <3>2. posted' = posted \o more
        BY <2>1
      <3> HIDE DEF more
      <3>3. \A i \in DOMAIN posted' : posted'[i] = q \/ \E j \in DOMAIN posted : posted'[i] = posted[j]
        BY <1>0, <3>1, <3>2
      <3>4. questions' = questions
        BY <2>1
      <3>5. QED
        BY <3>3, <3>4, Zenon DEF Asked
    <2>8. QED
      BY <1>0, <1>1, <1>2, <2>1, <2>4, <2>6, <2>7 DEF DecidedInv
  <1>6. CASE Answers
    <2> PICK q : q = questions[Len(questions)]
      OBVIOUS
    <2>1. PICK yes \in BOOLEAN :
            /\ questions # <<>> /\ q \in Question
            /\ questions' = SubSeq(questions, 1, Len(questions) - 1)
            /\ Decides(q, yes) /\ UNCHANGED posted
            /\ chronicle' \subseteq
                 chronicle \union {<<"clipped", q.request>>, <<"approved", q.request>>}
                           \union {<<"denied", r>> : r \in {x \in {q.request} : q.about = "fill"}}
      BY <1>6 DEF Answers
    <2>2. InOrder(questions', posted')
      BY <1>0, <2>1, OrderClosed
    <2>3. Asked' \subseteq Asked
      BY <1>0, <2>1 DEF Asked
    <2>4. q \in Asked /\ q # LockQuestion
      <3>1. Len(questions) \in DOMAIN questions
        BY <1>0, <2>1
      <3>2. q # LockQuestion
        BY <2>1 DEF Question, LockQuestion, Action
      <3>3. QED
        BY <3>1, <3>2 DEF Asked
    <2>5. Within(q) /\ q.about \in Action /\ q.socket \in Socket
      BY <1>0, <2>1, <2>4 DEF Question
    <2>6. UNCHANGED <<clients, unread, requests>>
      BY <2>1 DEF Decides
    <2>7. q.about = "fill" => pending'["fill"][q.socket] = NoPending
      BY <2>1, <2>5 DEF Decides, complete, IInv, TypeOK
    <2>8. q.about = "fill" => Settled(q.request)'
      BY <2>4, <2>5, <2>6, <2>7 DEF Settled, Within
    <2>9. \A r \in Id : <<"denied", r>> \in chronicle' =>
            <<"denied", r>> \in chronicle \/ (r = q.request /\ q.about = "fill")
      BY <2>1
    <2>10. \A r \in Id : <<"denied", r>> \in chronicle' => Settled(r)'
      BY <1>0, <1>2, <2>8, <2>9
    <2>11. QED
      BY <1>1, <2>2, <2>3, <2>10 DEF DecidedInv
  <1>7. QED
    BY <1>4, <1>5, <1>6, EveryStepIsSeen


\* A credential is given only as the answer to what is pending as a fill at the
\* address of the question on top, which was answered with yes.
LEMMA Given ==
  ASSUME IInv, Unanswered, [Next]_vars, NEW r \in Id,
         NEW i \in DOMAIN answers'[r] \ DOMAIN answers[r], answers'[r][i] \in Secret
  PROVE  /\ questions # <<>> /\ questions[Len(questions)] \in Question
         /\ LET s == questions[Len(questions)].socket
            IN  pending["fill"][s] # NoPending /\ pending["fill"][s].request = r
  <1>0. /\ answers \in [Id -> Seq(Answer)] /\ answers' \in [Id -> Seq(Answer)]
        /\ answers'[r] # answers[r]
    <2>1. IInv'
      BY NextSafe
    <2>2. QED
      BY <2>1 DEF IInv, TypeOK
  <1>1. ASSUME NEW x, NEW w \in Seq(Answer), answers[r] = w, answers'[r] = Append(w, x), x \notin Secret
        PROVE  FALSE
    <2>1. Len(w) \in Nat /\ DOMAIN w = 1..Len(w) /\ Len(answers'[r]) = Len(w) + 1
          /\ DOMAIN answers'[r] = 1..(Len(w) + 1)
      BY <1>0, <1>1
    <2>2. i = Len(w) + 1
      BY <1>1, <2>1
    <2>3. answers'[r][i] = x
      BY <1>1, <2>2
    <2>4. QED
      BY <1>1, <2>3
  <1>2. ASSUME NEW x, NEW q \in Id, Reply(q, x), x \notin Secret PROVE FALSE
    BY <1>0, <1>1, <1>2 DEF Reply
  <1>3. CASE Restarts
    <2>1. answers'[r] = Append(answers[r], "cancelled")
      BY <1>0, <1>3 DEF Restarts, Replace, Cancelled
    <2>2. QED
      BY <1>0, <1>1, <2>1 DEF Secret
  <1>4. CASE Leaves
    BY <1>0, <1>4 DEF Leaves
  <1>5. ASSUME NEW a \in Action, NEW c \in Credential, NEW s \in Socket, onNewConnection(a, c, s)
        PROVE  FALSE
    <2>1. Len(requests) + 1 \in Id
      BY <1>5, BridgeAssumption DEF onNewConnection, IInv, TypeOK, Id
    <2>2. QED
      BY <1>0, <1>2, <1>5, <2>1 DEF onNewConnection, Secret
  <1>6. ASSUME NEW s \in Socket, handleRequest(s) PROVE FALSE
    <2>1. clients[s] \in Id
      BY <1>6 DEF handleRequest, IInv, TypeOK, ConnectionsAreRequests, NoClient
    <2>2. QED
      BY <1>0, <1>2, <1>6, <2>1 DEF handleRequest, Secret
  <1>7. ASSUME NEW s \in Socket, onClientDisconnected(s) PROVE FALSE
    BY <1>0, <1>7 DEF onClientDisconnected
  <1>8. ASSUME NEW q \in Question, NEW yes \in BOOLEAN, Decides(q, yes)
        PROVE  q.about = "fill" /\ pending["fill"][q.socket] # NoPending
               /\ pending["fill"][q.socket].request = r
    <2> DEFINE p == pending[q.about][q.socket]
    <2>1. q.about \in {"fill", "clip"} /\ q.socket \in Socket
      BY DEF Question, Action
    <2>2. p # NoPending
      BY <1>0, <1>8 DEF Decides, complete
    <2>3. PICK x \in Outcome(q.about, p, yes) : Reply(p.request, x)
      BY <1>8, <2>2 DEF Decides, complete
    <2>4. p.request \in Id
      BY <2>1, <2>2 DEF IInv, TypeOK, Pending, Action
    <2>5. x \in Secret /\ p.request = r
      BY <1>0, <1>2, <2>3, <2>4 DEF Reply
    <2>6. q.about # "clip"
      BY <2>3, <2>5 DEF Outcome, Secret
    <2>7. QED
      BY <2>1, <2>2, <2>5, <2>6
  <1>9. QED
    BY <1>3, <1>4, <1>5, <1>6, <1>7, <1>8, Kinds DEF Decides


\* A no is final: whatever further questions about the request, or about its
\* address, are open and answered yes (completeFillDecision, handleRequest).
THEOREM NoIsFinal == Spec => NothingAfterNo
  <1>1. Init => Unanswered /\ DecidedOnce /\ DecidedInv
    BY DEF Init, Unanswered, DecidedOnce, NoRequests, NoClient, DecidedInv, Asked, InOrder
  <1>2. IInv /\ Unanswered /\ DecidedOnce /\ DecidedInv /\ [Next]_vars
          => (Unanswered /\ DecidedOnce /\ DecidedInv)'
    BY OnceSafe, DecidedInvSafe
  <1>3. IInv /\ Unanswered /\ DecidedInv /\ [Next]_vars =>
          [\A r \in Id : <<"denied", r>> \in chronicle =>
             \A i \in DOMAIN answers'[r] \ DOMAIN answers[r] : answers'[r][i] \notin Secret]_vars
    <2> SUFFICES ASSUME IInv, Unanswered, DecidedInv, [Next]_vars,
                        NEW r \in Id, <<"denied", r>> \in chronicle,
                        NEW i \in DOMAIN answers'[r] \ DOMAIN answers[r], answers'[r][i] \in Secret
                 PROVE  FALSE
      OBVIOUS
    <2>1. Settled(r)
      BY DEF DecidedInv
    <2>2. PICK s \in Socket : pending["fill"][s] # NoPending /\ pending["fill"][s].request = r
      BY Given DEF Question
    <2>3. clients[s] = r
      BY <2>2 DEF IInv, PendingIsConnected, Action
    <2>4. QED
      BY <2>1, <2>2, <2>3 DEF Settled
  <1>4. Spec => []IInv
    BY InitSafe, NextSafe, PTL DEF Spec
  <1>5. QED
    BY <1>1, <1>2, <1>3, <1>4, PTL DEF Spec, NothingAfterNo

\* A yes fills the request its question is about, also when its address has passed
\* to another connection; at most one whose own question is still to be opened.
THEOREM YesIsPrecise == Spec => FilledIsAsked
  <1>1. Init => SomebodyAsks /\ PendingIsAsked /\ Unanswered /\ DecidedOnce /\ DecidedInv
    BY DEF Init, SomebodyAsks, PendingIsAsked, Unanswered, DecidedOnce, NoRequests, NoClient,
           DecidedInv, Asked, InOrder
  <1>2. IInv /\ SomebodyAsks /\ PendingIsAsked /\ Unanswered /\ DecidedOnce /\ DecidedInv /\ [Next]_vars
          => (SomebodyAsks /\ PendingIsAsked /\ Unanswered /\ DecidedOnce /\ DecidedInv)'
    BY AskedSafe, OnceSafe, DecidedInvSafe
  <1>3. IInv /\ PendingIsAsked /\ Unanswered /\ DecidedInv /\ [Next]_vars =>
          [\A r \in Id : \A i \in DOMAIN answers'[r] \ DOMAIN answers[r] : answers'[r][i] \in Secret =>
             \/ questions # <<>> /\ questions[Len(questions)].request = r
             \/ \E j \in DOMAIN posted : posted[j].request = r]_vars
    <2> SUFFICES ASSUME IInv, PendingIsAsked, Unanswered, DecidedInv, [Next]_vars, NEW r \in Id,
                        NEW i \in DOMAIN answers'[r] \ DOMAIN answers[r], answers'[r][i] \in Secret
                 PROVE  \/ questions # <<>> /\ questions[Len(questions)].request = r
                        \/ \E j \in DOMAIN posted : posted[j].request = r
      OBVIOUS
    <2> DEFINE q == questions[Len(questions)]
               s == q.socket
               own == [about |-> "fill", socket |-> s, request |-> r]
    <2>1. /\ questions # <<>> /\ q \in Question /\ s \in Socket
          /\ pending["fill"][s] # NoPending /\ pending["fill"][s].request = r
      BY Given DEF Question
    <2>2. clients[s] = r
      BY <2>1 DEF IInv, PendingIsConnected, Action
    <2>3. own \in Asked
      BY <2>1, PendingIsAskedIs DEF AskedAbout, Action
    <2>4. questions \in Seq(Question \union {LockQuestion})
      BY DEF IInv, TypeOK
    <2>5. Len(questions) \in DOMAIN questions /\ Len(questions) \in Nat
      BY <2>1, <2>4
    <2>6. q # LockQuestion /\ own # LockQuestion /\ own.socket = s /\ own.request = r
      BY <2>1 DEF Question, LockQuestion, Action
    <2>7. q.request <= r
      BY <2>1, <2>2, <2>5, <2>6, BridgeAssumption DEF DecidedInv, Within, Asked, NoClient, Id
    <2>8. CASE \E j \in DOMAIN posted : posted[j] = own
      BY <2>6, <2>8
    <2>9. CASE \E j \in DOMAIN questions : questions[j] = own
      <3>1. PICK j \in DOMAIN questions : questions[j] = own
        BY <2>9
      <3>2. j = Len(questions) \/ j < Len(questions)
        BY <2>4
      <3>3. r <= q.request
        <4>1. CASE j = Len(questions)
          BY <2>6, <3>1, <4>1 DEF Id
        <4>2. CASE j < Len(questions)
          BY <2>5, <2>6, <3>1, <4>2 DEF DecidedInv, InOrder, NotAfter
        <4>3. QED
          BY <3>2, <4>1, <4>2
      <3>4. q.request \in Int /\ r \in Int
        BY <2>1, BridgeAssumption DEF Question, Id
      <3>5. QED
        BY <2>1, <2>7, <3>3, <3>4
    <2>10. QED
      BY <2>3, <2>8, <2>9 DEF Asked
  <1>4. Spec => []IInv
    BY InitSafe, NextSafe, PTL DEF Spec
  <1>5. QED
    BY <1>1, <1>2, <1>3, <1>4, PTL DEF Spec, FilledIsAsked
=============================================================================
