------------------------------- MODULE Bridge -------------------------------
(***************************************************************************)
(* The browser bridge: native hosts connect to CredentialBridgeServer, one *)
(* connection a request, to fill in a credential or to clip a note; the    *)
(* user decides in a question of the main window.  Everything runs on one  *)
(* thread, but a question is modal and runs the event loop: requests,      *)
(* disconnections, further questions and the auto-lock come in while it is *)
(* open, and only the question on top can be answered.                     *)
(*                                                                         *)
(* A request is the number it has in "requests".  A socket is its address, *)
(* which a later connection may be given again: the coordinators and the   *)
(* questions know a request by its socket's address only.                  *)
(***************************************************************************)
EXTENDS Integers, Sequences, FiniteSets

CONSTANTS
  Socket,        \* addresses of QLocalSockets
  Credential,    \* credential ids
  kMaxClients,   \* CredentialBridgeServer.cpp: 4
  MaxRequests,   \* bound: requests of all hosts together
  MaxFailures    \* bound: bridges that cannot listen

ASSUME BridgeAssumption ==
  /\ kMaxClients \in Nat \ {0}
  /\ MaxRequests \in Nat /\ MaxFailures \in Nat

VARIABLES
  unlocked,        \* VaultSession::isUnlocked
  enabled,         \* AppSettings::browserBridgeEnabled
  bridge,          \* m_bridge holds a server, which is listening
  lockGeneration,  \* that server's m_lockGeneration
  listeners,       \* connections of confirmationRequested, of each coordinator
  clients,         \* whose request each connected socket carries
  unread,          \* sockets whose line has not been read yet
  activeClients,   \* m_activeClients
  pending,         \* m_pending of the fill and of the clip coordinator
  posted,          \* zero timers that will open a question, in their order
  questions,       \* the open questions, the one on top last
  offer,           \* what a credential would give the page that asks
  requests,        \* history: what was asked, in order
  answers,         \* history: what was written to each request's socket
  chronicle,       \* bridge events of the security chronicle
  failures,
  crashed          \* history: a decision met no server

bridgeVars == <<bridge, lockGeneration, listeners, clients, unread, activeClients, pending>>
userVars == <<unlocked, enabled, offer>>
vars == <<bridgeVars, userVars, posted, questions, requests, answers, chronicle,
          failures, crashed>>

Action == {"fill", "clip"}
Id == 1..MaxRequests
NoClient == 0

\* The fill level and the origin match together: everything, the username only,
\* or nothing (manual only, another origin, deleted or damaged).
Offer == {"password", "username", "nothing"}
Secret == {"password", "username"}
Answer == Secret \union {"noteId", "denied", "error", "cancelled"}

NoPending == [request |-> NoClient, lockGeneration |-> 0]
Pending == [request: Id, lockGeneration: {1}] \union {NoPending}

\* A question, or the timer that will open it, has the texts of one request and
\* the socket to answer; "lock" is onLockVault asking to discard edits.
Question == [about: Action, socket: Socket, request: Id]
LockQuestion == [about |-> "lock"]

hasPending(a) == \E s \in Socket : pending[a][s] # NoPending
NoRequests == [a \in Action |-> [s \in Socket |-> NoPending]]
Without(s) == [a \in Action |-> [pending[a] EXCEPT ![s] = NoPending]]
Reply(r, answer) == answers' = [answers EXCEPT ![r] = Append(@, answer)]

\* The main window can be used while no question is open.
AtMain == unlocked /\ questions = <<>>

Init ==
  /\ unlocked = FALSE
  /\ enabled \in BOOLEAN
  /\ bridge = FALSE
  /\ lockGeneration = 0
  /\ listeners = 0
  /\ clients = [s \in Socket |-> NoClient]
  /\ unread = {}
  /\ activeClients = 0
  /\ pending = NoRequests
  /\ posted = <<>>
  /\ questions = <<>>
  /\ offer = [c \in Credential |-> "password"]
  /\ requests = <<>>
  /\ answers = [r \in Id |-> <<>>]
  /\ chronicle = {}
  /\ failures = 0
  /\ crashed = FALSE

----------------------------------------------------------------------------
(* Starting and stopping the server, with the session and the settings.    *)

\* CredentialBridgeServer::stop, and the server destroyed with its sockets.
Cancelled ==
  [r \in Id |-> IF \E s \in Socket : clients[s] = r
                THEN Append(answers[r], "cancelled") ELSE answers[r]]

\* The server there was is gone; a new one has counted one stop, start's own.
Replace(listening, connections) ==
  /\ bridge' = listening
  /\ lockGeneration' = IF listening THEN 1 ELSE 0
  /\ listeners' = connections
  /\ clients' = [s \in Socket |-> NoClient]
  /\ unread' = {}
  /\ activeClients' = 0
  /\ pending' = NoRequests
  /\ answers' = Cancelled

\* Without a server stopBridge returns before it disconnects the coordinators.
Disconnected == IF bridge THEN 0 ELSE listeners

stopBridge == Replace(FALSE, Disconnected) /\ UNCHANGED failures

startBridge ==
  IF enabled' /\ unlocked' THEN
    \/ Replace(TRUE, Disconnected + 1) /\ UNCHANGED failures
    \/ /\ failures < MaxFailures   \* no token, endpoint or listening socket
       /\ Replace(FALSE, Disconnected + 1)
       /\ failures' = failures + 1
  ELSE stopBridge

\* MainWindow::onVaultUnlocked.  Typing a password takes many turns of the event
\* loop: no zero timer is left.
onVaultUnlocked ==
  /\ ~unlocked /\ questions = <<>> /\ posted = <<>>
  /\ unlocked' = TRUE
  /\ enabled' = enabled
  /\ startBridge
  /\ UNCHANGED <<offer, posted, questions, requests, chronicle, crashed>>

\* SettingsWindow: browserBridgeChanged.
browserBridgeChanged(on) ==
  /\ AtMain
  /\ enabled' = on
  /\ unlocked' = unlocked
  /\ startBridge
  /\ UNCHANGED <<offer, posted, questions, requests, chronicle, crashed>>

\* The bridge outlives the session.
MutLockNow ==
  /\ unlocked' = FALSE
  /\ UNCHANGED <<bridgeVars, answers, failures>>

LockNow == unlocked' = FALSE /\ stopBridge

\* MainWindow::onLockVault, by the user or by VaultSession's timer.
onLockVault ==
  /\ unlocked
  /\ \A i \in DOMAIN questions : questions[i] # LockQuestion
  /\ \/ LockNow /\ UNCHANGED questions
     \/ /\ questions' = Append(questions, LockQuestion)   \* not everything could be saved
        /\ UNCHANGED <<bridgeVars, unlocked, answers, failures>>
  /\ UNCHANGED <<enabled, offer, posted, requests, chronicle, crashed>>

\* The user edits or deletes a credential.
saveCredential(c, o) ==
  /\ AtMain
  /\ offer[c] # o
  /\ offer' = [offer EXCEPT ![c] = o]
  /\ UNCHANGED <<bridgeVars, unlocked, enabled, posted, questions, requests, answers,
                 chronicle, failures, crashed>>

----------------------------------------------------------------------------
(* Requests.                                                               *)

\* A refused client is counted too.
MutOnNewConnection(a, c, s) ==
  /\ bridge /\ clients[s] = NoClient /\ Len(requests) < MaxRequests
  /\ requests' = Append(requests, [action |-> a, cred |-> c])
  /\ activeClients' = activeClients + 1
  /\ IF activeClients >= kMaxClients
     THEN Reply(Len(requests'), "error") /\ UNCHANGED <<clients, unread>>
     ELSE /\ clients' = [clients EXCEPT ![s] = Len(requests')]
          /\ unread' = unread \union {s}
          /\ UNCHANGED answers
  /\ UNCHANGED <<bridge, lockGeneration, listeners, pending, userVars, posted, questions,
                 chronicle, failures, crashed>>

\* CredentialBridgeServer::onNewConnection, for a host that wants to ask about c.
onNewConnection(a, c, s) ==
  /\ bridge /\ clients[s] = NoClient /\ Len(requests) < MaxRequests
  /\ requests' = Append(requests, [action |-> a, cred |-> c])
  /\ LET r == Len(requests) + 1 IN
     IF activeClients >= kMaxClients
     THEN Reply(r, "error") /\ UNCHANGED <<clients, unread, activeClients>>
     ELSE /\ clients' = [clients EXCEPT ![s] = r]
          /\ unread' = unread \union {s}
          /\ activeClients' = activeClients + 1
          /\ UNCHANGED answers
  /\ UNCHANGED <<bridge, lockGeneration, listeners, pending, userVars, posted, questions,
                 chronicle, failures, crashed>>

\* The pending requests of a closed connection stay with its address.
MutOnClientDisconnected(s) ==
  /\ clients[s] # NoClient
  /\ clients' = [clients EXCEPT ![s] = NoClient]
  /\ unread' = unread \ {s}
  /\ activeClients' = activeClients - 1
  /\ UNCHANGED <<bridge, lockGeneration, listeners, pending, userVars, posted, questions,
                 requests, answers, chronicle, failures, crashed>>

\* CredentialBridgeServer::onClientDisconnected: the host has its answer, or
\* has waited ten seconds for one.
onClientDisconnected(s) ==
  /\ clients[s] # NoClient
  /\ pending' = Without(s)
  /\ clients' = [clients EXCEPT ![s] = NoClient]
  /\ unread' = unread \ {s}
  /\ activeClients' = IF activeClients > 0 THEN activeClients - 1 ELSE 0
  /\ UNCHANGED <<bridge, lockGeneration, listeners, userVars, posted, questions,
                 requests, answers, chronicle, failures, crashed>>

\* Whether handleRequest goes on to ask the user.
Accepted(r) ==
  /\ unlocked /\ enabled
  /\ ~hasPending(requests[r].action)
  /\ requests[r].action = "fill" => offer[requests[r].cred] \in Secret

\* beginFill, beginClip: each connection of confirmationRequested posts a timer.
Ask(r, s) ==
  LET a == requests[r].action IN
  /\ pending' = [pending EXCEPT ![a][s] = [request |-> r, lockGeneration |-> lockGeneration]]
  /\ posted' = posted \o [i \in 1..listeners |-> [about |-> a, socket |-> s, request |-> r]]

\* CredentialBridgeServer::handleRequest of "fill" and "clip".
handleRequest(s) ==
  /\ s \in unread
  /\ unread' = unread \ {s}
  /\ LET r == clients[s] IN
     \/ Accepted(r) /\ Ask(r, s) /\ UNCHANGED answers
     \/ ~Accepted(r) /\ Reply(r, "error") /\ UNCHANGED <<pending, posted>>
     \/ /\ requests[r].action = "clip"   \* the clipper is off, or the text is missing
        /\ Reply(r, "error") /\ UNCHANGED <<pending, posted>>
  /\ UNCHANGED <<bridge, lockGeneration, listeners, clients, activeClients, userVars,
                 questions, requests, chronicle, failures, crashed>>

----------------------------------------------------------------------------
(* The user's decisions.                                                   *)

\* What completeFillDecision and completeClipDecision may answer to p.
Outcome(a, p, approved) ==
  LET o == offer[requests[p.request].cred] IN
  IF p.lockGeneration # lockGeneration \/ ~unlocked \/ ~approved THEN {"denied"}
  ELSE IF a = "clip" THEN {"noteId", "error"}   \* createNote may fail
  ELSE IF o \in Secret THEN {o} ELSE {"error"}

\* A refused request stays pending.
MutComplete(a, s, approved) ==
  LET p == pending[a][s] IN
  IF p = NoPending THEN UNCHANGED <<pending, answers>>
  ELSE /\ pending' = IF approved THEN [pending EXCEPT ![a][s] = NoPending] ELSE pending
       /\ \E answer \in Outcome(a, p, approved) : Reply(p.request, answer)

\* completeFillDecision, completeClipDecision: nothing is left to decide once
\* the host is gone or another question has decided.
complete(a, s, approved) ==
  LET p == pending[a][s] IN
  IF p = NoPending THEN UNCHANGED <<pending, answers>>
  ELSE /\ pending' = [pending EXCEPT ![a][s] = NoPending]
       /\ \E answer \in Outcome(a, p, approved) : Reply(p.request, answer)

\* A question is not opened over another one.
MutOpenQuestion ==
  /\ posted # <<>>
  /\ posted' = Tail(posted)
  /\ questions' = IF bridge /\ questions = <<>> THEN <<Head(posted)>> ELSE questions
  /\ UNCHANGED <<bridgeVars, userVars, requests, answers, chronicle, failures, crashed>>

\* The zero timer of confirmationRequested; no server lives in a locked session.
openQuestion ==
  /\ posted # <<>>
  /\ posted' = Tail(posted)
  /\ LET q == Head(posted) IN
     IF bridge /\ unlocked
     THEN questions' = Append(questions, q) /\ UNCHANGED <<pending, answers>>
     ELSE /\ UNCHANGED questions
          /\ IF bridge THEN complete(q.about, q.socket, FALSE) ELSE UNCHANGED <<pending, answers>>
  /\ UNCHANGED <<bridge, lockGeneration, listeners, clients, unread, activeClients, userVars,
                 requests, chronicle, failures, crashed>>

\* A clip is recorded when it was approved, a fill either way.
Recorded(q, yes) ==
  IF q.about = "clip" THEN IF yes THEN {<<"clipped", q.request>>} ELSE {}
  ELSE {<<IF yes THEN "approved" ELSE "denied", q.request>>}

\* The user answers the question on top.  If a lock has destroyed the server
\* meanwhile, the decision is called through a null m_bridge: the process dies,
\* and what goes on is its successor.
answer(yes) ==
  /\ questions # <<>> /\ questions[Len(questions)] # LockQuestion
  /\ LET q == questions[Len(questions)] IN
     IF bridge
     THEN /\ questions' = SubSeq(questions, 1, Len(questions) - 1)
          /\ complete(q.about, q.socket, yes /\ unlocked)
          /\ chronicle' = chronicle \union Recorded(q, yes)
          /\ UNCHANGED <<posted, crashed>>
     ELSE /\ crashed' = TRUE
          /\ questions' = <<>>
          /\ posted' = <<>>
          /\ UNCHANGED <<pending, answers, chronicle>>
  /\ UNCHANGED <<bridge, lockGeneration, listeners, clients, unread, activeClients, userVars,
                 requests, failures>>

\* "Lock anyway and discard unsaved edits?"
answerLock(yes) ==
  /\ questions # <<>> /\ questions[Len(questions)] = LockQuestion
  /\ questions' = SubSeq(questions, 1, Len(questions) - 1)
  /\ IF yes THEN LockNow ELSE UNCHANGED <<bridgeVars, unlocked, answers, failures>>
  /\ UNCHANGED <<enabled, offer, posted, requests, chronicle, crashed>>

Next ==
  \/ onVaultUnlocked \/ onLockVault \/ openQuestion
  \/ \E on \in BOOLEAN : browserBridgeChanged(on)
  \/ \E c \in Credential, o \in Offer : saveCredential(c, o)
  \/ \E a \in Action, c \in Credential, s \in Socket : onNewConnection(a, c, s)
  \/ \E s \in Socket : handleRequest(s) \/ onClientDisconnected(s)
  \/ \E yes \in BOOLEAN : answer(yes) \/ answerLock(yes)

Spec == Init /\ [][Next]_vars

\* A host waits ten seconds for an answer and closes its connection
\* (tools/grimledger_host/main.cpp:133); nothing obliges the user to answer.
FairSpec == Spec /\ \A s \in Socket : WF_vars(onClientDisconnected(s))

----------------------------------------------------------------------------
(* Properties.                                                             *)

\* Every variable has its type.
TypeOK ==
  /\ unlocked \in BOOLEAN /\ enabled \in BOOLEAN /\ bridge \in BOOLEAN /\ crashed \in BOOLEAN
  /\ lockGeneration \in 0..1
  /\ listeners \in 0..(MaxFailures + 1)
  /\ clients \in [Socket -> Id \union {NoClient}]
  /\ unread \subseteq Socket
  /\ activeClients \in 0..kMaxClients
  /\ pending \in [Action -> [Socket -> Pending]]
  /\ posted \in Seq(Question)
  /\ questions \in Seq(Question \union {LockQuestion})
  /\ offer \in [Credential -> Offer]
  /\ requests \in Seq([action: Action, cred: Credential])
  /\ answers \in [Id -> Seq(Answer)]
  /\ chronicle \subseteq {"clipped", "approved", "denied"} \X Id
  /\ failures \in 0..MaxFailures

\* "The bridge stops when you lock the vault" (browser-extension/README.md:67),
\* whichever way it is locked and whatever questions are open: the server that
\* reads the session's key lives in an unlocked session, with the setting on.
BridgeFollowsSession == bridge => unlocked /\ enabled

\* A pending request is the one its socket's host is waiting for, on this
\* server: what is decided about an address is never written to a host that came
\* there later, and the lock generation of a pending request is never an old one.
PendingIsConnected ==
  \A a \in Action, s \in Socket : pending[a][s] # NoPending =>
    /\ bridge
    /\ clients[s] = pending[a][s].request
    /\ pending[a][s].lockGeneration = lockGeneration

\* What keeps PendingIsConnected true: a connection carries a request that was
\* made, a line is read from a connection only, and the coordinators are
\* connected at most once for the server and once for each that failed.
ConnectionsAreRequests ==
  /\ \A s \in Socket : clients[s] <= Len(requests)
  /\ \A s \in unread : bridge /\ clients[s] # NoClient
  /\ lockGeneration = IF bridge THEN 1 ELSE 0
  /\ listeners <= failures + IF bridge THEN 1 ELSE 0

IInv == TypeOK /\ BridgeFollowsSession /\ PendingIsConnected /\ ConnectionsAreRequests

\* A pending request has its question open, or a timer that will open it: none
\* is left that nobody will be asked about, refusing all later requests with
\* "Another fill is already pending."
PendingIsAsked ==
  LET asked == {posted[i] : i \in DOMAIN posted} \union {questions[i] : i \in DOMAIN questions}
  IN \A a \in Action, s \in Socket : pending[a][s] # NoPending =>
       [about |-> a, socket |-> s, request |-> pending[a][s].request] \in asked

\* m_activeClients is the number of connected clients across refusals, hosts
\* that give up and servers that stop, so that kMaxClients never locks hosts out.
ClientsCounted == activeClients = Cardinality({s \in Socket : clients[s] # NoClient})

\* A request is answered once, and not after the server has cancelled it, also
\* when the user is asked twice or a question outlives the request.  (Cancelling
\* writes to every connection, the answered ones too; a host reads one line.)
DecidedOnce ==
  \A r \in Id : \A i, j \in DOMAIN answers[r] :
    i < j => answers[r][i] # "cancelled" /\ answers[r][j] = "cancelled"

\* Once the user has said no to a fill, saying yes to a second question about it
\* fills nothing.
NothingAfterNo ==
  [][\A r \in Id : <<"denied", r>> \in chronicle =>
       \A i \in DOMAIN answers'[r] \ DOMAIN answers[r] : answers'[r][i] \notin Secret]_vars

\* A request is known by its socket's address, which a later connection may be
\* given while the question of an earlier one is open.  Even so, a yes fills what
\* its question is about, or at most a request that came at that address this
\* moment, whose own question is still to be opened.
FilledIsAsked ==
  [][\A r \in Id : \A i \in DOMAIN answers'[r] \ DOMAIN answers[r] : answers'[r][i] \in Secret =>
       \/ questions # <<>> /\ questions[Len(questions)].request = r
       \/ \E j \in DOMAIN posted : posted[j].request = r]_vars

\* A fill or clip does not stay pending for ever, even if nobody ever answers
\* its question.
PendingClears ==
  \A a \in Action, s \in Socket : pending[a][s] # NoPending ~> pending[a][s] = NoPending

\* "Vault locked during confirmation." (CredentialBridgeServer.cpp:461): a lock
\* during a question is something its answer finds out and survives.
AnsweredAfterLock == ~crashed
=============================================================================
