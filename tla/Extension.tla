----------------------------- MODULE Extension -----------------------------
(***************************************************************************)
(* The browser extension, its native hosts and the desktop behind them:    *)
(* popup.js asks background.js, which opens a native port, and with it a   *)
(* grimledger_host process, for every request; the host connects to the    *)
(* desktop, where the user decides; the answer comes back the same way and *)
(* content.js puts it into the page.  Meanwhile the tab goes elsewhere,    *)
(* the popup closes, the vault locks, a timer fires, a process dies.       *)
(*                                                                         *)
(* The desktop is what module Bridge makes of it: a server while the vault *)
(* is unlocked, one pending fill and one pending clip, a question for      *)
(* each.  popup.js's ping, before refresh asks for the matches, only       *)
(* chooses a message and is left out.                                      *)
(***************************************************************************)
EXTENDS OriginMatcher, FiniteSets

CONSTANTS
  Page,        \* origins a tab can show
  Entry,       \* a credential's URL and fill level
  Credential,
  Port         \* native ports: each is used again when its host has gone

ASSUME ExtensionAssumption ==
  /\ Page \subseteq [scheme: {"https", "http"}, host: Seq(STRING), port: Int]
  /\ Entry \subseteq [url: [scheme: STRING, host: Seq(STRING), port: Int], level: Level]

VARIABLES
  unlocked,    \* the desktop's vault, with the bridge on
  vault,       \* the URL and the level of each credential
  tab,         \* the origin of the document in the tab
  form,        \* the answer its login form was filled from
  open,        \* the popup is open
  buttons,     \* the matches it shows, each with the origin it was asked for
  status,      \* what it says
  listening,   \* ports whose request was made by the popup that is open
  call,        \* the request of each port
  worker,      \* how far background.js is with it
  host,        \* how far its host and the desktop are
  answer,      \* the line the host was sent
  done         \* history: ports whose request was carried out

desktopVars == <<unlocked, vault>>
popupVars == <<open, buttons>>
portVars == <<call, worker, host, answer, done>>
vars == <<desktopVars, tab, form, popupVars, status, listening, portVars>>

Action == {"list_matches", "fill", "clip"}
Call == [action: Action, cred: Credential, origin: Page]
NoCall == [action |-> "none"]
Error == [kind |-> "error"]
NoFill == [kind |-> "none"]
Fill == [kind: {"fill"}, cred: Credential, entry: Entry, origin: Page]
Answer == {Error, [kind |-> "saved"]} \union Fill
          \union [kind: {"list"}, creds: SUBSET Credential]
Button == [cred: Credential, origin: Page]
Status == {"", "filled", "clipped", "listed", "error"}

\* A port that is "waiting" is open; background.js disconnects it as soon as the
\* promise is settled, and its host reads the end of its input and exits.
Worker == {"idle", "waiting", "verified"}
Host == {"none", "started", "line", "pending", "asked", "answered", "replied"}

Init ==
  /\ unlocked \in BOOLEAN
  /\ vault \in [Credential -> Entry]
  /\ tab \in Page
  /\ form = NoFill
  /\ open = FALSE /\ buttons = {} /\ status = "" /\ listening = {}
  /\ call = [p \in Port |-> NoCall]
  /\ worker = [p \in Port |-> "idle"]
  /\ host = [p \in Port |-> "none"]
  /\ answer = [p \in Port |-> Error]
  /\ done = {}

----------------------------------------------------------------------------
(* The user, in the browser and at the desktop.                            *)

\* Another page, or the same again: a new document.
navigate(o) ==
  /\ tab' = o
  /\ form' = NoFill
  /\ UNCHANGED <<desktopVars, popupVars, status, listening, portVars>>

\* The popup loses the focus, as when the desktop asks: its requests go on.
closePopup ==
  /\ open
  /\ open' = FALSE /\ buttons' = {} /\ status' = "" /\ listening' = {}
  /\ UNCHANGED <<desktopVars, tab, form, portVars>>

lock ==
  /\ unlocked
  /\ unlocked' = FALSE
  /\ LET connected == {p \in Port : host[p] \in {"line", "pending", "asked"}} IN
     /\ host' = [p \in Port |-> IF p \in connected THEN "answered" ELSE host[p]]
     /\ answer' = [p \in Port |-> IF p \in connected THEN Error ELSE answer[p]]
  /\ UNCHANGED <<vault, tab, form, popupVars, status, listening, call, worker, done>>

unlock ==
  /\ ~unlocked
  /\ unlocked' = TRUE
  /\ UNCHANGED <<vault, tab, form, popupVars, status, listening, portVars>>

\* The user edits a credential; a question is modal.
updateCredential(c, e) ==
  /\ unlocked /\ \A p \in Port : host[p] # "asked"
  /\ vault' = [vault EXCEPT ![c] = e]
  /\ UNCHANGED <<unlocked, tab, form, popupVars, status, listening, portVars>>

----------------------------------------------------------------------------
(* popup.js, and background.js up to the native port.                      *)

\* background.js nativeRequest: connectNative and postMessage.
nativeRequest(p, request) ==
  /\ worker[p] = "idle" /\ host[p] = "none"
  /\ call' = [call EXCEPT ![p] = request]
  /\ worker' = [worker EXCEPT ![p] = "waiting"]
  /\ host' = [host EXCEPT ![p] = "started"]
  /\ listening' = listening \union {p}
  /\ status' = ""
  /\ UNCHANGED <<desktopVars, tab, form, answer, done>>

\* Opening the popup refreshes it, and so does its button.
refresh(p) ==
  /\ open' = TRUE
  /\ buttons' = {}
  /\ \E c \in Credential :
       nativeRequest(p, [action |-> "list_matches", cred |-> c, origin |-> tab])

fillMatch(p, b) ==
  /\ b \in buttons
  /\ nativeRequest(p, [action |-> "fill", cred |-> b.cred, origin |-> b.origin])
  /\ UNCHANGED popupVars

\* With text selected in the page; without, the popup is told so at once.
clipSelection(p) ==
  /\ open
  /\ \E c \in Credential : nativeRequest(p, [action |-> "clip", cred |-> c, origin |-> tab])
  /\ UNCHANGED popupVars

----------------------------------------------------------------------------
(* The host and the desktop.                                               *)

Send(p, a) == host' = [host EXCEPT ![p] = "answered"] /\ answer' = [answer EXCEPT ![p] = a]
Reply(p, a) == host' = [host EXCEPT ![p] = "replied"] /\ answer' = [answer EXCEPT ![p] = a]
Elsewhere == UNCHANGED <<desktopVars, tab, form, popupVars, status, listening, call, worker>>

\* grimledger_host forwardToDesktop, up to the written line: the session may be
\* offline, or the connection fail.
forwardToDesktop(p) ==
  /\ host[p] = "started"
  /\ \/ unlocked /\ host' = [host EXCEPT ![p] = "line"] /\ UNCHANGED answer
     \/ Reply(p, Error)
  /\ Elsewhere /\ UNCHANGED done

Matches(c, o) == pageOriginMatchesCredentialUrl(o, vault[c].url, vault[c].level)
hasPending(a) == \E p \in Port : host[p] \in {"pending", "asked"} /\ call[p].action = a

\* CredentialBridgeServer::handleRequest; a clip may be refused by the settings.
handleRequest(p) ==
  /\ host[p] = "line"
  /\ LET r == call[p] IN
     CASE r.action = "list_matches" ->
            Send(p, [kind |-> "list", creds |-> {c \in Credential : Matches(c, r.origin)}])
       [] r.action = "fill" /\ ~hasPending("fill") /\ Matches(r.cred, r.origin) ->
            host' = [host EXCEPT ![p] = "pending"] /\ UNCHANGED answer
       [] r.action = "clip" /\ ~hasPending("clip") ->
            \/ host' = [host EXCEPT ![p] = "pending"] /\ UNCHANGED answer
            \/ Send(p, Error)
       [] OTHER -> Send(p, Error)
  /\ Elsewhere /\ UNCHANGED done

\* The zero timer of confirmationRequested.
openQuestion(p) ==
  /\ host[p] = "pending"
  /\ host' = [host EXCEPT ![p] = "asked"]
  /\ Elsewhere /\ UNCHANGED <<answer, done>>

\* completeFillDecision reads the credential again, and matches it again.
completeFillDecision(p) ==
  LET r == call[p] IN
  IF Matches(r.cred, r.origin)
  THEN Send(p, [kind |-> "fill", cred |-> r.cred, entry |-> vault[r.cred], origin |-> r.origin])
  ELSE Send(p, Error)

\* completeClipDecision: createNote may fail.
completeClipDecision(p) ==
  \/ Send(p, [kind |-> "saved"]) /\ done' = done \union {p}
  \/ Send(p, Error) /\ UNCHANGED done

\* The user answers the question.
decide(p, yes) ==
  /\ host[p] = "asked"
  /\ IF ~yes THEN Send(p, Error) /\ UNCHANGED done
     ELSE IF call[p].action = "clip" THEN completeClipDecision(p)
     ELSE completeFillDecision(p) /\ UNCHANGED done
  /\ Elsewhere

\* forwardToDesktop, with a line to read, or after ten seconds without one: the
\* socket closes, and the desktop forgets the request.
hostAnswers(p) ==
  /\ \/ host[p] = "answered" /\ Reply(p, answer[p])
     \/ host[p] \in {"line", "pending", "asked"} /\ Reply(p, Error)
  /\ Elsewhere /\ UNCHANGED done

----------------------------------------------------------------------------
(* background.js after the native port, and content.js.                    *)

\* The promise of the popup's message is settled; a closed popup hears nothing.
Tell(p, word) ==
  /\ worker' = [worker EXCEPT ![p] = "idle"]
  /\ listening' = listening \ {p}
  /\ status' = IF p \in listening THEN word ELSE status

\* A refusal is an answer too.
MutWord(a) == CASE a.kind = "list" -> "listed" [] OTHER -> "clipped"

\* What the popup says of a port's answer when there is nothing to fill in.
Word(a) == CASE a.kind = "list" -> "listed" [] a.kind = "saved" -> "clipped" [] OTHER -> "error"

\* The answer of the host.  fillCredentials looks at the tab before it sends the
\* credential there; the popup makes a button of each match.
onMessage(p) ==
  /\ worker[p] = "waiting" /\ host[p] = "replied"
  /\ LET a == answer[p] IN
     \/ /\ a.kind = "fill" /\ tab = call[p].origin
        /\ worker' = [worker EXCEPT ![p] = "verified"]
        /\ UNCHANGED <<listening, status, buttons>>
     \/ /\ a.kind = "fill" /\ tab # call[p].origin
        /\ Tell(p, "error") /\ UNCHANGED buttons
     \/ /\ a.kind # "fill"
        /\ Tell(p, Word(a))
        /\ buttons' = IF a.kind = "list" /\ p \in listening
                      THEN buttons \union {[cred |-> c, origin |-> call[p].origin] : c \in a.creds}
                      ELSE buttons
  /\ UNCHANGED <<desktopVars, tab, form, open, call, host, answer, done>>

\* The port stays open when its timer fires.
MutOnTimeout(p) ==
  /\ worker[p] = "waiting" /\ p \in listening
  /\ listening' = listening \ {p}
  /\ status' = "error"
  /\ UNCHANGED <<desktopVars, tab, form, popupVars, portVars>>

\* Twelve seconds without an answer.
onTimeout(p) ==
  /\ worker[p] = "waiting"
  /\ Tell(p, "error")
  /\ UNCHANGED <<desktopVars, tab, form, popupVars, call, host, answer, done>>

\* Nothing is left of a host and its port, at the desktop neither.
Forget(p) ==
  /\ host' = [host EXCEPT ![p] = "none"]
  /\ call' = [call EXCEPT ![p] = NoCall]
  /\ answer' = [answer EXCEPT ![p] = Error]
  /\ done' = done \ {p}

\* The host exits when its port is closed, at the latest when background.js is
\* through with it, or dies while it is open.
hostExits(p) ==
  /\ host[p] # "none" /\ worker[p] = "idle"
  /\ Forget(p)
  /\ UNCHANGED <<desktopVars, tab, form, popupVars, status, listening, worker>>

hostDies(p) ==
  /\ host[p] # "none" /\ worker[p] = "waiting"
  /\ Forget(p)
  /\ Tell(p, "error")
  /\ UNCHANGED <<desktopVars, tab, form, popupVars>>

\* The page does not look where it is.
MutFillOnPage(p) ==
  /\ worker[p] = "verified"
  /\ form' = answer[p]
  /\ done' = done \union {p}
  /\ Tell(p, "filled")
  /\ UNCHANGED <<desktopVars, tab, popupVars, call, host, answer>>

\* content.js, in whatever document the tab has now: it may be of another
\* origin, or have no login fields, or there is no content script in it yet.
fillOnPage(p) ==
  /\ worker[p] = "verified"
  /\ \/ /\ tab = answer[p].origin
        /\ form' = answer[p]
        /\ done' = done \union {p}
        /\ Tell(p, "filled")
     \/ Tell(p, "error") /\ UNCHANGED <<form, done>>
  /\ UNCHANGED <<desktopVars, tab, popupVars, call, host, answer>>

Next ==
  \/ closePopup \/ lock \/ unlock
  \/ \E o \in Page : navigate(o)
  \/ \E c \in Credential, e \in Entry : updateCredential(c, e)
  \/ \E p \in Port :
       \/ refresh(p) \/ clipSelection(p) \/ \E b \in buttons : fillMatch(p, b)
       \/ forwardToDesktop(p) \/ handleRequest(p) \/ openQuestion(p) \/ hostAnswers(p)
       \/ \E yes \in BOOLEAN : decide(p, yes)
       \/ onMessage(p) \/ onTimeout(p) \/ hostExits(p) \/ hostDies(p) \/ fillOnPage(p)

Spec == Init /\ [][Next]_vars

\* The timer of background.js fires, a host whose input is closed exits, and a
\* message to a tab is delivered or rejected by the browser.  The user need not
\* answer, and the desktop need not either.
FairSpec ==
  Spec /\ \A p \in Port : WF_vars(onTimeout(p)) /\ WF_vars(hostExits(p)) /\ WF_vars(fillOnPage(p))

----------------------------------------------------------------------------
(* Properties.                                                             *)

\* Every variable has its type.
TypeOK ==
  /\ unlocked \in BOOLEAN /\ open \in BOOLEAN
  /\ vault \in [Credential -> Entry]
  /\ tab \in Page
  /\ form \in {NoFill} \union Fill
  /\ buttons \subseteq Button
  /\ status \in Status
  /\ listening \subseteq Port /\ done \subseteq Port
  /\ call \in [Port -> Call \union {NoCall}]
  /\ worker \in [Port -> Worker]
  /\ host \in [Port -> Host]
  /\ answer \in [Port -> Answer]

\* What a page is given belongs to it: the document that was filled is of the
\* origin the user was asked about, which is the site the credential was written
\* for, at the level it had when the user said yes, although the tab and the
\* credential change between the list, the click, the question, the answer and
\* the page.
FilledWhereItBelongs ==
  form # NoFill => form.origin = tab /\ IsSite(tab, form.entry.url, form.entry.level)

\* What makes it true: an answer that fills belongs to the origin that asked for
\* it, a host has the request it was started for, and what is on its way to the
\* page is not answered again.
AnswersBelong ==
  \A p \in Port :
    /\ answer[p].kind = "fill" => IsSite(answer[p].origin, answer[p].entry.url, answer[p].entry.level)
    /\ host[p] # "none" => call[p] \in Call
    /\ worker[p] = "waiting" => host[p] # "none"
    /\ worker[p] = "verified" => host[p] = "replied" /\ answer[p].kind = "fill"

IInv == TypeOK /\ FilledWhereItBelongs /\ AnswersBelong

\* When the popup says that a login was filled or a clip was sent, that is so,
\* whatever timed out, died or was refused before.
SaidIsDone ==
  [][\A p \in listening \ listening' : status' \in {"filled", "clipped"} => p \in done']_vars

\* Every request ends: its promise is settled, its host is gone and nothing of it
\* is left pending at the desktop, even if nobody ever answers the question.
CallsEnd ==
  \A p \in Port : worker[p] # "idle" \/ host[p] # "none" ~> worker[p] = "idle" /\ host[p] = "none"
=============================================================================
