-------------------------- MODULE Extension_proofs --------------------------
(***************************************************************************)
(* Proofs about Extension, for any pages, any URLs and levels a credential *)
(* may have, any credentials and any number of native ports.               *)
(***************************************************************************)
EXTENDS Extension, SequenceTheorems, TLAPS

\* A host that ends with a dot and another host is a subdomain of it.
LEMMA EndsWithDot ==
  ASSUME NEW name \in Seq(STRING), NEW end \in Seq(STRING), endsWith(name, <<".">> \o end)
  PROVE  \E dot \in DOMAIN name :
           name[dot] = "." /\ SubSeq(name, dot + 1, Len(name)) = end
  <1> DEFINE n == Len(name)
             m == Len(end)
             tail == SubSeq(name, n - m, n)
  <1>1. n \in Nat /\ m \in Nat /\ Len(<<".">> \o end) = m + 1
    OBVIOUS
  <1>2. m + 1 <= n /\ tail = <<".">> \o end
    <2>1. n - (m + 1) + 1 = n - m
      BY <1>1
    <2>2. QED
      BY <1>1, <2>1 DEF endsWith
  <1>3. n - m \in 1..n /\ n - m \in DOMAIN name
    BY <1>1, <1>2
  <1>4. Len(tail) = m + 1 /\ \A i \in 1..(m + 1) : tail[i] = name[n - m + i - 1]
    BY <1>1, <1>2, <1>3
  <1>5. name[n - m] = "."
    <2>1. tail[1] = "."
      BY <1>2
    <2>2. tail[1] = name[n - m]
      BY <1>1, <1>3, <1>4
    <2>3. QED
      BY <2>1, <2>2
  <1>6. SubSeq(name, n - m + 1, n) = end
    <2> DEFINE rest == SubSeq(name, n - m + 1, n)
    <2>1. rest \in Seq(STRING) /\ Len(rest) = m /\ \A i \in 1..m : rest[i] = name[n - m + i]
      BY <1>1, <1>2, <1>3
    <2>2. \A i \in 1..m : end[i] = tail[i + 1]
      BY <1>1, <1>2
    <2>3. \A i \in 1..m : tail[i + 1] = name[n - m + i]
      <3>1. TAKE i \in 1..m
      <3>2. i + 1 \in 1..(m + 1) /\ n - m + (i + 1) - 1 = n - m + i
        BY <1>1
      <3>3. QED
        BY <1>4, <3>2
    <2>4. \A i \in 1..m : rest[i] = end[i]
      BY <2>1, <2>2, <2>3
    <2>5. QED
      BY <1>1, <2>1, <2>4, SeqEqual
  <1>7. QED
    BY <1>3, <1>5, <1>6

\* The matcher lets a page have a credential only if it is the site the
\* credential was written for.
LEMMA MatchIsSite ==
  ASSUME NEW page \in [scheme: {"https", "http"}, host: Seq(STRING), port: Int],
         NEW url \in [scheme: STRING, host: Seq(STRING), port: Int], NEW level \in Level,
         pageOriginMatchesCredentialUrl(page, url, level)
  PROVE  IsSite(page, url, level)
  <1> DEFINE cred == normalizeCredentialUrl(url)
  <1>1. /\ level # "ManualOnly" /\ cred.host # <<>>
        /\ page.scheme = cred.scheme
        /\ effectivePort(page) = effectivePort(cred)
        /\ \/ page.host = cred.host
           \/ level = "AllowSubdomains" /\ endsWith(page.host, <<".">> \o cred.host)
    BY DEF pageOriginMatchesCredentialUrl, fillTrustAllowsSubdomains
  <1>2. cred # Nowhere
    BY <1>1 DEF Nowhere
  <1>3. /\ cred.host = url.host /\ cred.port = url.port
        /\ cred.scheme = IF url.scheme = "" THEN "https" ELSE url.scheme
    BY <1>2 DEF normalizeCredentialUrl
  <1>4. SamePort(page.port, url.port, page.scheme)
    <2>1. cred.scheme = page.scheme /\ cred.port = url.port
      BY <1>1, <1>3
    <2>2. effectivePort(page) = effectivePort(cred)
      BY <1>1
    <2>3. page.scheme \in {"https", "http"}
      OBVIOUS
    <2> HIDE DEF cred
    <2>4. CASE page.port = NoPort /\ url.port = NoPort
      BY <2>4 DEF SamePort
    <2>5. CASE page.port = NoPort /\ url.port # NoPort
      BY <2>1, <2>2, <2>3, <2>5 DEF SamePort, DefaultPort, effectivePort
    <2>6. CASE page.port # NoPort /\ url.port = NoPort
      BY <2>1, <2>2, <2>3, <2>6 DEF SamePort, DefaultPort, effectivePort
    <2>7. CASE page.port # NoPort /\ url.port # NoPort
      BY <2>1, <2>2, <2>7 DEF SamePort, effectivePort
    <2>8. QED
      BY <2>4, <2>5, <2>6, <2>7
  <1>5. CASE page.host = cred.host
    BY <1>1, <1>3, <1>4, <1>5 DEF IsSite
  <1>6. CASE level = "AllowSubdomains" /\ endsWith(page.host, <<".">> \o cred.host)
    <2>1. page.host \in Seq(STRING) /\ url.host \in Seq(STRING)
      OBVIOUS
    <2>2. \E dot \in DOMAIN page.host :
            page.host[dot] = "." /\ SubSeq(page.host, dot + 1, Len(page.host)) = url.host
      BY <1>3, <1>6, <2>1, EndsWithDot
    <2>3. QED
      BY <1>1, <1>3, <1>4, <1>6, <2>2 DEF IsSite
  <1>7. QED
    BY <1>1, <1>5, <1>6

\* What matches now belongs to the page that asks.
LEMMA MatchesBelong ==
  ASSUME TypeOK, NEW c \in Credential, NEW o \in Page, Matches(c, o)
  PROVE  IsSite(o, vault[c].url, vault[c].level)
  <1>1. vault[c] \in Entry
    BY DEF TypeOK
  <1>2. /\ o \in [scheme: {"https", "http"}, host: Seq(STRING), port: Int]
        /\ vault[c].url \in [scheme: STRING, host: Seq(STRING), port: Int]
        /\ vault[c].level \in Level
    BY <1>1, ExtensionAssumption
  <1>3. QED
    BY <1>2, MatchIsSite DEF Matches

\* Another answer for a host that is at work, or a host that has come further.
LEMMA HostStep ==
  ASSUME IInv, NEW p \in Port, NEW h \in Host \ {"none"}, NEW a \in Answer,
         host[p] \notin {"none", "replied"},
         a.kind = "fill" => IsSite(a.origin, a.entry.url, a.entry.level),
         host' = [host EXCEPT ![p] = h], answer' = [answer EXCEPT ![p] = a],
         done' \subseteq Port, Elsewhere
  PROVE  IInv'
  <1>1. TypeOK'
    BY DEF IInv, TypeOK, Elsewhere, desktopVars, popupVars
  <1>2. FilledWhereItBelongs'
    BY DEF IInv, FilledWhereItBelongs, Elsewhere
  <1>3. AnswersBelong'
    BY DEF IInv, TypeOK, AnswersBelong, Elsewhere
  <1>4. QED
    BY <1>1, <1>2, <1>3 DEF IInv

\* The same without a new answer.
LEMMA HostMoves ==
  ASSUME IInv, NEW p \in Port, NEW h \in Host \ {"none"}, host[p] \notin {"none", "replied"},
         host' = [host EXCEPT ![p] = h], UNCHANGED answer, done' \subseteq Port, Elsewhere
  PROVE  IInv'
  <1>1. answer[p] \in Answer /\ answer' = [answer EXCEPT ![p] = answer[p]]
    BY DEF IInv, TypeOK
  <1>2. answer[p].kind = "fill"
          => IsSite(answer[p].origin, answer[p].entry.url, answer[p].entry.level)
    BY DEF IInv, AnswersBelong
  <1>3. QED
    BY <1>1, <1>2, HostStep

\* A request of the popup takes a port that nothing is left of.
LEMMA RequestSafe ==
  ASSUME IInv, NEW p \in Port, NEW r \in Call, nativeRequest(p, r),
         open' \in BOOLEAN, buttons' \subseteq Button
  PROVE  IInv'
  <1>1. TypeOK'
    BY DEF IInv, TypeOK, nativeRequest, desktopVars, Worker, Host, Status
  <1>2. FilledWhereItBelongs'
    BY DEF IInv, FilledWhereItBelongs, nativeRequest
  <1>3. AnswersBelong'
    BY DEF IInv, TypeOK, AnswersBelong, nativeRequest
  <1>4. QED
    BY <1>1, <1>2, <1>3 DEF IInv

\* The last step of a promise.
LEMMA TellType ==
  ASSUME TypeOK, NEW p \in Port, NEW word \in Status, Tell(p, word)
  PROVE  worker' \in [Port -> Worker] /\ listening' \subseteq Port /\ status' \in Status
  BY DEF TypeOK, Tell, Worker

\* The invariant holds before the popup is opened.
LEMMA Initially ==
  ASSUME Init
  PROVE  IInv
  <1>1. TypeOK
    BY DEF Init, TypeOK, Answer, Status, Worker, Host
  <1>2. FilledWhereItBelongs
    BY DEF Init, FilledWhereItBelongs
  <1>3. AnswersBelong
    BY DEF Init, AnswersBelong, Error
  <1>4. QED
    BY <1>1, <1>2, <1>3 DEF IInv

\* Every step keeps what a page was given, or will be given, where it belongs.
LEMMA Invariance ==
  ASSUME IInv, [Next]_vars
  PROVE  IInv'
  <1> USE DEF desktopVars, popupVars, portVars
  <1>1. CASE closePopup
    BY <1>1 DEF closePopup, IInv, TypeOK, FilledWhereItBelongs, AnswersBelong, Status
  <1>2. CASE lock
    <2> DEFINE connected == {p \in Port : host[p] \in {"line", "pending", "asked"}}
    <2>0. /\ host' = [p \in Port |-> IF p \in connected THEN "answered" ELSE host[p]]
          /\ answer' = [p \in Port |-> IF p \in connected THEN Error ELSE answer[p]]
      BY <1>2 DEF lock
    <2>1. ASSUME NEW p \in Port
          PROVE  \/ answer'[p] = answer[p] /\ host'[p] = host[p]
                 \/ /\ answer'[p] = Error /\ host'[p] = "answered"
                    /\ host[p] \in {"line", "pending", "asked"}
      BY <2>0
    <2>2. TypeOK'
      BY <1>2 DEF lock, IInv, TypeOK, Host, Answer
    <2>3. FilledWhereItBelongs'
      BY <1>2 DEF lock, IInv, FilledWhereItBelongs
    <2>4. AnswersBelong'
      <3>1. UNCHANGED <<call, worker>>
        BY <1>2 DEF lock
      <3>2. Error.kind # "fill"
        BY DEF Error
      <3>3. QED
        BY <2>1, <3>1, <3>2 DEF IInv, AnswersBelong
    <2>5. QED
      BY <2>2, <2>3, <2>4 DEF IInv
  <1>3. CASE unlock
    BY <1>3 DEF unlock, IInv, TypeOK, FilledWhereItBelongs, AnswersBelong
  <1>4. ASSUME NEW o \in Page, navigate(o)
        PROVE  IInv'
    BY <1>4 DEF navigate, IInv, TypeOK, FilledWhereItBelongs, AnswersBelong
  <1>5. ASSUME NEW c \in Credential, NEW e \in Entry, updateCredential(c, e)
        PROVE  IInv'
    BY <1>5 DEF updateCredential, IInv, TypeOK, FilledWhereItBelongs, AnswersBelong
  <1>6. ASSUME NEW p \in Port, refresh(p)
        PROVE  IInv'
    <2>1. PICK c \in Credential :
            nativeRequest(p, [action |-> "list_matches", cred |-> c, origin |-> tab])
      BY <1>6 DEF refresh
    <2>2. [action |-> "list_matches", cred |-> c, origin |-> tab] \in Call
      BY DEF Call, Action, IInv, TypeOK
    <2>3. QED
      BY <1>6, <2>1, <2>2, RequestSafe DEF refresh
  <1>7. ASSUME NEW p \in Port, clipSelection(p)
        PROVE  IInv'
    <2>1. PICK c \in Credential :
            nativeRequest(p, [action |-> "clip", cred |-> c, origin |-> tab])
      BY <1>7 DEF clipSelection
    <2>2. [action |-> "clip", cred |-> c, origin |-> tab] \in Call
      BY DEF Call, Action, IInv, TypeOK
    <2>3. QED
      BY <1>7, <2>1, <2>2, RequestSafe DEF clipSelection, IInv, TypeOK
  <1>8. ASSUME NEW p \in Port, NEW b \in buttons, fillMatch(p, b)
        PROVE  IInv'
    <2>1. b.cred \in Credential /\ b.origin \in Page
      BY DEF IInv, TypeOK, Button
    <2>2. [action |-> "fill", cred |-> b.cred, origin |-> b.origin] \in Call
      BY <2>1 DEF Call, Action
    <2>3. QED
      BY <1>8, <2>2, RequestSafe DEF fillMatch, IInv, TypeOK
  <1>9. ASSUME NEW p \in Port, forwardToDesktop(p)
        PROVE  IInv'
    <2>1. host[p] = "started" /\ Elsewhere /\ done' \subseteq Port
      BY <1>9 DEF forwardToDesktop, IInv, TypeOK
    <2>2. CASE Reply(p, Error)
      BY <2>1, <2>2, HostStep DEF Reply, Error, Answer, Host
    <2>3. CASE host' = [host EXCEPT ![p] = "line"] /\ UNCHANGED answer
      BY <2>1, <2>3, HostMoves DEF Host
    <2>4. QED
      BY <1>9, <2>2, <2>3 DEF forwardToDesktop
  <1>10. ASSUME NEW p \in Port, handleRequest(p)
         PROVE  IInv'
    <2>1. host[p] = "line" /\ Elsewhere /\ done' \subseteq Port
      BY <1>10 DEF handleRequest, IInv, TypeOK
    <2>2. CASE Send(p, Error)
      BY <2>1, <2>2, HostStep DEF Send, Error, Answer, Host
    <2>3. CASE host' = [host EXCEPT ![p] = "pending"] /\ UNCHANGED answer
      BY <2>1, <2>3, HostMoves DEF Host
    <2>4. ASSUME NEW creds \in SUBSET Credential, Send(p, [kind |-> "list", creds |-> creds])
          PROVE  IInv'
      BY <2>1, <2>4, HostStep DEF Send, Answer, Host
    <2>5. \/ Send(p, Error)
          \/ host' = [host EXCEPT ![p] = "pending"] /\ UNCHANGED answer
          \/ \E creds \in SUBSET Credential : Send(p, [kind |-> "list", creds |-> creds])
      <3>1. {c \in Credential : Matches(c, call[p].origin)} \in SUBSET Credential
        OBVIOUS
      <3>2. QED
        BY <1>10, <3>1 DEF handleRequest
    <2>6. QED
      BY <2>2, <2>3, <2>4, <2>5
  <1>11. ASSUME NEW p \in Port, openQuestion(p)
         PROVE  IInv'
    BY <1>11, HostMoves DEF openQuestion, Host, IInv, TypeOK
  <1>12. ASSUME NEW p \in Port, hostAnswers(p)
         PROVE  IInv'
    <2>1. Elsewhere /\ done' \subseteq Port
      BY <1>12 DEF hostAnswers, IInv, TypeOK
    <2>2. CASE host[p] = "answered" /\ Reply(p, answer[p])
      <3>1. answer[p] \in Answer
            /\ (answer[p].kind = "fill"
                  => IsSite(answer[p].origin, answer[p].entry.url, answer[p].entry.level))
        BY DEF IInv, TypeOK, AnswersBelong
      <3>2. QED
        BY <2>1, <2>2, <3>1, HostStep DEF Reply, Host
    <2>3. CASE host[p] \in {"line", "pending", "asked"} /\ Reply(p, Error)
      BY <2>1, <2>3, HostStep DEF Reply, Error, Answer, Host
    <2>4. QED
      BY <1>12, <2>2, <2>3 DEF hostAnswers
  <1>13. ASSUME NEW p \in Port, NEW yes \in BOOLEAN, decide(p, yes)
         PROVE  IInv'
    <2>1. host[p] = "asked" /\ Elsewhere
      BY <1>13 DEF decide
    <2>2. CASE Send(p, Error) /\ done' \subseteq Port
      BY <2>1, <2>2, HostStep DEF Send, Error, Answer, Host
    <2>3. CASE completeClipDecision(p)
      <3>1. done' \subseteq Port
        BY <2>3 DEF completeClipDecision, IInv, TypeOK
      <3>2. CASE Send(p, [kind |-> "saved"])
        BY <2>1, <3>1, <3>2, HostStep DEF Send, Answer, Host
      <3>3. QED
        BY <2>2, <2>3, <3>1, <3>2 DEF completeClipDecision
    <2>4. CASE completeFillDecision(p) /\ UNCHANGED done
      <3>1. done' \subseteq Port
        BY <2>4 DEF IInv, TypeOK
      <3>2. CASE Send(p, Error)
        BY <2>2, <3>1, <3>2
      <3>3. CASE ~Send(p, Error)
        <4> DEFINE r == call[p]
                   a == [kind |-> "fill", cred |-> r.cred, entry |-> vault[r.cred], origin |-> r.origin]
        <4>1. r.cred \in Credential /\ r.origin \in Page /\ vault[r.cred] \in Entry
          BY <2>1 DEF IInv, AnswersBelong, TypeOK, Call
        <4>2. Matches(r.cred, r.origin) /\ Send(p, a)
          BY <2>4, <3>3 DEF completeFillDecision
        <4>3. IsSite(r.origin, vault[r.cred].url, vault[r.cred].level)
          BY <4>1, <4>2, MatchesBelong DEF IInv
        <4>4. a \in Answer
          BY <4>1 DEF Answer, Fill
        <4>5. a.origin = r.origin /\ a.entry = vault[r.cred]
          OBVIOUS
        <4>6. IsSite(a.origin, a.entry.url, a.entry.level)
          BY <4>3, <4>5
        <4>7. host' = [host EXCEPT ![p] = "answered"] /\ answer' = [answer EXCEPT ![p] = a]
          BY <4>2 DEF Send
        <4>8. "answered" \in Host \ {"none"} /\ host[p] \notin {"none", "replied"}
          BY <2>1 DEF Host
        <4> HIDE DEF a
        <4>9. QED
          BY <2>1, <3>1, <4>4, <4>6, <4>7, <4>8, HostStep
      <3>4. QED
        BY <3>2, <3>3
    <2>5. QED
      BY <1>13, <2>2, <2>3, <2>4 DEF decide, IInv, TypeOK
  <1>14. ASSUME NEW p \in Port, onMessage(p)
         PROVE  IInv'
    <2>1. /\ worker[p] = "waiting" /\ host[p] = "replied" /\ answer[p] \in Answer
          /\ UNCHANGED <<desktopVars, tab, form, open, call, host, answer, done>>
      BY <1>14 DEF onMessage, IInv, TypeOK
    <2>2. FilledWhereItBelongs'
      BY <2>1 DEF IInv, FilledWhereItBelongs
    <2>3. CASE answer[p].kind = "fill" /\ worker' = [worker EXCEPT ![p] = "verified"]
               /\ UNCHANGED <<listening, status, buttons>>
      <3>1. TypeOK'
        BY <2>1, <2>3 DEF IInv, TypeOK, Worker
      <3>2. AnswersBelong'
        BY <2>1, <2>3 DEF IInv, TypeOK, AnswersBelong
      <3>3. QED
        BY <2>2, <3>1, <3>2 DEF IInv
    <2>4. ASSUME NEW word \in Status, Tell(p, word), buttons' \subseteq Button
          PROVE  IInv'
      <3>1. TypeOK'
        BY <2>1, <2>4, TellType DEF IInv, TypeOK
      <3>2. AnswersBelong'
        BY <2>1, <2>4 DEF IInv, TypeOK, AnswersBelong, Tell
      <3>3. QED
        BY <2>2, <3>1, <3>2 DEF IInv
    <2>5. \A c \in Credential : [cred |-> c, origin |-> call[p].origin] \in Button
      BY <2>1 DEF IInv, AnswersBelong, Call, Button
    <2>6. answer[p].kind = "list" => answer[p].creds \subseteq Credential
      BY <2>1 DEF Answer, Error, Fill
    <2>7. CASE Tell(p, "error") /\ UNCHANGED buttons
      BY <2>4, <2>7 DEF Status, IInv, TypeOK
    <2>8. CASE Tell(p, Word(answer[p]))
               /\ buttons' = IF answer[p].kind = "list" /\ p \in listening
                             THEN buttons \union {[cred |-> c, origin |-> call[p].origin] : c \in answer[p].creds}
                             ELSE buttons
      <3>1. Word(answer[p]) \in Status
        BY DEF Word, Status
      <3>2. buttons' \subseteq Button
        BY <2>5, <2>6, <2>8 DEF IInv, TypeOK
      <3>3. QED
        BY <2>4, <2>8, <3>1, <3>2
    <2>9. QED
      BY <1>14, <2>3, <2>7, <2>8 DEF onMessage
  <1>15. ASSUME NEW p \in Port, onTimeout(p)
         PROVE  IInv'
    <2>1. TypeOK'
      BY <1>15, TellType DEF onTimeout, IInv, TypeOK, Status
    <2>2. QED
      BY <1>15, <2>1 DEF onTimeout, Tell, IInv, TypeOK, FilledWhereItBelongs, AnswersBelong
  <1>16. ASSUME NEW p \in Port, Forget(p), worker' = [worker EXCEPT ![p] = "idle"],
                listening' \subseteq Port, status' \in Status,
                UNCHANGED <<desktopVars, tab, form, popupVars>>
         PROVE  IInv'
    <2>1. TypeOK'
      BY <1>16 DEF Forget, IInv, TypeOK, Answer, Host, Worker
    <2>2. FilledWhereItBelongs'
      BY <1>16 DEF IInv, FilledWhereItBelongs
    <2>3. AnswersBelong'
      BY <1>16 DEF Forget, IInv, TypeOK, AnswersBelong, Error
    <2>4. QED
      BY <2>1, <2>2, <2>3 DEF IInv
  <1>17. ASSUME NEW p \in Port, hostExits(p)
         PROVE  IInv'
    <2>1. worker' = [worker EXCEPT ![p] = "idle"]
      BY <1>17 DEF hostExits, IInv, TypeOK
    <2>2. QED
      BY <1>16, <1>17, <2>1 DEF hostExits, IInv, TypeOK
  <1>18. ASSUME NEW p \in Port, hostDies(p)
         PROVE  IInv'
    <2>1. worker' = [worker EXCEPT ![p] = "idle"]
      BY <1>18 DEF hostDies, Tell
    <2>2. listening' \subseteq Port /\ status' \in Status
      BY <1>18, TellType DEF hostDies, IInv, Status
    <2>3. QED
      BY <1>16, <1>18, <2>1, <2>2 DEF hostDies
  <1>19. ASSUME NEW p \in Port, fillOnPage(p)
         PROVE  IInv'
    <2>1. /\ worker[p] = "verified" /\ answer[p] \in Answer /\ answer[p].kind = "fill"
          /\ UNCHANGED <<desktopVars, tab, popupVars, call, host, answer>>
      BY <1>19 DEF fillOnPage, IInv, TypeOK, AnswersBelong
    <2>2. answer[p] \in Fill /\ answer[p] # NoFill
      BY <2>1 DEF Answer, Error, NoFill
    <2>3. CASE tab = answer[p].origin /\ form' = answer[p] /\ done' = done \union {p}
               /\ Tell(p, "filled")
      <3>1. TypeOK'
        BY <2>1, <2>2, <2>3, TellType DEF IInv, TypeOK, Status
      <3>2. FilledWhereItBelongs'
        BY <2>1, <2>3 DEF IInv, AnswersBelong, FilledWhereItBelongs
      <3>3. AnswersBelong'
        BY <2>1, <2>3 DEF IInv, TypeOK, AnswersBelong, Tell
      <3>4. QED
        BY <3>1, <3>2, <3>3 DEF IInv
    <2>4. CASE Tell(p, "error") /\ UNCHANGED <<form, done>>
      <3>1. TypeOK'
        BY <2>1, <2>4, TellType DEF IInv, TypeOK, Status
      <3>2. QED
        BY <2>1, <2>4, <3>1 DEF IInv, TypeOK, FilledWhereItBelongs, AnswersBelong, Tell
    <2>5. QED
      BY <1>19, <2>3, <2>4 DEF fillOnPage
  <1>20. CASE UNCHANGED vars
    BY <1>20 DEF vars, IInv, TypeOK, FilledWhereItBelongs, AnswersBelong
  <1>21. QED
    BY <1>1, <1>2, <1>3, <1>4, <1>5, <1>6, <1>7, <1>8, <1>9, <1>10, <1>11, <1>12, <1>13,
       <1>14, <1>15, <1>17, <1>18, <1>19, <1>20 DEF Next

\* Every reachable state satisfies the inductive invariant.
LEMMA Inductive == Spec => []IInv
  BY Initially, Invariance, PTL DEF Spec

\* Every reachable state is well typed.
THEOREM Typing == Spec => []TypeOK
  <1>1. IInv => TypeOK
    BY DEF IInv
  <1>2. QED
    BY <1>1, Inductive, PTL

\* A login is only ever filled into a page of the site it was written for.
THEOREM Belonging == Spec => []FilledWhereItBelongs
  <1>1. IInv => FilledWhereItBelongs
    BY DEF IInv
  <1>2. QED
    BY <1>1, Inductive, PTL

----------------------------------------------------------------------------
(* What the popup says.                                                    *)

\* An answer that a clip was saved stands for a note that was created.
SavedIsDone == \A p \in Port : answer[p].kind = "saved" => p \in done

\* What a step does to the answer of a port and to what was carried out for it.
Carried(p) ==
  \/ answer'[p].kind # "saved"
  \/ answer'[p] = answer[p] /\ (p \in done => p \in done')
  \/ p \in done'

\* Sending another answer than "saved" to q.
LEMMA OtherAnswer ==
  ASSUME TypeOK, NEW q \in Port, NEW a, a.kind # "saved", answer' = [answer EXCEPT ![q] = a],
         done' = done, NEW p \in Port
  PROVE  Carried(p)
  <1>1. CASE p = q
    BY <1>1 DEF TypeOK, Carried
  <1>2. CASE p # q
    BY <1>2 DEF TypeOK, Carried
  <1>3. QED
    BY <1>1, <1>2

\* Every step carries out what it says it saved, and forgets both together.
LEMMA EveryStepCarries ==
  ASSUME IInv, [Next]_vars, NEW p \in Port
  PROVE  Carried(p)
  <1> USE DEF portVars
  <1>0. TypeOK /\ Error.kind # "saved"
    BY DEF IInv, Error
  <1>1. CASE UNCHANGED <<answer, done>>
    BY <1>1 DEF Carried
  <1>2. CASE closePopup \/ unlock
    BY <1>1, <1>2 DEF closePopup, unlock
  <1>3. CASE lock
    BY <1>0, <1>3 DEF lock, Carried
  <1>4. ASSUME NEW o \in Page, navigate(o) PROVE Carried(p)
    BY <1>1, <1>4 DEF navigate
  <1>5. ASSUME NEW c \in Credential, NEW e \in Entry, updateCredential(c, e) PROVE Carried(p)
    BY <1>1, <1>5 DEF updateCredential
  <1>6. ASSUME NEW q \in Port, refresh(q) \/ clipSelection(q) \/ \E b \in buttons : fillMatch(q, b)
        PROVE  Carried(p)
    BY <1>1, <1>6 DEF refresh, clipSelection, fillMatch, nativeRequest
  <1>7. ASSUME NEW q \in Port, forwardToDesktop(q) PROVE Carried(p)
    BY <1>0, <1>1, <1>7, OtherAnswer DEF forwardToDesktop, Reply
  <1>8. ASSUME NEW q \in Port, handleRequest(q) PROVE Carried(p)
    <2>1. /\ done' = done
          /\ \/ UNCHANGED answer
             \/ Send(q, Error)
             \/ Send(q, [kind |-> "list", creds |-> {c \in Credential : Matches(c, call[q].origin)}])
      BY <1>8 DEF handleRequest
    <2>2. QED
      BY <1>0, <1>1, <2>1, OtherAnswer DEF Send
  <1>9. ASSUME NEW q \in Port, openQuestion(q) PROVE Carried(p)
    BY <1>1, <1>9 DEF openQuestion
  <1>10. ASSUME NEW q \in Port, hostAnswers(q) PROVE Carried(p)
    <2>1. CASE Reply(q, answer[q]) /\ done' = done
      <3>1. answer'[p] = answer[p]
        BY <1>0, <2>1 DEF Reply, TypeOK
      <3>2. QED
        BY <2>1, <3>1 DEF Carried
    <2>2. QED
      BY <1>0, <1>10, <2>1, OtherAnswer DEF hostAnswers, Reply
  <1>11. ASSUME NEW q \in Port, NEW yes \in BOOLEAN, decide(q, yes) PROVE Carried(p)
    <2>1. CASE Send(q, Error) /\ done' = done
      BY <1>0, <2>1, OtherAnswer DEF Send
    <2>2. CASE Send(q, [kind |-> "saved"]) /\ done' = done \union {q}
      <3>1. CASE p = q
        BY <2>2, <3>1 DEF Carried
      <3>2. CASE p # q
        BY <1>0, <2>2, <3>2 DEF Carried, Send, TypeOK
      <3>3. QED
        BY <3>1, <3>2
    <2>3. CASE completeFillDecision(q) /\ done' = done
      BY <1>0, <2>3, OtherAnswer DEF completeFillDecision, Send
    <2>4. QED
      BY <1>11, <2>1, <2>2, <2>3 DEF decide, completeClipDecision
  <1>12. ASSUME NEW q \in Port, onMessage(q) \/ onTimeout(q) PROVE Carried(p)
    BY <1>1, <1>12 DEF onMessage, onTimeout
  <1>13. ASSUME NEW q \in Port, Forget(q) PROVE Carried(p)
    BY <1>0, <1>13 DEF Forget, Carried, TypeOK
  <1>14. ASSUME NEW q \in Port, fillOnPage(q) PROVE Carried(p)
    BY <1>14 DEF fillOnPage, Carried, Tell
  <1>15. CASE UNCHANGED vars
    BY <1>1, <1>15 DEF vars
  <1>16. QED
    BY <1>2, <1>3, <1>4, <1>5, <1>6, <1>7, <1>8, <1>9, <1>10, <1>11, <1>12, <1>13, <1>14, <1>15
       DEF Next, hostExits, hostDies

\* When a request of the popup is settled with good news, that news is true.
LEMMA GoodNews ==
  ASSUME IInv, SavedIsDone, [Next]_vars,
         NEW p \in listening \ listening', status' \in {"filled", "clipped"}
  PROVE  p \in done'
  <1>0. p \in Port
    BY DEF IInv, TypeOK
  <1>1. CASE listening \subseteq listening' \/ status' \in {"", "error", "listed"}
    BY <1>1
  <1>2. CASE closePopup \/ lock \/ unlock \/ UNCHANGED vars
    BY <1>1, <1>2 DEF closePopup, lock, unlock, vars
  <1>3. ASSUME NEW o \in Page, navigate(o) PROVE FALSE
    BY <1>3 DEF navigate
  <1>4. ASSUME NEW c \in Credential, NEW e \in Entry, updateCredential(c, e) PROVE FALSE
    BY <1>4 DEF updateCredential
  <1>5. ASSUME NEW q \in Port, refresh(q) \/ clipSelection(q) \/ \E b \in buttons : fillMatch(q, b)
        PROVE  FALSE
    BY <1>5 DEF refresh, clipSelection, fillMatch, nativeRequest
  <1>6. ASSUME NEW q \in Port, Elsewhere PROVE FALSE
    BY <1>6 DEF Elsewhere
  <1>7. ASSUME NEW q \in Port, NEW word, Tell(q, word) PROVE p = q /\ status' = word
    BY <1>7 DEF Tell
  <1>8. ASSUME NEW q \in Port, onMessage(q) PROVE p \in done'
    <2>1. UNCHANGED <<answer, done>>
      BY <1>8 DEF onMessage
    <2>2. CASE UNCHANGED <<listening, status>>
      BY <2>2
    <2>3. CASE Tell(q, "error")
      BY <1>7, <2>3
    <2>4. CASE Tell(q, Word(answer[q]))
      <3>1. p = q /\ Word(answer[q]) \in {"filled", "clipped"}
        BY <1>7, <2>4
      <3>2. answer[q].kind = "saved"
        BY <3>1 DEF Word
      <3>3. QED
        BY <1>0, <2>1, <3>1, <3>2 DEF SavedIsDone
    <2>5. QED
      BY <1>8, <2>2, <2>3, <2>4 DEF onMessage
  <1>9. ASSUME NEW q \in Port, onTimeout(q) \/ hostDies(q) PROVE FALSE
    BY <1>7, <1>9 DEF onTimeout, hostDies
  <1>10. ASSUME NEW q \in Port, hostExits(q) PROVE FALSE
    BY <1>10 DEF hostExits
  <1>11. ASSUME NEW q \in Port, fillOnPage(q) PROVE p \in done'
    <2>1. CASE Tell(q, "error")
      BY <1>7, <2>1
    <2>2. CASE Tell(q, "filled") /\ done' = done \union {q}
      BY <1>7, <2>2
    <2>3. QED
      BY <1>11, <2>1, <2>2 DEF fillOnPage
  <1>12. QED
    BY <1>2, <1>3, <1>4, <1>5, <1>6, <1>8, <1>9, <1>10, <1>11
       DEF Next, forwardToDesktop, handleRequest, openQuestion, hostAnswers, decide

\* The popup does not say that a login was filled or a clip sent when it was not,
\* although the port is used again and its host, timer, question and page race
\* (background.js nativeRequest and fillCredentials, popup.js).
THEOREM Said == Spec => SaidIsDone
  <1>1. Init => SavedIsDone
    <2>1. Error.kind # "saved"
      BY DEF Error
    <2>2. QED
      BY <2>1 DEF Init, SavedIsDone
  <1>2. IInv /\ SavedIsDone /\ [Next]_vars => SavedIsDone'
    <2> SUFFICES ASSUME IInv, SavedIsDone, [Next]_vars, NEW p \in Port, answer'[p].kind = "saved"
                 PROVE  p \in done'
      BY DEF SavedIsDone
    <2>1. Carried(p)
      BY EveryStepCarries
    <2>2. QED
      BY <2>1 DEF SavedIsDone, Carried
  <1>3. IInv /\ SavedIsDone /\ [Next]_vars
          => [\A p \in listening \ listening' : status' \in {"filled", "clipped"} => p \in done']_vars
    BY GoodNews
  <1>4. QED
    BY <1>1, <1>2, <1>3, Inductive, PTL DEF Spec, SaidIsDone
=============================================================================
