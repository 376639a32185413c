--------------------------- MODULE OriginMatcher ---------------------------
(***************************************************************************)
(* Whether a page may be filled from a credential (bridge/OriginMatcher).  *)
(* A URL is what QUrl makes of a text: its scheme, its host and its port.  *)
(* A host is a sequence of pieces, the letters between dots and the dots   *)
(* themselves, a piece of letters being split where the end of another     *)
(* host may come: "myexample.com" is <<"my", "example", ".", "com">>.  *)
(* Hosts are in lower case already (normalizeHost).                        *)
(***************************************************************************)
EXTENDS Integers, Sequences

Level == {"ManualOnly", "ExactOrigin", "UsernameOnly", "AllowSubdomains"}
fillTrustAllowsSubdomains(level) == level = "AllowSubdomains"

NoPort == -1
Nowhere == [scheme |-> "other", host |-> <<>>, port |-> NoPort]

effectivePort(url) ==
  CASE url.port # NoPort -> url.port
    [] url.port = NoPort /\ url.scheme = "https" -> 443
    [] url.port = NoPort /\ url.scheme = "http" -> 80
    [] OTHER -> NoPort

\* The scheme "" is none: https is put before the text.  But in "host:8443"
\* QUrl takes the host for a scheme, and is content.
normalizeCredentialUrl(url) ==
  CASE url.scheme # "" -> url
    [] url.scheme = "" /\ url.port = NoPort -> [url EXCEPT !.scheme = "https"]
    [] OTHER -> Nowhere

\* QString::endsWith.
endsWith(host, end) ==
  /\ Len(end) <= Len(host)
  /\ SubSeq(host, Len(host) - Len(end) + 1, Len(host)) = end

\* An invalid or empty URL has no host.
pageOriginMatchesCredentialUrl(page, url, level) ==
  LET cred == normalizeCredentialUrl(url) IN
  /\ level # "ManualOnly"
  /\ page.scheme \in {"https", "http"}
  /\ page.host # <<>> /\ cred.host # <<>>
  /\ page.scheme = cred.scheme
  /\ effectivePort(page) = effectivePort(cred)
  /\ \/ page.host = cred.host
     \/ fillTrustAllowsSubdomains(level) /\ endsWith(page.host, <<".">> \o cred.host)

----------------------------------------------------------------------------
(* What is meant: a credential belongs to the site it was written for.     *)

DefaultPort(scheme) == IF scheme = "https" THEN 443 ELSE 80
SamePort(p, q, scheme) ==
  (IF p = NoPort THEN DefaultPort(scheme) ELSE p) = (IF q = NoPort THEN DefaultPort(scheme) ELSE q)

\* The page is the credential's own host, or a subdomain of it: what comes
\* after one of the dots of the page's host is the credential's host.
IsSite(page, url, level) ==
  /\ level # "ManualOnly"
  /\ page.scheme = (IF url.scheme = "" THEN "https" ELSE url.scheme)
  /\ SamePort(page.port, url.port, page.scheme)
  /\ \/ page.host = url.host
     \/ /\ level = "AllowSubdomains"
        /\ \E dot \in DOMAIN page.host :
             page.host[dot] = "." /\ SubSeq(page.host, dot + 1, Len(page.host)) = url.host
=============================================================================
