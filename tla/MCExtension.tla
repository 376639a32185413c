---------------------------- MODULE MCExtension ----------------------------
(* A small instance of Extension: a subdomain of example.com, a page that   *)
(* only ends like it, and one credential for example.com, which may or may   *)
(* not be used on subdomains.                                               *)
EXTENDS Extension, TLC

example == <<"example", ".", "com">>
app == <<"app", ".">> \o example
At(scheme, name, n) == [scheme |-> scheme, host |-> name, port |-> n]

MCPage == {At("https", app, NoPort), At("https", <<"my">> \o example, NoPort)}
MCEntry == {[url |-> At("", example, NoPort), level |-> "AllowSubdomains"],
            [url |-> At("https", example, 443), level |-> "ExactOrigin"]}
=============================================================================
