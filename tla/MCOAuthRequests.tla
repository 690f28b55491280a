---- MODULE MCOAuthRequests ----
(* Two requests, a server with metadata of the resource and one that has   *)
(* the openid-configuration only, and configurations that differ in what   *)
(* decides about the token.                                                *)
EXTENDS OAuthRequests

CONSTANTS r1, r2, full, bare, nobody, nodoc

MCOffers == [i \in Issuers |-> 
  IF i = full THEN {"openid-configuration", "protected-resource"} ELSE {"openid-configuration"}]

Plain == [requireOAuth |-> TRUE, issuer |-> bare, mode |-> "", strategy |-> "",
          valid |-> TRUE, sts |-> FALSE, target |-> ""]

MCStatics ==
  { [Plain EXCEPT !.requireOAuth = FALSE, !.issuer = nobody],
    [Plain EXCEPT !.strategy = "known"],
    [Plain EXCEPT !.sts = TRUE],
    [Plain EXCEPT !.issuer = nobody, !.strategy = "unknown", !.target = "known"],
    [Plain EXCEPT !.strategy = "known", !.valid = FALSE, !.target = "unknown"] }
====
