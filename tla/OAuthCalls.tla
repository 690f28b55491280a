------------------------------ MODULE OAuthCalls ------------------------------
(***************************************************************************)
(* A tool call over HTTP, from the Authorization header to the credential  *)
(* the cluster sees: the middleware that validates the token, the provider *)
(* that exchanges it, and the manager that derives a client from it.       *)
(*                                                                         *)
(* The middleware and the provider keep the configuration of the start; a  *)
(* reload reaches them only through the snapshot.  Where the two disagree  *)
(* is what this module is about.  Tokens are told apart by who issued      *)
(* them; an expired or malformed one is refused, which may always happen.  *)
(***************************************************************************)
EXTENDS OAuthState

CONSTANTS Statics   \* the configurations the server may be started with

\* A bearer token: who made it, and for which issuer's users.
Bearer == [by: {"client", "exchange", "target"}, issuer: Issuers]
NoToken == [by |-> "nobody", issuer |-> NoIssuer]
Blank == [by |-> "blank", issuer |-> NoIssuer]     \* "Bearer " with nothing after it
ServerOwn == [by |-> "server", issuer |-> NoIssuer]
Credential == Bearer \cup {NoToken, Blank, ServerOwn}

Static == [requireOAuth: BOOLEAN, issuer: Issuers \cup {NoIssuer},
           mode: {"", "kubeconfig", "passthrough"},
           strategy: {"", "known", "unknown"},  \* token_exchange_strategy
           valid: BOOLEAN,                      \* sts_auth_style and its files
           sts: BOOLEAN,                        \* sts_client_id and sts_audience
           target: {"", "known", "unknown"}]    \* what the provider has per target

\* What StaticConfig.Validate and ValidateClusterAuthMode let through.
Accepted(s) ==
  LET exchange == s.strategy # "" \/ s.sts
  IN /\ s.issuer # NoIssuer \/ s.mode = "passthrough" \/ exchange => s.requireOAuth
     /\ ~(s.mode = "kubeconfig" /\ exchange)

ASSUME StaticsAssumption == \A s \in Statics : s \in Static /\ Accepted(s)

VARIABLES
  static,      \* the configuration the server was started with
  header,      \* the token in the context of each request; what it ends with
  config,      \* the STS configuration in hand: its issuer, whose token URL it has
  sts          \* the one the provider has cached

calls == <<static, header, config, sts>>

CallPlaces == {"auth", "verify", "authorized", "configure", "exchange", "derive"}

CallsTypeOK ==
  /\ static \in Statics
  /\ header \in [Requests -> Credential]
  /\ config \in [Requests -> Issuers \cup {NoIssuer}]
  /\ sts \in Issuers \cup {NoIssuer}

CallsInit ==
  /\ static \in Statics
  /\ header = [r \in Requests |-> NoToken]
  /\ config = [r \in Requests |-> NoIssuer]
  /\ sts = NoIssuer

\* ResolveClusterAuthMode.
AuthMode(s) ==
  IF s.mode # "" THEN s.mode ELSE IF s.requireOAuth THEN "passthrough" ELSE "kubeconfig"

-----------------------------------------------------------------------------
(* AuthorizationMiddleware                                                  *)

\* A call arrives, with a token or without.  Without OAuth it is let through,
\* and the MCP layer takes the token from the headers all the same.
AskCall(r, token) ==
  /\ Begin(r, IF static.requireOAuth THEN "auth" ELSE "authorized")
  /\ header' = [header EXCEPT ![r] = token]
  /\ UNCHANGED <<static, config, sts>>

Refuse(r, from) ==
  /\ Move(r, from, "answered")
  /\ header' = [header EXCEPT ![r] = NoToken]
  /\ UNCHANGED <<static, config, sts>>

\* No bearer token, or one that does not parse, is expired, or names another
\* audience.
Unauthorized(r) == Refuse(r, "auth")

\* A defect: a server without a provider accepts whatever it was started with.
LoadVerifierLax(r) ==
  /\ header[r] # NoToken
  /\ Load(r, "auth", IF snapshot.issuer # NoIssuer THEN "verify" ELSE "authorized")
  /\ UNCHANGED calls

\* The snapshot is loaded, and its provider validates the token; a server
\* started without an authorization URL does without one.
LoadVerifier(r) ==
  /\ header[r] # NoToken
  /\ snapshot.issuer # NoIssuer \/ static.issuer = NoIssuer
  /\ Load(r, "auth", IF snapshot.issuer # NoIssuer THEN "verify" ELSE "authorized")
  /\ UNCHANGED calls

\* A server started with one refuses while there is no provider.
Unavailable(r) ==
  /\ snapshot.issuer = NoIssuer /\ static.issuer # NoIssuer
  /\ Refuse(r, "auth")

\* ValidateWithProvider: the provider knows its own tokens, if it answers.
Verified(r) ==
  /\ header[r].issuer = url[r]
  /\ Move(r, "verify", "authorized")
  /\ UNCHANGED calls

NotVerified(r) == Refuse(r, "verify")

-----------------------------------------------------------------------------
(* tokenExchangingProvider.GetDerivedKubernetes                             *)

\* It loads the snapshot anew ...
LoadForExchange(r) ==
  /\ Load(r, "authorized", "configure")
  /\ UNCHANGED calls

\* A defect: the cached configuration is not checked against the token URL.
StsConfigAnyURL(r) ==
  /\ Move(r, "configure", "exchange")
  /\ LET wanted == static.strategy # "" /\ url[r] # NoIssuer /\ static.valid
         current == IF sts # NoIssuer THEN sts ELSE url[r]
     IN /\ sts' = IF wanted THEN current ELSE sts
        /\ config' = [config EXCEPT ![r] = IF wanted THEN current ELSE NoIssuer]
  /\ UNCHANGED <<static, header>>

\* ... takes the cached STS configuration, or makes one for a token URL that
\* is new (getOrBuildStsConfig) ...
StsConfig(r) ==
  /\ Move(r, "configure", "exchange")
  /\ LET wanted == static.strategy # "" /\ url[r] # NoIssuer /\ (sts = url[r] \/ static.valid)
     IN /\ sts' = IF wanted THEN url[r] ELSE sts
        /\ config' = [config EXCEPT ![r] = IF wanted THEN url[r] ELSE NoIssuer]
  /\ UNCHANGED <<static, header>>

\* ... and finds out what is to become of the token: ExchangeTokenInContext,
\* stsExchangeTokenInContext and exchangePassthroughToken.
Plan(r) ==
  IF header[r] = NoToken THEN "nothing"
  ELSE IF static.target = "known" THEN "target"
  ELSE IF AuthMode(static) = "kubeconfig" THEN "clear"
  ELSE IF static.strategy = "unknown" THEN "fail"
  ELSE IF static.strategy = "known"
    THEN IF config[r] # NoIssuer \/ (url[r] # NoIssuer /\ static.valid) THEN "strategy" ELSE "fail"
  ELSE IF static.sts /\ url[r] # NoIssuer THEN "sts" ELSE "nothing"

\* Whom it asks: the cached configuration comes first.
AskedIssuer(r) == IF config[r] # NoIssuer THEN config[r] ELSE url[r]

Exchanged(r) ==
  CASE Plan(r) = "target"   -> [by |-> "target", issuer |-> header[r].issuer]
    [] Plan(r) = "strategy" -> [by |-> "exchange", issuer |-> AskedIssuer(r)]
    [] Plan(r) = "sts"      -> [by |-> "exchange", issuer |-> url[r]]
    [] Plan(r) = "clear"    -> NoToken
    [] OTHER                -> header[r]

\* The answer to an exchange is a token, or has none in it (Blank).
Exchange(r) ==
  /\ Plan(r) # "fail"
  /\ Move(r, "exchange", "derive")
  /\ \E token \in {Exchanged(r)} \cup
                  (IF Plan(r) \in {"target", "strategy"} THEN {Blank} ELSE {}) :
       header' = [header EXCEPT ![r] = token]
  /\ UNCHANGED <<static, config, sts>>

\* A defect: a failed exchange leaves the token as it was.
ExchangeFailsOpen(r) ==
  /\ Plan(r) \in {"target", "strategy", "sts", "fail"}
  /\ Move(r, "exchange", "derive")
  /\ UNCHANGED calls

\* The strategy is unknown, there is no token URL, or the exchange fails.
ExchangeFails(r) ==
  /\ Plan(r) \in {"target", "strategy", "sts", "fail"}
  /\ Refuse(r, "exchange")

-----------------------------------------------------------------------------
(* Manager.Derived                                                          *)

HasToken(r) == header[r] # NoToken

\* Without a token: the client of the server, unless the user's is wanted.
DeriveOwn(r) ==
  /\ ~HasToken(r) /\ AuthMode(static) # "passthrough"
  /\ Move(r, "derive", "answered")
  /\ header' = [header EXCEPT ![r] = ServerOwn]
  /\ UNCHANGED <<static, config, sts>>

\* (The middleware lets no call get here without a token when OAuth is
\* required; Derived relies on nobody for that.)
DeriveRefused(r) ==
  /\ ~HasToken(r) /\ AuthMode(static) = "passthrough"
  /\ Refuse(r, "derive")

\* With a token: a client that has it and no other credential.
DeriveBearer(r) ==
  /\ HasToken(r)
  /\ Move(r, "derive", "answered")
  /\ UNCHANGED calls
=============================================================================
