---------------------------- MODULE OAuthRequests ----------------------------
(***************************************************************************)
(* Requests to the HTTP server, for well-known documents and for tool      *)
(* calls, while SIGHUP replaces the OAuth snapshot between their steps.    *)
(***************************************************************************)
EXTENDS WellKnown, OAuthCalls

vars == <<state, wellKnown, calls>>

Places == {"idle", "answered"} \cup WellKnownPlaces \cup CallPlaces

TypeOK == StateTypeOK(Places) /\ WellKnownTypeOK /\ CallsTypeOK

\* The first snapshot is made from the configuration of the start (root.go).
Init ==
  /\ StateInit
  /\ WellKnownInit
  /\ CallsInit
  /\ snapshot.issuer = static.issuer

Reload == Store /\ UNCHANGED <<wellKnown, calls>>

\* The handler has answered, and what the request had in hand is gone.
Finish(r) ==
  /\ Return(r)
  /\ endpoint' = [endpoint EXCEPT ![r] = "authorization-server"]
  /\ found' = [found EXCEPT ![r] = NoDocument]
  /\ header' = [header EXCEPT ![r] = NoToken]
  /\ config' = [config EXCEPT ![r] = NoIssuer]
  /\ UNCHANGED <<cache, flights, static, sts>>

Ask(r) ==
  \/ (\E e \in Endpoints : AskDocument(r, e)) /\ UNCHANGED calls
  \/ (\E i \in Issuers : AskCall(r, [by |-> "client", issuer |-> i])) /\ UNCHANGED wellKnown
  \/ AskCall(r, NoToken) /\ UNCHANGED wellKnown

DocumentStep(r) ==
  \/ DirectFetch(r) \/ DirectMissing(r) \/ DirectFails(r)
  \/ LoadURL(r) \/ CacheHit(r) \/ CacheMiss(r) \/ JoinFlight(r)
  \/ Generate(r) \/ Override(r)

CallStep(r) ==
  \/ Unauthorized(r) \/ LoadVerifier(r) \/ Unavailable(r)
  \/ Verified(r) \/ NotVerified(r)
  \/ LoadForExchange(r) \/ StsConfig(r) \/ Exchange(r) \/ ExchangeFails(r)
  \/ DeriveOwn(r) \/ DeriveRefused(r) \/ DeriveBearer(r)

Step(r) ==
  \/ DocumentStep(r) /\ UNCHANGED calls
  \/ CallStep(r) /\ UNCHANGED wellKnown
  \/ Finish(r)

\* A fetch is given up after 30 seconds.
FlightEnds(u) == (FlightFails(u) \/ FlightLands(u)) /\ UNCHANGED calls

Expire == CacheExpires /\ UNCHANGED calls

Next ==
  \/ Reload \/ Expire
  \/ \E r \in Requests : Ask(r) \/ Step(r)
  \/ \E u \in Issuers \cup {NoIssuer} : FlightEnds(u)

Spec == Init /\ [][Next]_vars

\* Where a request waits for a server that it has asked itself, and may wait for
\* as long as its client does.
Remote == {"direct", "verify", "exchange"}

\* A goroutine that can go on does, and so does a fetch for several requests,
\* which has a timeout and does not end with the client that began it.  No server
\* need answer, no request arrive, and no reload.
FairSpec ==
  /\ Spec
  /\ \A r \in Requests : WF_vars(at[r] \notin Remote /\ Step(r))
  /\ \A u \in Issuers \cup {NoIssuer} : WF_vars(FlightEnds(u))

-----------------------------------------------------------------------------

\* The document a request is answered with is that of an authorization server
\* configured at some time during the request, although the URL, the HTTP
\* client and the overrides are loaded apart, and documents are cached and
\* shared (wellknown.go ServeHTTP, fetchOpenIDConfiguration).
DocumentOfConfiguredIssuer ==
  \A r \in Requests : at[r] = "answered" /\ found[r] # NoDocument =>
    found[r].issuer \in IssuersSeen(r)

\* A document lacks the registration endpoint of the server only if dynamic
\* registration was disabled at some time during the request, and never because
\* an earlier request was answered so (copyMap, applyConfigOverrides).
OverridesNotSticky ==
  \A r \in Requests :
    /\ at[r] = "answered" /\ found[r] # NoDocument
    /\ endpoint[r] = "authorization-server"
    /\ ~found[r].registration
    => \E s \in seen[r] : s.noRegistration

\* A server started with an authorization URL lets no token pass unless an
\* issuer configured during the request made it, whatever the reloads between
\* validation and exchange: in particular not while the provider is missing
\* (AuthorizationMiddleware).
VerifiedByConfigured ==
  \A r \in Requests :
    /\ at[r] \in {"authorized", "configure", "exchange"}
    /\ static.requireOAuth /\ static.issuer # NoIssuer
    => header[r].by = "client" /\ header[r].issuer \in IssuersSeen(r)

\* A user's token is given to be exchanged only to an issuer configured during
\* the request, although the STS configuration is cached across reloads
\* (getOrBuildStsConfig, strategyBasedTokenExchange).
ExchangedWhereConfigured ==
  \A r \in Requests : header[r].by = "exchange" => header[r].issuer \in IssuersSeen(r)

\* The credential the cluster sees: the server's own in kubeconfig mode and
\* never otherwise; the user's token as it came never where a strategy says
\* it is exchanged, and with the built-in exchange only if a reload took the
\* authorization URL away during the request (ExchangeTokenInContext, Derived).
ClusterCredential ==
  \A r \in Requests : at[r] \in {"derive", "answered"} =>
    LET by == header[r].by
    IN /\ by = "server" => AuthMode(static) = "kubeconfig"
       /\ by = "client" => /\ AuthMode(static) = "passthrough"
                           /\ static.strategy = ""
                           /\ static.sts => NoIssuer \in IssuersSeen(r)

\* Every request is answered, those that wait for another's fetch too, unless a
\* server that it has asked itself never answers.
EveryRequestAnswered ==
  \A r \in Requests :
    []<>(at[r] \notin Remote) => (at[r] # "idle" ~> at[r] = "answered")
=============================================================================
