------------------------------ MODULE WellKnown ------------------------------
(***************************************************************************)
(* The proxy for /.well-known documents.  It asks the authorization server *)
(* for the document; where the server has none it makes one from the       *)
(* server's openid-configuration, which is cached, and fetched by one      *)
(* request for all that miss the cache (singleflight).  What the           *)
(* configuration disables is then taken out of the document.               *)
(*                                                                         *)
(* Every fetch may fail.  The client to fetch with is loaded apart from    *)
(* the URL; one that does not fit makes the fetch fail as well.            *)
(***************************************************************************)
EXTENDS OAuthState

CONSTANTS
  Offers,      \* [Issuers -> the documents a server has]
  NoDocument

Endpoints == {"authorization-server", "protected-resource", "openid-configuration"}

\* A document: whose it is, and whether it names a registration endpoint.
Document == [issuer: Issuers, registration: BOOLEAN]

ASSUME WellKnownAssumption ==
  /\ Offers \in [Issuers -> SUBSET Endpoints]
  /\ NoDocument \notin Document

Upstream(u) == [issuer |-> u, registration |-> TRUE]

\* The openid-configuration serves as metadata of the authorization server;
\* metadata of the resource copies some of its fields.
Generated(endpoint, d) ==
  IF endpoint = "authorization-server" THEN d ELSE [d EXCEPT !.registration = FALSE]

VARIABLES
  endpoint,    \* the document each request asks for
  found,       \* the document it has found
  cache,       \* the cached openid-configuration, its URL, and whether it is fresh
  flights      \* URLs whose openid-configuration is being fetched

wellKnown == <<endpoint, found, cache, flights>>

NoCache == [url |-> NoIssuer, document |-> NoDocument, fresh |-> FALSE]

WellKnownPlaces == {"direct", "lookup", "cache", "missed", "waiting", "generate", "override"}

WellKnownTypeOK ==
  /\ endpoint \in [Requests -> Endpoints]
  /\ found \in [Requests -> Document \cup {NoDocument}]
  /\ cache \in [url: Issuers \cup {NoIssuer}, document: Document \cup {NoDocument},
                fresh: BOOLEAN]
  /\ flights \in SUBSET (Issuers \cup {NoIssuer})

WellKnownInit ==
  /\ endpoint = [r \in Requests |-> "authorization-server"]
  /\ found = [r \in Requests |-> NoDocument]
  /\ cache = NoCache
  /\ flights = {}

\* ServeHTTP loads the authorization URL; without one the answer is 404.
AskDocument(r, e) ==
  /\ Begin(r, IF snapshot.issuer = NoIssuer THEN "answered" ELSE "direct")
  /\ endpoint' = [endpoint EXCEPT ![r] = e]
  /\ UNCHANGED <<found, cache, flights>>

\* The authorization server has the document ...
DirectFetch(r) ==
  /\ Move(r, "direct", "override")
  /\ endpoint[r] \in Offers[url[r]]
  /\ found' = [found EXCEPT ![r] = Upstream(url[r])]
  /\ UNCHANGED <<endpoint, cache, flights>>

\* ... or not: it can be made, unless it is the openid-configuration itself.
DirectMissing(r) ==
  /\ Move(r, "direct", IF endpoint[r] = "openid-configuration" THEN "answered" ELSE "lookup")
  /\ endpoint[r] \notin Offers[url[r]]
  /\ UNCHANGED wellKnown

\* No answer, an error status, or a body that is not JSON.
DirectFails(r) ==
  /\ Move(r, "direct", "answered")
  /\ UNCHANGED wellKnown

\* fetchOpenIDConfiguration loads the URL again ...
LoadURL(r) ==
  /\ Load(r, "lookup", "cache")
  /\ UNCHANGED wellKnown

\* A defect: the cache is not checked against the URL.
InCacheAnyURL(r) == cache.fresh

InCache(r) == cache.fresh /\ cache.url = url[r]

\* ... and looks into the cache.
CacheHit(r) ==
  /\ InCache(r)
  /\ Move(r, "cache", "generate")
  /\ found' = [found EXCEPT ![r] = cache.document]
  /\ UNCHANGED <<endpoint, cache, flights>>

CacheMiss(r) ==
  /\ ~InCache(r)
  /\ Move(r, "cache", "missed")
  /\ UNCHANGED wellKnown

\* A miss joins the fetch for its URL, or starts one; the cache may have been
\* filled since.
JoinFlight(r) ==
  /\ Move(r, "missed", "waiting")
  /\ flights' = flights \cup {url[r]}
  /\ UNCHANGED <<endpoint, found, cache>>

Waiting(u) == {r \in Requests : at[r] = "waiting" /\ url[r] = u}

\* The fetch for u is over, for all that wait for it.
Land(u, who, to) ==
  /\ u \in flights
  /\ flights' = flights \ {u}
  /\ at' = [r \in Requests |-> IF r \in who THEN to ELSE at[r]]
  /\ UNCHANGED <<snapshot, reloads, url, seen, endpoint>>

\* A defect: only one of them is told.
FlightWakesOne(u) ==
  /\ Land(u, {CHOOSE r \in Waiting(u) : TRUE}, "answered")
  /\ UNCHANGED <<found, cache>>

\* It fails, or the server has no openid-configuration.
FlightFails(u) ==
  /\ Land(u, Waiting(u), "answered")
  /\ UNCHANGED <<found, cache>>

\* The document is cached, and each that waits gets a copy.
FlightLands(u) ==
  /\ u # NoIssuer /\ "openid-configuration" \in Offers[u]
  /\ Land(u, Waiting(u), "generate")
  /\ cache' = [url |-> u, document |-> Upstream(u), fresh |-> TRUE]
  /\ found' = [r \in Requests |-> IF r \in Waiting(u) THEN Upstream(u) ELSE found[r]]

\* Five minutes have passed.
CacheExpires ==
  /\ cache.fresh
  /\ cache' = NoCache
  /\ UNCHANGED <<state, endpoint, found, flights>>

\* generateAuthorizationServerMetadata and generateProtectedResourceMetadata.
Generate(r) ==
  /\ Move(r, "generate", "override")
  /\ found' = [found EXCEPT ![r] = Generated(endpoint[r], @)]
  /\ UNCHANGED <<endpoint, cache, flights>>

\* A defect: the answer holds nothing but the fields that are overridden.
OverriddenAlone(d) == [registration |-> d.registration /\ ~snapshot.noRegistration]

Overridden(d) == [d EXCEPT !.registration = @ /\ ~snapshot.noRegistration]

\* A defect: the document in the cache is the one that is changed.
OverrideShared(r) ==
  /\ Move(r, "override", "answered")
  /\ found' = [found EXCEPT ![r] = Overridden(@)]
  /\ cache' = IF cache.fresh THEN [cache EXCEPT !.document = Overridden(@)] ELSE cache
  /\ UNCHANGED <<endpoint, flights>>

\* applyConfigOverrides loads the snapshot once more; the answer is sent.
Override(r) ==
  /\ Move(r, "override", "answered")
  /\ found' = [found EXCEPT ![r] = Overridden(@)]
  /\ UNCHANGED <<endpoint, cache, flights>>
=============================================================================
