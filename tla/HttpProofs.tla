------------------------------ MODULE HttpProofs ------------------------------
(* Safety of the HTTP side of the server: of its requests, for any requests,  *)
(* issuers, documents and configurations and however often the snapshot is    *)
(* replaced; and of the rate limiter, for any sessions, calls, settings and   *)
(* periods of the reaper.                                                     *)
EXTENDS OAuthRequests, RateLimiter, FiniteSetTheorems, TLAPS

----
(* Requests: OAuthRequests *)

(* What a request has loaded was in force since it began.                  *)
SeenOK ==
  \A r \in Requests : at[r] # "idle" => url[r] \in IssuersSeen(r) /\ snapshot \in seen[r]

(* Before a request there is nothing in hand.                              *)
IdleOK ==
  \A r \in Requests :
    at[r] = "idle" => header[r] = NoToken /\ config[r] = NoIssuer /\ found[r] = NoDocument

(* A token keeps what the client made of it up to the exchange, and has    *)
(* nothing to do with documents.                                           *)
TokenOK ==
  \A r \in Requests :
    /\ at[r] \in WellKnownPlaces => header[r] = NoToken
    /\ at[r] \in CallPlaces \ {"derive"} => header[r] = NoToken \/ header[r].by = "client"
    /\ at[r] = "verify" => header[r] # NoToken

ConfigOK ==
  \A r \in Requests : config[r] # NoIssuer => config[r] \in IssuersSeen(r)

CacheOK == cache.fresh => cache.url \in Issuers /\ cache.document = Upstream(cache.url)

(* A request has a URL to fetch from, and a document to work on ...        *)
DocumentOK ==
  \A r \in Requests :
    /\ at[r] = "direct" => url[r] # NoIssuer
    /\ at[r] \in {"generate", "override"} => found[r] # NoDocument

(* ... and whatever its place the document is one it may have.             *)
FoundOK ==
  \A r \in Requests : found[r] # NoDocument => found[r].issuer \in IssuersSeen(r)

RegistrationOK ==
  \A r \in Requests :
    found[r] # NoDocument /\ endpoint[r] = "authorization-server" /\ ~found[r].registration
    => \E s \in seen[r] : s.noRegistration

Inv ==
  /\ TypeOK /\ SeenOK /\ IdleOK /\ TokenOK /\ ConfigOK /\ CacheOK
  /\ DocumentOK /\ FoundOK /\ RegistrationOK
  /\ VerifiedByConfigured /\ ExchangedWhereConfigured /\ ClusterCredential

-----------------------------------------------------------------------------

LEMMA InitInv == Init => Inv
<1> SUFFICES ASSUME Init PROVE Inv
  OBVIOUS
<1> USE DEF Init, StateInit, WellKnownInit, CallsInit
<1>1. TypeOK
  BY DEF TypeOK, StateTypeOK, WellKnownTypeOK, CallsTypeOK, Places, Endpoints, NoCache, Credential
<1>2. SeenOK /\ IdleOK /\ TokenOK /\ ConfigOK
  BY DEF SeenOK, IdleOK, TokenOK, ConfigOK, WellKnownPlaces, CallPlaces
<1>3. CacheOK /\ DocumentOK /\ FoundOK /\ RegistrationOK
  BY DEF CacheOK, DocumentOK, FoundOK, RegistrationOK, NoCache
<1>4. VerifiedByConfigured /\ ExchangedWhereConfigured /\ ClusterCredential
  BY DEF VerifiedByConfigured, ExchangedWhereConfigured, ClusterCredential, NoToken
<1> QED
  BY <1>1, <1>2, <1>3, <1>4 DEF Inv

(* How a step changes what all requests share: it stores a snapshot, lets  *)
(* a request begin, go on or return, or moves those that wait.             *)
Going(r) == at[r] # "idle" /\ at'[r] # "idle"
Kept == UNCHANGED <<snapshot, reloads, url, seen>>

LEMMA StepShape ==
  ASSUME TypeOK, Next
  PROVE  \/ Store
         \/ \E r \in Requests, p \in Places \ {"idle"} : Begin(r, p)
         \/ \E r \in Requests, p, q \in Places \ {"idle"} : Move(r, p, q) \/ Load(r, p, q)
         \/ \E r \in Requests : Return(r)
         \/ Kept /\ at' \in [Requests -> Places] /\ \A r \in Requests : at'[r] = at[r] \/ Going(r)
<1> USE DEF Places, WellKnownPlaces, CallPlaces
<1>1. CASE Reload
  BY <1>1 DEF Reload
<1>2. CASE Expire
  BY <1>2 DEF Expire, CacheExpires, Kept, state, TypeOK, StateTypeOK
<1>3. ASSUME NEW r \in Requests, Ask(r)
      PROVE  \E p \in Places \ {"idle"} : Begin(r, p)
  BY <1>3 DEF Ask, AskDocument, AskCall
<1>4. ASSUME NEW r \in Requests, DocumentStep(r)
      PROVE  \E p, q \in Places \ {"idle"} : Move(r, p, q) \/ Load(r, p, q)
  BY <1>4 DEF DocumentStep, DirectFetch, DirectMissing, DirectFails, LoadURL, CacheHit,
    CacheMiss, JoinFlight, Generate, Override
<1>5. ASSUME NEW r \in Requests, CallStep(r)
      PROVE  \E p, q \in Places \ {"idle"} : Move(r, p, q) \/ Load(r, p, q)
  BY <1>5 DEF CallStep, Unauthorized, LoadVerifier, Unavailable, Verified, NotVerified,
    LoadForExchange, StsConfig, Exchange, ExchangeFails, DeriveOwn, DeriveRefused,
    DeriveBearer, Refuse
<1>6. ASSUME NEW u \in Issuers \cup {NoIssuer}, FlightEnds(u)
      PROVE  Kept /\ at' \in [Requests -> Places] /\ \A r \in Requests : at'[r] = at[r] \/ Going(r)
  BY <1>6 DEF FlightEnds, FlightFails, FlightLands, Land, Waiting, Kept, Going, TypeOK, StateTypeOK
<1>7. ASSUME NEW r \in Requests, Finish(r)
      PROVE  Return(r)
  BY <1>7 DEF Finish
<1> QED
  BY <1>1, <1>2, <1>3, <1>4, <1>5, <1>6, <1>7 DEF Next, Step

(* Whatever the step, a request that goes on keeps what it has seen ...    *)
LEMMA SeenGrows ==
  ASSUME TypeOK, Next, NEW r \in Requests, Going(r)
  PROVE  seen[r] \subseteq seen'[r]
<1> USE DEF Going, TypeOK, StateTypeOK
<1>1. CASE Store
  BY <1>1 DEF Store
<1>2. CASE \E q \in Requests, p \in Places \ {"idle"} : Begin(q, p)
  BY <1>2 DEF Begin
<1>3. CASE \E q \in Requests, p, w \in Places \ {"idle"} : Move(q, p, w) \/ Load(q, p, w)
  BY <1>3 DEF Move, Load
<1>4. CASE \E q \in Requests : Return(q)
  BY <1>4 DEF Return
<1>5. CASE Kept
  BY <1>5 DEF Kept
<1> QED
  BY <1>1, <1>2, <1>3, <1>4, <1>5, StepShape

(* ... and what it loads is in force.                                      *)
LEMMA SeenStep == ASSUME TypeOK, SeenOK, Next PROVE SeenOK'
<1> USE DEF SeenOK, IssuersSeen, TypeOK, StateTypeOK
<1>1. CASE Store
  BY <1>1 DEF Store
<1>2. CASE \E q \in Requests, p \in Places \ {"idle"} : Begin(q, p)
  BY <1>2 DEF Begin
<1>3. CASE \E q \in Requests, p, w \in Places \ {"idle"} : Move(q, p, w) \/ Load(q, p, w)
  BY <1>3 DEF Move, Load
<1>4. CASE \E q \in Requests : Return(q)
  BY <1>4 DEF Return
<1>5. CASE Kept /\ \A r \in Requests : at'[r] = at[r] \/ Going(r)
  BY <1>5 DEF Kept, Going
<1> QED
  BY <1>1, <1>2, <1>3, <1>4, <1>5, StepShape

LEMMA IssuersGrow ==
  ASSUME TypeOK, Next, NEW r \in Requests, Going(r)
  PROVE  IssuersSeen(r) \subseteq IssuersSeen(r)'
BY SeenGrows DEF IssuersSeen

-----------------------------------------------------------------------------
(* One step, part by part.                                                  *)

LEMMA StateTypeStep == ASSUME TypeOK, Next PROVE StateTypeOK(Places)'
<1> USE DEF TypeOK, StateTypeOK, Snapshot
<1>1. CASE Store
  BY <1>1 DEF Store
<1>2. CASE \E q \in Requests, p \in Places \ {"idle"} : Begin(q, p)
  BY <1>2 DEF Begin
<1>3. CASE \E q \in Requests, p, w \in Places \ {"idle"} : Move(q, p, w) \/ Load(q, p, w)
  BY <1>3 DEF Move, Load
<1>4. CASE \E q \in Requests : Return(q)
  BY <1>4 DEF Return, Places
<1>5. CASE Kept /\ at' \in [Requests -> Places]
  BY <1>5 DEF Kept
<1> QED
  BY <1>1, <1>2, <1>3, <1>4, <1>5, StepShape

(* What the documents and the calls are, where they are changed.           *)
LEMMA DocumentTypeStep ==
  ASSUME TypeOK, CacheOK, DocumentOK, Next
  PROVE  WellKnownTypeOK'
<1> USE DEF TypeOK, StateTypeOK, WellKnownTypeOK
<1>1. CASE UNCHANGED wellKnown
  BY <1>1 DEF wellKnown
<1>2. CASE Expire
  BY <1>2 DEF Expire, CacheExpires, NoCache
<1>3. ASSUME NEW r \in Requests, NEW e \in Endpoints, AskDocument(r, e)
      PROVE  WellKnownTypeOK'
  BY <1>3 DEF AskDocument
<1>4. ASSUME NEW r \in Requests, DirectFetch(r)
      PROVE  WellKnownTypeOK'
  <2>1. url[r] \in Issuers
    BY <1>4 DEF DirectFetch, Move, DocumentOK
  <2> QED
    BY <1>4, <2>1 DEF DirectFetch, Upstream, Document
<1>5. ASSUME NEW r \in Requests, CacheHit(r) \/ JoinFlight(r)
      PROVE  WellKnownTypeOK'
  BY <1>5 DEF CacheHit, JoinFlight
<1>6. ASSUME NEW r \in Requests, Generate(r) \/ Override(r)
      PROVE  WellKnownTypeOK'
  <2>1. found[r] \in Document /\ snapshot.noRegistration \in BOOLEAN
    BY <1>6 DEF Generate, Override, Move, DocumentOK, Snapshot
  <2>2. Generated(endpoint[r], found[r]) \in Document
    BY <2>1 DEF Generated, Document
  <2>3. Overridden(found[r]) \in Document
    <3>1. (found[r].registration /\ ~snapshot.noRegistration) \in BOOLEAN
      OBVIOUS
    <3> QED
      BY <2>1, <3>1 DEF Overridden, Document
  <2> QED
    BY <1>6, <2>2, <2>3 DEF Generate, Override
<1>7. ASSUME NEW r \in Requests, Finish(r)
      PROVE  WellKnownTypeOK'
  BY <1>7 DEF Finish, Endpoints
<1>8. ASSUME NEW u \in Issuers \cup {NoIssuer}, FlightEnds(u)
      PROVE  WellKnownTypeOK'
  <2>1. CASE FlightFails(u)
    BY <2>1 DEF FlightFails, Land
  <2>2. CASE FlightLands(u)
    <3>1. u \in Issuers /\ Upstream(u) \in Document
      BY <2>2 DEF FlightLands, Upstream, Document
    <3> QED
      BY <2>2, <3>1 DEF FlightLands, Land
  <2> QED
    BY <1>8, <2>1, <2>2 DEF FlightEnds
<1> QED
  BY <1>1, <1>2, <1>3, <1>4, <1>5, <1>6, <1>7, <1>8 DEF Next, Reload, Ask, Step, DocumentStep,
    DirectMissing, DirectFails, LoadURL, CacheMiss

LEMMA StaticType ==
  ASSUME TypeOK
  PROVE  static \in Static /\ Accepted(static)
BY StaticsAssumption DEF TypeOK, CallsTypeOK

LEMMA TokenType ==
  ASSUME TypeOK, TokenOK, NEW r \in Requests, at[r] \in CallPlaces \ {"derive"}
  PROVE  header[r] = NoToken \/ (header[r] \in Bearer /\ header[r].by = "client")
BY DEF TypeOK, CallsTypeOK, TokenOK, Credential, NoToken, Blank, ServerOwn

(* What comes out of an exchange: another token, by an issuer in hand, or  *)
(* the client's, where the configuration has nothing to exchange it with.  *)
LEMMA ExchangedWhat ==
  ASSUME TypeOK, TokenOK, NEW r \in Requests, at[r] = "exchange", Plan(r) # "fail"
  PROVE  /\ Exchanged(r) \in Bearer \cup {NoToken}
         /\ Exchanged(r).by = "exchange" => Exchanged(r).issuer \in {config[r], url[r]} \ {NoIssuer}
         /\ Exchanged(r).by = "client" =>
              /\ AuthMode(static) = "passthrough" /\ static.strategy = ""
              /\ static.sts => url[r] = NoIssuer
<1>1. header[r] = NoToken \/ (header[r] \in Bearer /\ header[r].by = "client")
  BY TokenType DEF CallPlaces
<1>2. /\ config[r] \in Issuers \cup {NoIssuer} /\ url[r] \in Issuers \cup {NoIssuer}
      /\ static \in Static
  BY StaticType DEF TypeOK, StateTypeOK, CallsTypeOK
<1>3. CASE Plan(r) = "target"
  <2>1. header[r] \in Bearer
    BY <1>1, <1>3 DEF Plan
  <2> QED
    BY <2>1, <1>3 DEF Exchanged, Bearer
<1>4. CASE Plan(r) = "strategy"
  <2>1. AskedIssuer(r) \in Issuers /\ AskedIssuer(r) \in {config[r], url[r]}
    BY <1>2, <1>4 DEF Plan, AskedIssuer
  <2> QED
    BY <2>1, <1>4, OAuthAssumption DEF Exchanged, Bearer
<1>5. CASE Plan(r) = "sts"
  <2>1. url[r] \in Issuers /\ url[r] # NoIssuer
    BY <1>2, <1>5, OAuthAssumption DEF Plan
  <2> QED
    BY <2>1, <1>5 DEF Exchanged, Bearer
<1>6. CASE Plan(r) = "clear"
  BY <1>6 DEF Exchanged, NoToken
<1>7. CASE Plan(r) = "nothing"
  <2>1. Exchanged(r) = header[r]
    BY <1>7 DEF Exchanged
  <2>2. CASE header[r] = NoToken
    BY <2>1, <2>2 DEF NoToken
  <2>3. CASE header[r] # NoToken
    <3>1. AuthMode(static) # "kubeconfig" /\ static.strategy \notin {"unknown", "known"}
      BY <1>7, <2>3 DEF Plan
    <3>2. static.sts => url[r] = NoIssuer
      BY <1>7, <2>3, <3>1 DEF Plan
    <3>3. AuthMode(static) = "passthrough" /\ static.strategy = ""
      BY <1>2, <3>1 DEF AuthMode, Static
    <3> QED
      BY <1>1, <2>1, <2>3, <3>2, <3>3
  <2> QED
    BY <2>2, <2>3
<1> QED
  BY <1>3, <1>4, <1>5, <1>6, <1>7 DEF Plan

LEMMA CallsTypeStep == ASSUME TypeOK, TokenOK, Next PROVE CallsTypeOK'
<1> USE DEF TypeOK, StateTypeOK, CallsTypeOK
<1>1. CASE UNCHANGED calls
  BY <1>1 DEF calls
<1>2. ASSUME NEW r \in Requests, NEW token \in Credential, AskCall(r, token)
      PROVE  CallsTypeOK'
  BY <1>2 DEF AskCall
<1>3. ASSUME NEW r \in Requests, NEW from, Refuse(r, from)
      PROVE  CallsTypeOK'
  BY <1>3 DEF Refuse, Credential
<1>4. ASSUME NEW r \in Requests, StsConfig(r)
      PROVE  CallsTypeOK'
  BY <1>4 DEF StsConfig
<1>5. ASSUME NEW r \in Requests, Exchange(r)
      PROVE  CallsTypeOK'
  <2>1. Exchanged(r) \in Credential /\ Blank \in Credential
    BY <1>5, ExchangedWhat DEF Exchange, Move, Credential
  <2> QED
    BY <1>5, <2>1 DEF Exchange
<1>6. ASSUME NEW r \in Requests, DeriveOwn(r)
      PROVE  CallsTypeOK'
  BY <1>6 DEF DeriveOwn, Credential
<1>7. ASSUME NEW r \in Requests, Finish(r)
      PROVE  CallsTypeOK'
  BY <1>7 DEF Finish, Credential
<1>8. ASSUME NEW r \in Requests, Ask(r)
      PROVE  CallsTypeOK'
  BY <1>8, <1>1, <1>2 DEF Ask, Credential, Bearer
<1>9. ASSUME NEW r \in Requests, CallStep(r)
      PROVE  CallsTypeOK'
  BY <1>9, <1>1, <1>3, <1>4, <1>5, <1>6 DEF CallStep, Unauthorized, LoadVerifier, Unavailable,
    Verified, NotVerified, LoadForExchange, ExchangeFails, DeriveRefused, DeriveBearer
<1> QED
  BY <1>1, <1>7, <1>8, <1>9 DEF Next, Reload, Expire, Step, FlightEnds

LEMMA IdleStep == ASSUME TypeOK, IdleOK, Next PROVE IdleOK'
<1> USE DEF TypeOK, StateTypeOK, WellKnownTypeOK, CallsTypeOK, IdleOK
<1>1. CASE Reload \/ Expire
  BY <1>1 DEF Reload, Expire, Store, CacheExpires, state, calls, wellKnown
<1>2. ASSUME NEW q \in Requests, Ask(q) PROVE IdleOK'
  BY <1>2 DEF Ask, AskDocument, AskCall, Begin, calls, wellKnown
<1>3. ASSUME NEW q \in Requests, DocumentStep(q), UNCHANGED calls PROVE IdleOK'
  BY <1>3 DEF DocumentStep, DirectFetch, DirectMissing, DirectFails, LoadURL, CacheHit,
    CacheMiss, JoinFlight, Generate, Override, Move, Load, calls, wellKnown
<1>4. ASSUME NEW q \in Requests, CallStep(q), UNCHANGED wellKnown PROVE IdleOK'
  <2>1. ASSUME NEW from, Refuse(q, from) PROVE IdleOK'
    BY <1>4, <2>1 DEF Refuse, Move, wellKnown
  <2>2. CASE LoadVerifier(q) \/ LoadForExchange(q)
    BY <1>4, <2>2 DEF LoadVerifier, LoadForExchange, Load, calls, wellKnown
  <2>3. CASE Verified(q) \/ DeriveBearer(q)
    BY <1>4, <2>3 DEF Verified, DeriveBearer, Move, calls, wellKnown
  <2>4. CASE StsConfig(q)
    BY <1>4, <2>4 DEF StsConfig, Move, wellKnown
  <2>5. CASE Exchange(q) \/ DeriveOwn(q)
    BY <1>4, <2>5 DEF Exchange, DeriveOwn, Move, wellKnown
  <2> QED
    BY <1>4, <2>1, <2>2, <2>3, <2>4, <2>5 DEF CallStep, Unauthorized, Unavailable, NotVerified,
      ExchangeFails, DeriveRefused
<1>5. ASSUME NEW q \in Requests, Finish(q) PROVE IdleOK'
  BY <1>5 DEF Finish, Return
<1>6. ASSUME NEW u \in Issuers \cup {NoIssuer}, FlightEnds(u) PROVE IdleOK'
  BY <1>6 DEF FlightEnds, FlightFails, FlightLands, Land, Waiting, calls
<1> QED
  BY <1>1, <1>2, <1>3, <1>4, <1>5, <1>6 DEF Next, Step

LEMMA TokenStep == ASSUME TypeOK, IdleOK, TokenOK, Next PROVE TokenOK'
<1> USE DEF TypeOK, StateTypeOK, WellKnownTypeOK, CallsTypeOK, IdleOK, TokenOK, WellKnownPlaces, CallPlaces
<1>1. CASE Reload \/ Expire
  BY <1>1 DEF Reload, Expire, Store, CacheExpires, state, calls, wellKnown
<1>2. ASSUME NEW q \in Requests, Ask(q) PROVE TokenOK'
  BY <1>2 DEF Ask, AskDocument, AskCall, Begin, calls, wellKnown
<1>3. ASSUME NEW q \in Requests, DocumentStep(q), UNCHANGED calls PROVE TokenOK'
  BY <1>3 DEF DocumentStep, DirectFetch, DirectMissing, DirectFails, LoadURL, CacheHit,
    CacheMiss, JoinFlight, Generate, Override, Move, Load, calls, wellKnown
<1>4. ASSUME NEW q \in Requests, CallStep(q), UNCHANGED wellKnown PROVE TokenOK'
  <2>1. ASSUME NEW from \in CallPlaces, Refuse(q, from) PROVE TokenOK'
    BY <2>1 DEF Refuse, Move
  <2>2. CASE LoadVerifier(q) \/ LoadForExchange(q)
    BY <2>2 DEF LoadVerifier, LoadForExchange, Load, calls
  <2>3. CASE Verified(q) \/ StsConfig(q) \/ DeriveBearer(q)
    <3>1. CASE Verified(q)
      BY <3>1 DEF Verified, Move, calls
    <3>2. CASE StsConfig(q)
      BY <3>2 DEF StsConfig, Move
    <3>3. CASE DeriveBearer(q)
      BY <3>3 DEF DeriveBearer, Move, calls
    <3> QED
      BY <2>3, <3>1, <3>2, <3>3
  <2>4. CASE Exchange(q)
    <3>1. PICK token : header' = [header EXCEPT ![q] = token]
      BY <2>4 DEF Exchange
    <3> QED
      BY <2>4, <3>1 DEF Exchange, Move
  <2>5. CASE DeriveOwn(q)
    BY <2>5 DEF DeriveOwn, Move
  <2> QED
    BY <1>4, <2>1, <2>2, <2>3, <2>4, <2>5 DEF CallStep, Unauthorized, Unavailable, NotVerified,
      ExchangeFails, DeriveRefused
<1>5. ASSUME NEW q \in Requests, Finish(q) PROVE TokenOK'
  BY <1>5 DEF Finish, Return
<1>6. ASSUME NEW u \in Issuers \cup {NoIssuer}, FlightEnds(u) PROVE TokenOK'
  BY <1>6 DEF FlightEnds, FlightFails, FlightLands, Land, Waiting, calls
<1> QED
  BY <1>1, <1>2, <1>3, <1>4, <1>5, <1>6 DEF Next, Step

(* The cache is filled by a fetch that lands, and by nothing else.         *)
LEMMA CacheStep == ASSUME TypeOK, CacheOK, Next PROVE CacheOK'
<1> USE DEF CacheOK
<1>1. CASE UNCHANGED cache
  BY <1>1 DEF Upstream
<1>2. CASE Expire
  BY <1>2 DEF Expire, CacheExpires, NoCache
<1>3. ASSUME NEW u \in Issuers \cup {NoIssuer}, FlightLands(u) PROVE CacheOK'
  BY <1>3 DEF FlightLands, Upstream
<1> QED
  BY <1>1, <1>2, <1>3 DEF Next, Reload, Ask, AskDocument, Step, DocumentStep, DirectFetch,
    DirectMissing, DirectFails, LoadURL, CacheHit, CacheMiss, JoinFlight, Generate, Override,
    Finish, FlightEnds, FlightFails, wellKnown

LEMMA StaticStays == Next => UNCHANGED static
BY DEF Next, Reload, Expire, Ask, AskCall, Step, CallStep, Unauthorized, LoadVerifier,
  Unavailable, Verified, NotVerified, LoadForExchange, StsConfig, Exchange, ExchangeFails,
  DeriveOwn, DeriveRefused, DeriveBearer, Refuse, Finish, FlightEnds, calls

(* A request that does nothing stays as it is, unless the fetch it waits   *)
(* for ends.                                                               *)
Woken(r) ==
  /\ at[r] = "waiting"
  /\ \/ at'[r] = "answered" /\ found'[r] = found[r]
     \/ at'[r] = "generate" /\ found'[r] = Upstream(url[r]) /\ url[r] \in Issuers

LEMMA Elsewhere ==
  ASSUME TypeOK, Next, NEW r \in Requests, ~Ask(r), ~Step(r)
  PROVE  /\ header'[r] = header[r] /\ config'[r] = config[r]
         /\ endpoint'[r] = endpoint[r] /\ url'[r] = url[r]
         /\ (at'[r] = at[r] /\ found'[r] = found[r]) \/ Woken(r)
<1> DEFINE Goal == /\ header'[r] = header[r] /\ config'[r] = config[r]
                   /\ endpoint'[r] = endpoint[r] /\ url'[r] = url[r]
                   /\ (at'[r] = at[r] /\ found'[r] = found[r]) \/ Woken(r)
<1> USE DEF TypeOK, StateTypeOK, WellKnownTypeOK, CallsTypeOK
<1>1. CASE Reload \/ Expire
  BY <1>1 DEF Reload, Expire, Store, CacheExpires, state, calls, wellKnown
<1>2. ASSUME NEW q \in Requests \ {r}, Ask(q) PROVE Goal
  BY <1>2 DEF Ask, AskDocument, AskCall, Begin, calls, wellKnown
<1>3. ASSUME NEW q \in Requests \ {r}, DocumentStep(q), UNCHANGED calls PROVE Goal
  BY <1>3 DEF DocumentStep, DirectFetch, DirectMissing, DirectFails, LoadURL, CacheHit,
    CacheMiss, JoinFlight, Generate, Override, Move, Load, calls, wellKnown
<1>4. ASSUME NEW q \in Requests \ {r}, CallStep(q), UNCHANGED wellKnown PROVE Goal
  <2>1. ASSUME NEW from, Refuse(q, from) PROVE Goal
    BY <1>4, <2>1 DEF Refuse, Move, wellKnown
  <2>2. CASE LoadVerifier(q) \/ LoadForExchange(q)
    BY <1>4, <2>2 DEF LoadVerifier, LoadForExchange, Load, calls, wellKnown
  <2>3. CASE Verified(q) \/ StsConfig(q) \/ DeriveBearer(q)
    BY <1>4, <2>3 DEF Verified, StsConfig, DeriveBearer, Move, calls, wellKnown
  <2>4. CASE Exchange(q)
    <3>1. PICK token : header' = [header EXCEPT ![q] = token]
      BY <2>4 DEF Exchange
    <3> QED
      BY <1>4, <2>4, <3>1 DEF Exchange, Move, wellKnown
  <2>5. CASE DeriveOwn(q)
    BY <1>4, <2>5 DEF DeriveOwn, Move, wellKnown
  <2> QED
    BY <1>4, <2>1, <2>2, <2>3, <2>4, <2>5 DEF CallStep, Unauthorized, Unavailable, NotVerified,
      ExchangeFails, DeriveRefused
<1>5. ASSUME NEW q \in Requests \ {r}, Finish(q) PROVE Goal
  BY <1>5 DEF Finish, Return
<1>6. ASSUME NEW u \in Issuers \cup {NoIssuer}, FlightEnds(u) PROVE Goal
  BY <1>6 DEF FlightEnds, FlightFails, FlightLands, Land, Waiting, Woken, calls
<1> QED
  BY <1>1, <1>2, <1>3, <1>4, <1>5, <1>6 DEF Next, Step

(* The STS configuration in hand is that of the URL loaded for it.         *)
LEMMA ConfigStep ==
  ASSUME TypeOK, SeenOK, IdleOK, ConfigOK, Next, IdleOK'
  PROVE  ConfigOK'
<1> SUFFICES ASSUME NEW r \in Requests, config'[r] # NoIssuer
             PROVE  config'[r] \in IssuersSeen(r)'
  BY DEF ConfigOK
<1> USE DEF TypeOK, StateTypeOK, CallsTypeOK
<1>1. CASE config'[r] = config[r]
  <2>1. Going(r)
    BY <1>1 DEF IdleOK, Going
  <2> QED
    BY <1>1, <2>1, IssuersGrow DEF ConfigOK
<1>2. CASE StsConfig(r)
  <2>1. config'[r] = url[r] /\ Going(r)
    BY <1>2 DEF StsConfig, Move, Going
  <2> QED
    BY <2>1, IssuersGrow DEF SeenOK, Going
<1>3. CASE Ask(r) \/ Step(r)
  BY <1>1, <1>2, <1>3 DEF Ask, AskDocument, AskCall, Step, CallStep, Unauthorized, LoadVerifier,
    Unavailable, Verified, NotVerified, LoadForExchange, Exchange, ExchangeFails,
    DeriveOwn, DeriveRefused, DeriveBearer, Refuse, Finish, calls
<1> QED
  BY <1>1, <1>3, Elsewhere

LEMMA DocumentStepOK ==
  ASSUME TypeOK, CacheOK, DocumentOK, Next, WellKnownTypeOK'
  PROVE  DocumentOK'
<1> SUFFICES ASSUME NEW r \in Requests
             PROVE  /\ at'[r] = "direct" => url'[r] # NoIssuer
                    /\ at'[r] \in {"generate", "override"} => found'[r] # NoDocument
  BY DEF DocumentOK
<1> USE DEF TypeOK, StateTypeOK, WellKnownTypeOK, DocumentOK
<1>1. ASSUME NEW u \in Issuers PROVE Upstream(u) # NoDocument
  <2>1. Upstream(u) \in Document
    BY DEF Upstream, Document
  <2> QED
    BY <2>1, WellKnownAssumption
<1>2. CASE Ask(r)
  <2>1. CASE \E e \in Endpoints : AskDocument(r, e)
    BY <2>1 DEF AskDocument, Begin
  <2>2. CASE \E token \in Bearer \cup {NoToken} : AskCall(r, token)
    BY <2>2 DEF AskCall, Begin
  <2> QED
    BY <1>2, <2>1, <2>2 DEF Ask, Bearer
<1>3. CASE DirectFetch(r)
  BY <1>1, <1>3, OAuthAssumption DEF DirectFetch, Move
<1>4. CASE CacheHit(r)
  BY <1>1, <1>4 DEF CacheHit, InCache, Move, CacheOK
<1>5. CASE Generate(r) \/ Override(r)
  <2>1. found[r] \in Document
    BY <1>5 DEF Generate, Override, Move
  <2>2. CASE Generate(r)
    <3>1. Generated(endpoint[r], found[r]) \in Document
      BY <2>1 DEF Generated, Document
    <3> QED
      BY <2>2, <3>1, WellKnownAssumption DEF Generate, Move
  <2>3. CASE Override(r)
    BY <2>3 DEF Override, Move
  <2> QED
    BY <1>5, <2>2, <2>3
<1>6. CASE DirectMissing(r) \/ DirectFails(r) \/ LoadURL(r) \/ CacheMiss(r) \/ JoinFlight(r)
  BY <1>6 DEF DirectMissing, DirectFails, LoadURL, CacheMiss, JoinFlight, Move, Load
<1>7. CASE CallStep(r)
  BY <1>7 DEF CallStep, Unauthorized, LoadVerifier, Unavailable, Verified, NotVerified,
    LoadForExchange, StsConfig, Exchange, ExchangeFails, DeriveOwn, DeriveRefused,
    DeriveBearer, Refuse, Move, Load
<1>8. CASE Finish(r)
  BY <1>8 DEF Finish, Return
<1>9. CASE ~Ask(r) /\ ~Step(r)
  BY <1>1, <1>9, Elsewhere DEF Woken
<1> QED
  BY <1>2, <1>3, <1>4, <1>5, <1>6, <1>7, <1>8, <1>9 DEF Step, DocumentStep

(* Where a document comes from: it stays, it is the one of the URL in      *)
(* hand, or it is made of the one that was there.                          *)
LEMMA FoundFrom ==
  ASSUME TypeOK, CacheOK, Next, NEW r \in Requests, found'[r] # NoDocument
  PROVE  \/ found'[r] = found[r] /\ endpoint'[r] = endpoint[r]
         \/ found'[r] = Upstream(url[r]) /\ Going(r)
         \/ Generate(r) \/ Override(r)
         \/ AskDocument(r, endpoint'[r]) /\ found'[r] = found[r]
<1> USE DEF TypeOK, StateTypeOK, WellKnownTypeOK
<1>1. CASE Ask(r)
  BY <1>1 DEF Ask, AskDocument, AskCall, wellKnown
<1>2. CASE DirectFetch(r) \/ CacheHit(r)
  BY <1>2 DEF DirectFetch, CacheHit, InCache, CacheOK, Move, Going
<1>3. CASE UNCHANGED wellKnown \/ JoinFlight(r) \/ Finish(r)
  BY <1>3 DEF JoinFlight, Finish, wellKnown
<1>4. CASE ~Ask(r) /\ ~Step(r)
  BY <1>4, Elsewhere DEF Woken, Going
<1> QED
  BY <1>1, <1>2, <1>3, <1>4 DEF Step, DocumentStep, DirectMissing, DirectFails, LoadURL, CacheMiss

LEMMA FoundStep ==
  ASSUME TypeOK, SeenOK, IdleOK, CacheOK, DocumentOK, FoundOK, Next, IdleOK'
  PROVE  FoundOK'
<1> SUFFICES ASSUME NEW r \in Requests, found'[r] # NoDocument
             PROVE  found'[r].issuer \in IssuersSeen(r)'
  BY DEF FoundOK
<1> USE DEF TypeOK, StateTypeOK, WellKnownTypeOK
<1>1. CASE found'[r] = found[r]
  <2>1. Going(r)
    BY <1>1 DEF IdleOK, Going
  <2> QED
    BY <1>1, <2>1, IssuersGrow DEF FoundOK
<1>2. CASE found'[r] = Upstream(url[r]) /\ Going(r)
  BY <1>2, IssuersGrow DEF SeenOK, Going, Upstream
<1>3. CASE Generate(r) \/ Override(r)
  <2>1. found[r] \in Document /\ Going(r)
    BY <1>3 DEF Generate, Override, Move, DocumentOK, Going
  <2>2. found'[r].issuer = found[r].issuer
    BY <1>3, <2>1 DEF Generate, Override, Generated, Overridden, Document
  <2> QED
    BY <2>1, <2>2, IssuersGrow, WellKnownAssumption DEF FoundOK
<1> QED
  BY <1>1, <1>2, <1>3, FoundFrom

LEMMA RegistrationStep ==
  ASSUME TypeOK, SeenOK, IdleOK, CacheOK, DocumentOK, RegistrationOK, Next, IdleOK'
  PROVE  RegistrationOK'
<1> SUFFICES ASSUME NEW r \in Requests, found'[r] # NoDocument,
                    endpoint'[r] = "authorization-server", ~found'[r].registration
             PROVE  \E s \in seen'[r] : s.noRegistration
  BY DEF RegistrationOK
<1> USE DEF TypeOK, StateTypeOK, WellKnownTypeOK
<1>1. CASE found'[r] = found[r] /\ endpoint'[r] = endpoint[r]
  <2>1. Going(r)
    BY <1>1 DEF IdleOK, Going
  <2> QED
    BY <1>1, <2>1, SeenGrows DEF RegistrationOK
<1>2. CASE found'[r] = Upstream(url[r])
  BY <1>2 DEF Upstream
<1>3. CASE AskDocument(r, endpoint'[r]) /\ found'[r] = found[r]
  BY <1>3 DEF AskDocument, Begin, IdleOK
<1>4. CASE Generate(r)
  BY <1>4, SeenGrows DEF Generate, Generated, Move, Going, RegistrationOK, DocumentOK
<1>5. CASE Override(r)
  <2>1. /\ found[r] \in Document /\ found[r] # NoDocument /\ Going(r)
        /\ endpoint[r] = "authorization-server" /\ snapshot \in seen[r]
    BY <1>5 DEF Override, Move, DocumentOK, Going, SeenOK
  <2>2. ~found[r].registration \/ snapshot.noRegistration
    BY <1>5, <2>1 DEF Override, Overridden, Document
  <2> QED
    BY <2>1, <2>2, SeenGrows DEF RegistrationOK
<1> QED
  BY <1>1, <1>2, <1>3, <1>4, <1>5, FoundFrom

LEMMA VerifiedStep ==
  ASSUME TypeOK, SeenOK, IdleOK, TokenOK, VerifiedByConfigured, Next
  PROVE  VerifiedByConfigured'
<1> SUFFICES ASSUME NEW r \in Requests, at'[r] \in {"authorized", "configure", "exchange"},
                    static'.requireOAuth, static'.issuer # NoIssuer
             PROVE  header'[r].by = "client" /\ header'[r].issuer \in IssuersSeen(r)'
  BY DEF VerifiedByConfigured
<1> USE DEF TypeOK, StateTypeOK, CallsTypeOK
<1>1. static' = static
  BY StaticStays
<1>2. CASE at[r] \in {"authorized", "configure", "exchange"} /\ header'[r] = header[r]
  BY <1>1, <1>2, IssuersGrow DEF VerifiedByConfigured, Going
<1>3. CASE Verified(r)
  <2>1. /\ Going(r) /\ header'[r] = header[r] /\ header[r].issuer = url[r]
        /\ at[r] = "verify"
    BY <1>3 DEF Verified, Move, Going, calls
  <2> QED
    BY <2>1, IssuersGrow DEF SeenOK, TokenOK, CallPlaces, Going
<1>4. CASE Ask(r)
  BY <1>1, <1>4 DEF Ask, AskDocument, AskCall, Begin
<1>5. CASE DocumentStep(r) \/ Finish(r)
  BY <1>5 DEF DocumentStep, DirectFetch, DirectMissing, DirectFails, LoadURL, CacheHit,
    CacheMiss, JoinFlight, Generate, Override, Move, Load, Finish, Return
<1>6. CASE LoadVerifier(r)
  BY <1>1, <1>6 DEF LoadVerifier, Load
<1>7. CASE LoadForExchange(r) \/ StsConfig(r)
  BY <1>2, <1>7 DEF LoadForExchange, StsConfig, Move, Load, calls
<1>8. ASSUME NEW from \in CallPlaces, Refuse(r, from) PROVE FALSE
  BY <1>8 DEF Refuse, Move
<1>9. CASE Exchange(r) \/ DeriveOwn(r) \/ DeriveBearer(r)
  BY <1>9 DEF Exchange, DeriveOwn, DeriveBearer, Move
<1>10. CASE ~Ask(r) /\ ~Step(r)
  BY <1>2, <1>10, Elsewhere DEF Woken
<1> QED
  BY <1>3, <1>4, <1>5, <1>6, <1>7, <1>8, <1>9, <1>10 DEF Step, CallStep, CallPlaces,
    Unauthorized, Unavailable, NotVerified, ExchangeFails, DeriveRefused

(* What becomes of the token of a request: only its own steps change it.   *)
LEMMA HeaderFrom ==
  ASSUME TypeOK, IdleOK, Next, NEW r \in Requests
  PROVE  \/ header'[r] = header[r] /\ (Going(r) \/ at[r] = "idle")
         \/ header'[r].by \in {"nobody", "client"}
         \/ Exchange(r) \/ DeriveOwn(r)
<1> USE DEF TypeOK, StateTypeOK, CallsTypeOK
<1>1. CASE Ask(r)
  <2>1. CASE \E e \in Endpoints : AskDocument(r, e) /\ UNCHANGED calls
    BY <2>1 DEF AskDocument, Begin, calls
  <2>2. ASSUME NEW token \in [by: {"client"}, issuer: Issuers] \cup {NoToken}, AskCall(r, token)
        PROVE  header'[r].by \in {"nobody", "client"}
    BY <2>2 DEF AskCall, NoToken
  <2> QED
    BY <1>1, <2>1, <2>2 DEF Ask
<1>2. CASE DocumentStep(r) /\ UNCHANGED calls
  <2>1. Going(r)
    BY <1>2 DEF DocumentStep, DirectFetch, DirectMissing, DirectFails, LoadURL, CacheHit,
      CacheMiss, JoinFlight, Generate, Override, Move, Load, Going
  <2> QED
    BY <1>2, <2>1 DEF calls
<1>3. ASSUME NEW from, Refuse(r, from) PROVE header'[r].by \in {"nobody", "client"}
  BY <1>3 DEF Refuse, NoToken
<1>4. CASE \/ LoadVerifier(r) \/ LoadForExchange(r) \/ Verified(r) \/ StsConfig(r)
           \/ DeriveBearer(r)
  <2>1. header' = header /\ Going(r)
    BY <1>4 DEF LoadVerifier, LoadForExchange, Verified, StsConfig, DeriveBearer, Move, Load,
      Going, calls
  <2> QED
    BY <2>1
<1>5. CASE Finish(r)
  BY <1>5 DEF Finish, NoToken
<1>6. CASE ~Ask(r) /\ ~Step(r)
  BY <1>6, Elsewhere DEF Woken, Going
<1> QED
  BY <1>1, <1>2, <1>3, <1>4, <1>5, <1>6 DEF Step, CallStep, Unauthorized, Unavailable,
    NotVerified, ExchangeFails, DeriveRefused

LEMMA ExchangedStep ==
  ASSUME TypeOK, SeenOK, IdleOK, TokenOK, ConfigOK, ExchangedWhereConfigured, Next
  PROVE  ExchangedWhereConfigured'
<1> SUFFICES ASSUME NEW r \in Requests, header'[r].by = "exchange"
             PROVE  header'[r].issuer \in IssuersSeen(r)'
  BY DEF ExchangedWhereConfigured
<1>1. CASE header'[r] = header[r] /\ Going(r)
  BY <1>1, IssuersGrow DEF ExchangedWhereConfigured
<1>2. CASE header'[r] = header[r] /\ at[r] = "idle"
  BY <1>2 DEF IdleOK, NoToken
<1>3. CASE Exchange(r)
  <2>1. Going(r) /\ at[r] = "exchange" /\ Plan(r) # "fail"
    BY <1>3 DEF Exchange, Move, Going, TypeOK, StateTypeOK
  <2>2. header'[r] \in {Exchanged(r), Blank}
    BY <1>3 DEF Exchange, TypeOK, CallsTypeOK
  <2>3. header'[r] = Exchanged(r)
    BY <2>2 DEF Blank
  <2>4. header'[r].issuer \in {config[r], url[r]} \ {NoIssuer}
    BY <2>1, <2>3, ExchangedWhat
  <2>5. header'[r].issuer \in IssuersSeen(r)
    BY <2>1, <2>4 DEF ConfigOK, SeenOK, Going
  <2> QED
    BY <2>1, <2>5, IssuersGrow
<1>4. CASE DeriveOwn(r)
  BY <1>4 DEF DeriveOwn, ServerOwn, TypeOK, CallsTypeOK
<1> QED
  BY <1>1, <1>2, <1>3, <1>4, HeaderFrom

LEMMA ClusterStep ==
  ASSUME TypeOK, SeenOK, IdleOK, TokenOK, ClusterCredential, Next
  PROVE  ClusterCredential'
<1> DEFINE Right(by, issuers) ==
      /\ by = "server" => AuthMode(static) = "kubeconfig"
      /\ by = "client" => /\ AuthMode(static) = "passthrough"
                          /\ static.strategy = ""
                          /\ static.sts => NoIssuer \in issuers
<1> SUFFICES ASSUME NEW r \in Requests, at'[r] \in {"derive", "answered"}
             PROVE  Right(header'[r].by, IssuersSeen(r)')
  BY StaticStays DEF ClusterCredential, AuthMode
<1> USE DEF TypeOK, StateTypeOK, CallsTypeOK
<1>1. CASE header'[r] = NoToken
  BY <1>1 DEF NoToken
<1>2. CASE header'[r] = header[r] /\ at[r] \in {"derive", "answered"}
  BY <1>2, IssuersGrow DEF ClusterCredential, Going
<1>3. CASE Ask(r)
  <2>1. CASE \E e \in Endpoints : AskDocument(r, e) /\ UNCHANGED calls
    BY <1>1, <2>1 DEF AskDocument, Begin, IdleOK, calls
  <2>2. ASSUME NEW token, AskCall(r, token) PROVE FALSE
    BY <2>2 DEF AskCall, Begin
  <2> QED
    BY <1>3, <2>1, <2>2 DEF Ask
<1>4. CASE DocumentStep(r) /\ UNCHANGED calls
  <2>1. at[r] \in WellKnownPlaces
    BY <1>4 DEF DocumentStep, DirectFetch, DirectMissing, DirectFails, LoadURL, CacheHit,
      CacheMiss, JoinFlight, Generate, Override, Move, Load, WellKnownPlaces
  <2> QED
    BY <1>1, <1>4, <2>1 DEF TokenOK, calls
<1>5. ASSUME NEW from, Refuse(r, from) PROVE header'[r] = NoToken
  BY <1>5 DEF Refuse
<1>6. CASE LoadVerifier(r) \/ LoadForExchange(r) \/ Verified(r) \/ StsConfig(r) \/ Finish(r)
  BY <1>6 DEF LoadVerifier, LoadForExchange, Verified, StsConfig, Move, Load, Finish, Return
<1>7. CASE Exchange(r)
  <2>1. Going(r) /\ at[r] = "exchange" /\ Plan(r) # "fail"
    BY <1>7 DEF Exchange, Move, Going
  <2>2. header'[r] \in {Exchanged(r), Blank}
    BY <1>7 DEF Exchange
  <2>3. CASE header'[r] = Blank
    BY <2>3 DEF Blank
  <2>4. CASE header'[r] = Exchanged(r)
    <3>0. Exchanged(r) \in Bearer \cup {NoToken}
      BY <2>1, ExchangedWhat
    <3>1. Exchanged(r).by # "server"
      <4>1. CASE Exchanged(r) \in Bearer
        BY <4>1 DEF Bearer
      <4>2. CASE Exchanged(r) = NoToken
        <5>1. NoToken.by # "server"
          BY DEF NoToken
        <5> QED
          BY <4>2, <5>1
      <4> QED
        BY <3>0, <4>1, <4>2
    <3>2. url[r] \in IssuersSeen(r)'
      BY <2>1, IssuersGrow DEF SeenOK, Going
    <3>3. Exchanged(r).by = "client" =>
            /\ AuthMode(static) = "passthrough" /\ static.strategy = ""
            /\ static.sts => url[r] = NoIssuer
      BY <2>1, ExchangedWhat
    <3> HIDE DEF TypeOK, StateTypeOK, CallsTypeOK
    <3> QED
      BY <2>4, <3>1, <3>2, <3>3
  <2> QED
    BY <2>2, <2>3, <2>4
<1>8. CASE DeriveOwn(r)
  <2>1. header'[r].by = "server"
    BY <1>8 DEF DeriveOwn, ServerOwn
  <2>2. AuthMode(static) = "kubeconfig"
    BY <1>8, StaticType DEF DeriveOwn, AuthMode, Static
  <2> QED
    BY <2>1, <2>2
<1>9. CASE DeriveBearer(r)
  BY <1>2, <1>9 DEF DeriveBearer, Move, calls
<1>10. CASE ~Ask(r) /\ ~Step(r)
  <2>1. CASE Woken(r)
    BY <1>1, <1>10, <2>1, Elsewhere DEF Woken, TokenOK, WellKnownPlaces
  <2> QED
    BY <1>2, <1>10, <2>1, Elsewhere
<1> QED
  BY <1>1, <1>3, <1>4, <1>5, <1>6, <1>7, <1>8, <1>9, <1>10 DEF Step, CallStep, Unauthorized,
    Unavailable, NotVerified, ExchangeFails, DeriveRefused

LEMMA InvStep == Inv /\ [Next]_vars => Inv'
<1> SUFFICES ASSUME Inv, [Next]_vars PROVE Inv'
  OBVIOUS
<1>1. CASE Next
  <2> USE <1>1 DEF Inv
  <2>1. IdleOK' /\ TokenOK' /\ SeenOK' /\ CacheOK'
    BY IdleStep, TokenStep, SeenStep, CacheStep
  <2>2. TypeOK'
    BY StateTypeStep, DocumentTypeStep, CallsTypeStep DEF TypeOK
  <2>3. ConfigOK' /\ FoundOK' /\ RegistrationOK'
    BY <2>1, ConfigStep, FoundStep, RegistrationStep
  <2>4. DocumentOK'
    BY <2>2, DocumentStepOK DEF TypeOK
  <2>5. VerifiedByConfigured' /\ ExchangedWhereConfigured' /\ ClusterCredential'
    BY VerifiedStep, ExchangedStep, ClusterStep
  <2> QED
    BY <2>1, <2>2, <2>3, <2>4, <2>5
<1>2. CASE UNCHANGED vars
  BY <1>2 DEF vars, state, wellKnown, calls, Inv, TypeOK, StateTypeOK, WellKnownTypeOK,
    CallsTypeOK, SeenOK, IdleOK, TokenOK, ConfigOK, CacheOK, DocumentOK, FoundOK,
    RegistrationOK, VerifiedByConfigured, ExchangedWhereConfigured, ClusterCredential,
    IssuersSeen, AuthMode, Upstream
<1> QED
  BY <1>1, <1>2

LEMMA SpecInv == Spec => []Inv
BY InitInv, InvStep, PTL DEF Spec

-----------------------------------------------------------------------------

(* Type correctness of the requests, however many there are: a document is *)
(* one wherever it is worked on, and a token is what TokenOK says.         *)
THEOREM RequestsTypeOK == Spec => []TypeOK
BY SpecInv, PTL DEF Inv

(* No request is answered with the document of an issuer that was not      *)
(* configured while it was served, for any number of reloads.              *)
THEOREM RequestsDocumentOfConfiguredIssuer == Spec => []DocumentOfConfiguredIssuer
<1>1. Inv => DocumentOfConfiguredIssuer
  BY DEF Inv, FoundOK, DocumentOfConfiguredIssuer
<1> QED
  BY <1>1, SpecInv, PTL

(* A registration endpoint is left out for the request's own snapshots.    *)
THEOREM RequestsOverridesNotSticky == Spec => []OverridesNotSticky
<1>1. Inv => OverridesNotSticky
  BY DEF Inv, RegistrationOK, OverridesNotSticky
<1> QED
  BY <1>1, SpecInv, PTL

(* A server started with an authorization URL lets no token pass that no   *)
(* issuer configured during the request has made.                          *)
THEOREM RequestsVerifiedByConfigured == Spec => []VerifiedByConfigured
BY SpecInv, PTL DEF Inv

(* No token is sent to be exchanged to an issuer of an earlier snapshot.   *)
THEOREM RequestsExchangedWhereConfigured == Spec => []ExchangedWhereConfigured
BY SpecInv, PTL DEF Inv

(* The cluster sees the credential the configuration of the start calls    *)
(* for, for every configuration that Validate accepts.                     *)
THEOREM RequestsClusterCredential == Spec => []ClusterCredential
BY SpecInv, PTL DEF Inv

----
(* The rate limiter: RateLimiter *)

-----------------------------------------------------------------------------
(* Settings, and the arithmetic of buckets *)

\* What is in force has natural numbers in it.
LEMMA SettingsType ==
  /\ Settings \subseteq Setting
  /\ Unset \in Settings
<1>1. ASSUME NEW s \in Configured PROVE Effective(s) \in Setting
  BY RateAssumption DEF Setting, Effective
<1>2. Unset \in Setting
  BY DEF Unset, Setting
<1> QED
  BY <1>1, <1>2 DEF Settings

\* Any limit that is on refills a bucket in the time a session may idle.
LEMMA SettingsRefill ==
  ASSUME NEW t \in Settings, t.limit > 0
  PROVE  t.limit * ReapAfter >= t.burst
<1>1. t # Unset
  BY DEF Unset
<1>2. PICK s \in Configured : t = Effective(s)
  BY <1>1 DEF Settings
<1>3. s \in Setting
  BY RateAssumption
<1>4. t.limit = s.limit
  BY <1>2, <1>3 DEF Effective, Setting
<1> QED
  BY <1>2, <1>4, RateAssumption

\* A tick more is a limit more.
LEMMA TickMore ==
  ASSUME NEW i \in Nat, NEW l \in Nat
  PROVE  /\ i * l \in Nat
         /\ (i + 1) * l = i * l + l
  OBVIOUS

LEMMA TicksGrow ==
  ASSUME NEW i \in Nat, NEW j \in Nat, NEW l \in Nat, i <= j
  PROVE  i * l <= j * l
<1>1. PICK k \in Nat : j = i + k
  <2>1. j - i \in Nat /\ j = i + (j - i)
    OBVIOUS
  <2> QED
    BY <2>1
<1>2. j * l = i * l + k * l
  BY <1>1
<1>3. k * l \in Nat /\ i * l \in Nat /\ j * l \in Nat
  OBVIOUS
<1> QED
  BY <1>2, <1>3

LEMMA LeastIs ==
  ASSUME NEW a \in Nat, NEW b \in Nat
  PROVE  /\ Least(a, b) \in Nat /\ Least(a, b) <= a /\ Least(a, b) <= b
         /\ Less(a, b) \in Nat
         /\ Less(a, b) > 0 => Less(a, b) = a - b
  BY DEF Least, Less

-----------------------------------------------------------------------------
(* There is a bucket to take *)

\* One of more buckets than there are sessions and calls is free whatever the
\* sessions have, as long as one call has none.
LEMMA SomeFree ==
  ASSUME NEW left, NEW c \in Calls, call[c].at # "allow"
  PROVE  Free(left) # {}
<1> DEFINE D == {d \in Calls : call[d].at = "allow"}
           A == {left[s] : s \in Sessions}
           B == {call[d].entry : d \in D}
<1>1. IsFiniteSet(Sessions) /\ IsFiniteSet(Calls)
  BY RateAssumption
<1>2. Cardinality(Sessions) \in Nat /\ Cardinality(Calls) \in Nat
  BY <1>1, FS_CardinalityType
<1>3. IsFiniteSet(D) /\ Cardinality(D) < Cardinality(Calls)
  <2>1. D \subseteq Calls /\ D # Calls
    OBVIOUS
  <2> HIDE DEF D
  <2>2. /\ IsFiniteSet(D) /\ Cardinality(D) <= Cardinality(Calls)
        /\ Cardinality(Calls) = Cardinality(D) => Calls = D
    BY <1>1, <2>1, FS_Subset
  <2>3. Cardinality(D) \in Nat
    BY <2>2, FS_CardinalityType
  <2> QED
    BY <1>2, <2>1, <2>2, <2>3
<1>4. IsFiniteSet(A) /\ Cardinality(A) <= Cardinality(Sessions)
  <2> DEFINE f == [s \in Sessions |-> left[s]]
  <2>1. f \in Surjection(Sessions, A)
    BY DEF Surjection
  <2> QED
    BY <1>1, <2>1, FS_Surjection
<1>5. IsFiniteSet(B) /\ Cardinality(B) <= Cardinality(D)
  <2> DEFINE f == [d \in D |-> call[d].entry]
  <2>1. f \in Surjection(D, B)
    BY DEF Surjection
  <2> HIDE DEF D, B
  <2> QED
    BY <1>3, <2>1, FS_Surjection
<1> HIDE DEF A, B, D
<1>6. /\ IsFiniteSet(A \cup B)
      /\ Cardinality(A \cup B) < Cardinality(Sessions) + Cardinality(Calls)
  <2>1. /\ IsFiniteSet(A \cup B)
        /\ Cardinality(A \cup B) = Cardinality(A) + Cardinality(B) - Cardinality(A \cap B)
    BY <1>4, <1>5, FS_Union
  <2>2. /\ Cardinality(A) \in Nat /\ Cardinality(B) \in Nat /\ Cardinality(D) \in Nat
        /\ Cardinality(A \cap B) \in Nat
    BY <1>3, <1>4, <1>5, FS_CardinalityType, FS_Intersection
  <2> QED
    BY <1>2, <1>3, <1>4, <1>5, <2>1, <2>2
<1>7. IsFiniteSet(Buckets) /\ Cardinality(Buckets) = Cardinality(Sessions) + Cardinality(Calls)
  <2>1. 1 \in Int /\ Cardinality(Sessions) + Cardinality(Calls) \in Nat
    BY <1>2
  <2> QED
    BY <1>2, <2>1, FS_Interval DEF Buckets
<1>8. ~ Buckets \subseteq A \cup B
  <2>1. CASE Buckets \subseteq A \cup B
    <3>1. Cardinality(Buckets) <= Cardinality(A \cup B)
      BY <1>6, <2>1, FS_Subset
    <3>2. Cardinality(A \cup B) \in Nat
      BY <1>6, FS_CardinalityType
    <3> QED
      BY <1>2, <1>6, <1>7, <3>1, <3>2
  <2> QED
    BY <2>1
<1> QED
  BY <1>8 DEF Free, A, B, D

-----------------------------------------------------------------------------
(* What taking a bucket does *)

\* The buckets of the sessions, once those of other settings are discarded.
Left(c) == IF call[c].read # current THEN [q \in Sessions |-> None] ELSE limiters

\* A call leaves the mutex with a bucket of its session's own: the one there was,
\* or a full one that nobody has.
LEMMA LockTakes ==
  ASSUME LimiterTypeOK, NEW c \in Calls, Lock(c)
  PROVE  \E b \in Buckets :
           /\ b # None
           /\ limiters' = [Left(c) EXCEPT ![call[c].session] = b]
           /\ call' = [call EXCEPT ![c] = [call[c] EXCEPT !.at = "allow", !.entry = b]]
           /\ \/ Left(c)[call[c].session] = b /\ bucket' = bucket
              \/ /\ Left(c)[call[c].session] = None
                 /\ b \in Free(Left(c))
                 /\ bucket' = [bucket EXCEPT ![b] =
                                 [setting |-> call[c].read, tokens |-> call[c].read.burst]]
<1> DEFINE s == call[c].session
           left == Left(c)
<1>1. /\ call[c] \in [at: {"idle", "lock", "allow"}, session: Sessions,
                      read: Settings, entry: Buckets \cup {None}]
      /\ s \in Sessions
      /\ left \in [Sessions -> Buckets \cup {None}]
  BY DEF LimiterTypeOK, Left
<1>2. /\ call[c].at = "lock"
      /\ call' = [call EXCEPT ![c].at = "allow", ![c].entry = limiters'[s]]
      /\ IF left[s] = None THEN NewLimiter(s, call[c].read, left)
         ELSE limiters' = left /\ UNCHANGED bucket
  BY DEF Lock, Left
<1>3. call' = [call EXCEPT ![c] = [call[c] EXCEPT !.at = "allow", !.entry = limiters'[s]]]
  BY <1>2 DEF LimiterTypeOK
<1>4. None \notin Buckets
  <2>1. Cardinality(Sessions) + Cardinality(Calls) \in Nat
    BY RateAssumption, FS_CardinalityType
  <2> QED
    BY <2>1 DEF Buckets, None
<1> HIDE DEF left, s
<1>5. CASE left[s] = None
  <2> DEFINE b == CHOOSE a \in Free(left) : TRUE
  <2>1. b \in Free(left)
    <3>1. Free(left) # {}
      BY <1>2, SomeFree
    <3> QED
      BY <3>1
  <2>2. b \in Buckets
    BY <2>1 DEF Free
  <2>3. /\ limiters' = [left EXCEPT ![s] = b]
        /\ bucket' = [bucket EXCEPT ![b] =
                        [setting |-> call[c].read, tokens |-> call[c].read.burst]]
    BY <1>2, <1>5 DEF NewLimiter
  <2> HIDE DEF b
  <2>4. limiters'[s] = b
    BY <1>1, <2>3
  <2> QED
    BY <1>3, <1>4, <1>5, <2>1, <2>2, <2>3, <2>4 DEF left, s
<1>6. CASE left[s] # None
  <2>1. limiters' = left /\ bucket' = bucket
    BY <1>2, <1>6
  <2>2. left[s] \in Buckets
    BY <1>1, <1>6
  <2>3. limiters' = [left EXCEPT ![s] = left[s]]
    BY <1>1, <2>1
  <2>4. limiters'[s] = left[s]
    BY <2>1
  <2> QED
    BY <1>3, <1>4, <1>6, <2>1, <2>2, <2>3, <2>4 DEF left, s
<1> QED
  BY <1>5, <1>6

-----------------------------------------------------------------------------
(* Types *)

\* A setting and an entry of the calls' table are records of their types.
LEMMA RecordTypes ==
  ASSUME LimiterTypeOK
  PROVE  /\ \A t \in Settings : t.limit \in Nat /\ t.burst \in Nat
         /\ current.limit \in Nat /\ current.burst \in Nat
         /\ \A b \in Buckets : /\ bucket[b].setting \in Settings
                               /\ bucket[b].tokens \in Nat
                               /\ bucket[b].setting.limit \in Nat
                               /\ bucket[b].setting.burst \in Nat
<1>1. \A t \in Settings : t.limit \in Nat /\ t.burst \in Nat
  BY SettingsType DEF Setting
<1>2. \A b \in Buckets : bucket[b].setting \in Settings /\ bucket[b].tokens \in Nat
  BY DEF LimiterTypeOK
<1>3. current \in Settings
  BY DEF LimiterTypeOK
<1> QED
  BY <1>1, <1>2, <1>3

LEMMA LimiterInitTypes == LimiterInit => LimiterTypeOK
<1> SUFFICES ASSUME LimiterInit PROVE LimiterTypeOK
  OBVIOUS
<1>1. settings \in Settings /\ current \in Settings
  BY SettingsType DEF LimiterInit
<1>2. bucket \in [Buckets -> [setting: Settings, tokens: Nat]]
  BY SettingsType DEF LimiterInit
<1>3. /\ idle \in [Sessions -> 0 .. (ReapAfter + ReapEvery + 1)]
      /\ ticker \in 0 .. ReapEvery
  BY RateAssumption DEF LimiterInit
<1>4. call \in [Calls -> [at: {"idle", "lock", "allow"}, session: Sessions,
                          read: Settings, entry: Buckets \cup {None}]]
  BY SettingsType DEF LimiterInit, NoCall
<1>5. /\ limiters \in [Sessions -> Buckets \cup {None}]
      /\ closed \in BOOLEAN
      /\ spent \in [Sessions -> Nat]
  BY DEF LimiterInit
<1> QED
  BY <1>1, <1>2, <1>3, <1>4, <1>5 DEF LimiterTypeOK

LEMMA LockTypes ==
  ASSUME LimiterTypeOK, NEW c \in Calls, Lock(c)
  PROVE  LimiterTypeOK'
<1> DEFINE Entry == [at: {"idle", "lock", "allow"}, session: Sessions,
                     read: Settings, entry: Buckets \cup {None}]
           s == call[c].session
<1>1. call[c] \in Entry /\ s \in Sessions /\ call[c].read \in Settings
  BY DEF LimiterTypeOK
<1>2. PICK b \in Buckets :
        /\ limiters' = [Left(c) EXCEPT ![s] = b]
        /\ call' = [call EXCEPT ![c] = [call[c] EXCEPT !.at = "allow", !.entry = b]]
        /\ \/ bucket' = bucket
           \/ bucket' = [bucket EXCEPT ![b] =
                           [setting |-> call[c].read, tokens |-> call[c].read.burst]]
  BY LockTakes
<1>3. Left(c) \in [Sessions -> Buckets \cup {None}]
  BY DEF LimiterTypeOK, Left
<1>4. limiters' \in [Sessions -> Buckets \cup {None}]
  BY <1>1, <1>2, <1>3
<1>5. call' \in [Calls -> Entry]
  <2>1. [call[c] EXCEPT !.at = "allow", !.entry = b] \in Entry
    BY <1>1
  <2> HIDE DEF Entry
  <2>2. call \in [Calls -> Entry]
    BY DEF LimiterTypeOK, Entry
  <2> QED
    BY <1>2, <2>1, <2>2
<1>6. bucket' \in [Buckets -> [setting: Settings, tokens: Nat]]
  <2>1. [setting |-> call[c].read, tokens |-> call[c].read.burst]
          \in [setting: Settings, tokens: Nat]
    BY <1>1, RecordTypes
  <2>2. bucket \in [Buckets -> [setting: Settings, tokens: Nat]]
    BY DEF LimiterTypeOK
  <2> QED
    BY <1>2, <2>1, <2>2
<1>7. spent' \in [Sessions -> Nat] /\ current' \in Settings
  BY <1>1 DEF Lock, LimiterTypeOK
<1>8. idle' \in [Sessions -> 0 .. (ReapAfter + ReapEvery + 1)]
  BY RateAssumption DEF Lock, LimiterTypeOK
<1>9. UNCHANGED <<settings, ticker, closed>>
  BY DEF Lock
<1> QED
  BY <1>4, <1>5, <1>6, <1>7, <1>8, <1>9 DEF LimiterTypeOK

LEMMA AllowTypes ==
  ASSUME LimiterTypeOK, CallsSeen, NEW c \in Calls, Allow(c)
  PROVE  LimiterTypeOK'
<1> DEFINE Entry == [at: {"idle", "lock", "allow"}, session: Sessions,
                     read: Settings, entry: Buckets \cup {None}]
           b == call[c].entry
           s == call[c].session
           granted == IF bucket[b].tokens > 0 THEN 1 ELSE 0
<1>1. b \in Buckets /\ s \in Sessions
  BY DEF LimiterTypeOK, CallsSeen, Allow
<1>2. bucket[b] \in [setting: Settings, tokens: Nat]
  BY <1>1 DEF LimiterTypeOK
<1>3. granted \in Nat /\ bucket[b].tokens - granted \in Nat
  BY <1>2
<1>4. bucket' \in [Buckets -> [setting: Settings, tokens: Nat]]
  <2>1. [bucket[b] EXCEPT !.tokens = @ - granted] \in [setting: Settings, tokens: Nat]
    BY <1>2, <1>3
  <2>2. bucket' = [bucket EXCEPT ![b] = [bucket[b] EXCEPT !.tokens = @ - granted]]
    BY DEF Allow, LimiterTypeOK
  <2> HIDE DEF b, granted
  <2> QED
    BY <1>1, <2>1, <2>2 DEF LimiterTypeOK
<1>5. spent' \in [Sessions -> Nat]
  <2>1. spent' = [spent EXCEPT ![s] = IF limiters[s] = b THEN spent[s] + granted ELSE spent[s]]
    BY DEF Allow, LimiterTypeOK
  <2>2. spent \in [Sessions -> Nat] /\ spent[s] \in Nat
    BY <1>1 DEF LimiterTypeOK
  <2> HIDE DEF b, s, granted
  <2> QED
    BY <1>1, <1>3, <2>1, <2>2
<1>6. call' \in [Calls -> Entry]
  BY <1>1, SettingsType DEF Allow, LimiterTypeOK, NoCall
<1>7. UNCHANGED <<settings, current, limiters, idle, ticker, closed>>
  BY DEF Allow
<1> QED
  BY <1>4, <1>5, <1>6, <1>7 DEF LimiterTypeOK

LEMMA TickTypes ==
  ASSUME LimiterTypeOK, Tick
  PROVE  LimiterTypeOK'
<1>1. bucket' \in [Buckets -> [setting: Settings, tokens: Nat]]
  <2> SUFFICES ASSUME NEW b \in Buckets
               PROVE  [bucket[b] EXCEPT !.tokens =
                         Least(bucket[b].tokens + bucket[b].setting.limit,
                               bucket[b].setting.burst)] \in [setting: Settings, tokens: Nat]
    BY DEF Tick
  <2>1. bucket[b].tokens + bucket[b].setting.limit \in Nat /\ bucket[b].setting.burst \in Nat
    BY RecordTypes
  <2>2. Least(bucket[b].tokens + bucket[b].setting.limit, bucket[b].setting.burst) \in Nat
    BY <2>1, LeastIs
  <2>3. bucket[b] \in [setting: Settings, tokens: Nat]
    BY DEF LimiterTypeOK
  <2> QED
    BY <2>2, <2>3
<1>2. spent' \in [Sessions -> Nat]
  <2>1. \A s \in Sessions : spent[s] \in Nat
    BY DEF LimiterTypeOK
  <2>2. \A s \in Sessions : Less(spent[s], current.limit) \in Nat
    BY <2>1, RecordTypes, LeastIs
  <2> QED
    BY <2>2 DEF Tick
<1>3. idle' \in [Sessions -> 0 .. (ReapAfter + ReapEvery + 1)]
  <2>1. ASSUME NEW s \in Sessions
        PROVE  Least(idle[s] + 1, ReapAfter + ReapEvery + 1) \in 0 .. (ReapAfter + ReapEvery + 1)
    BY RateAssumption DEF LimiterTypeOK, Least
  <2> QED
    BY <2>1 DEF Tick
<1>4. ticker' \in 0 .. ReapEvery
  BY RateAssumption DEF Tick, LimiterTypeOK
<1>5. UNCHANGED <<settings, current, limiters, closed, call>>
  BY DEF Tick
<1> QED
  BY <1>1, <1>2, <1>3, <1>4, <1>5 DEF LimiterTypeOK

LEMMA LimiterNextTypes ==
  ASSUME LimiterTypeOK, CallsSeen, [LimiterNext]_limiterVars
  PROVE  LimiterTypeOK'
<1>1. CASE Configure
  BY <1>1 DEF Configure, LimiterTypeOK
<1>2. CASE Tick
  BY <1>2, TickTypes
<1>3. CASE Reap
  BY <1>3, RateAssumption DEF Reap, LimiterTypeOK
<1>4. CASE Close
  BY <1>4 DEF Close, LimiterTypeOK
<1>5. ASSUME NEW c \in Calls, Lock(c) PROVE LimiterTypeOK'
  BY <1>5, LockTypes
<1>6. ASSUME NEW c \in Calls, Allow(c) PROVE LimiterTypeOK'
  BY <1>6, AllowTypes
<1>7. ASSUME NEW c \in Calls, NEW s \in Sessions, Read(c, s) PROVE LimiterTypeOK'
  <2>1. [NoCall(s) EXCEPT !.at = "lock", !.read = settings]
          \in [at: {"idle", "lock", "allow"}, session: Sessions,
               read: Settings, entry: Buckets \cup {None}]
    BY SettingsType DEF NoCall, LimiterTypeOK
  <2> QED
    BY <1>7, <2>1 DEF Read, LimiterTypeOK
<1>8. CASE UNCHANGED limiterVars
  BY <1>8 DEF limiterVars, LimiterTypeOK
<1> QED
  BY <1>1, <1>2, <1>3, <1>4, <1>5, <1>6, <1>7, <1>8 DEF LimiterNext

-----------------------------------------------------------------------------
(* The invariant, action by action *)

\* What of the state is a number, a bucket or a session.
LEMMA StateTypes ==
  ASSUME LimiterTypeOK
  PROVE  /\ \A s \in Sessions : /\ spent[s] \in Nat /\ idle[s] \in Nat
                                /\ limiters[s] \in Buckets \cup {None}
                                /\ limiters[s] # None => limiters[s] \in Buckets
         /\ ticker \in Nat /\ ticker <= ReapEvery
         /\ ReapAfter \in Nat /\ ReapEvery \in Nat
         /\ \A c \in Calls : /\ call[c].session \in Sessions
                             /\ call[c].entry \in Buckets \cup {None}
                             /\ call[c].read \in Settings
<1>1. ReapAfter \in Nat /\ ReapEvery \in Nat
  BY RateAssumption
<1> QED
  BY <1>1 DEF LimiterTypeOK

LEMMA InitHolds == LimiterInit => LimiterInv
<1> SUFFICES ASSUME LimiterInit PROVE LimiterInv
  OBVIOUS
<1>1. \A c \in Calls : call[c].at = "idle"
  BY DEF LimiterInit, NoCall
<1>2. \A s \in Sessions : limiters[s] = None /\ spent[s] = 0
  BY DEF LimiterInit
<1> QED
  BY <1>1, <1>2 DEF LimiterInv, OneOwner, CallsSeen, NothingGained, ReaperOnTime

\* Configure and Close leave the buckets alone, and so does a stutter.
LEMMA OthersKeep ==
  ASSUME LimiterTypeOK, LimiterInv,
         UNCHANGED <<current, limiters, bucket, idle, ticker, call, spent>>,
         closed => closed'
  PROVE  LimiterInv'
  BY DEF LimiterInv, OneOwner, CallsSeen, NothingGained, ReaperOnTime

LEMMA ReadKeeps ==
  ASSUME LimiterTypeOK, LimiterInv, NEW c \in Calls, NEW s \in Sessions, Read(c, s)
  PROVE  LimiterInv'
<1>1. /\ settings.limit > 0
      /\ call' = [call EXCEPT ![c] = [NoCall(s) EXCEPT !.at = "lock", !.read = settings]]
      /\ UNCHANGED <<current, limiters, bucket, idle, ticker, closed, spent>>
  BY DEF Read
<1>2. \A d \in Calls \ {c} : call'[d] = call[d]
  BY <1>1 DEF LimiterTypeOK
<1>3. call'[c].at = "lock" /\ call'[c].read = settings
  BY <1>1 DEF LimiterTypeOK, NoCall
<1>4. OneOwner'
  BY <1>1, <1>2, <1>3 DEF LimiterInv, OneOwner
<1>5. CallsSeen'
  BY <1>1, <1>2, <1>3 DEF LimiterInv, CallsSeen
<1>6. NothingGained' /\ ReaperOnTime'
  BY <1>1 DEF LimiterInv, NothingGained, ReaperOnTime
<1> QED
  BY <1>4, <1>5, <1>6 DEF LimiterInv

\* A session the reaper drops has nothing left to gain.
LEMMA ReapKeeps ==
  ASSUME LimiterTypeOK, LimiterInv, Reap
  PROVE  LimiterInv'
<1>1. /\ ticker = ReapEvery /\ ticker' = 0
      /\ limiters' = [s \in Sessions |-> IF idle[s] > ReapAfter THEN None ELSE limiters[s]]
      /\ UNCHANGED <<settings, current, bucket, idle, closed, call, spent>>
  BY DEF Reap
<1>2. \A s \in Sessions : limiters'[s] # None => limiters'[s] = limiters[s]
  BY <1>1
<1>3. OneOwner'
  BY <1>1, <1>2 DEF LimiterInv, OneOwner, CallsSeen
<1>4. CallsSeen'
  BY <1>1 DEF LimiterInv, CallsSeen
<1>5. ASSUME NEW s \in Sessions, limiters'[s] = None PROVE spent[s] = 0
  <2>1. CASE limiters[s] = None
    BY <2>1 DEF LimiterInv, NothingGained
  <2>2. CASE limiters[s] # None
    <3>1. idle[s] > ReapAfter
      BY <1>1, <1>5, <2>2
    <3>2. current \in Settings /\ current.limit > 0
      BY <2>2 DEF LimiterInv, NothingGained, LimiterTypeOK
    <3>3. current.limit * ReapAfter >= current.burst
      BY <3>2, SettingsRefill
    <3>4. /\ idle[s] \in Nat /\ ReapAfter \in Nat /\ spent[s] \in Nat
          /\ current.limit \in Nat /\ current.burst \in Nat
      BY StateTypes, RecordTypes
    <3>5. ReapAfter * current.limit <= idle[s] * current.limit
      BY <3>1, <3>4, TicksGrow
    <3>6. ReapAfter * current.limit = current.limit * ReapAfter
      BY <3>4
    <3>7. spent[s] > 0 => spent[s] + idle[s] * current.limit <= current.burst
      BY DEF LimiterInv, NothingGained
    <3>8. /\ idle[s] * current.limit \in Nat /\ ReapAfter * current.limit \in Nat
      BY <3>4, TickMore
    <3> QED
      BY <3>3, <3>4, <3>5, <3>6, <3>7, <3>8
  <2> QED
    BY <2>1, <2>2
<1>6. NothingGained'
  BY <1>1, <1>2, <1>5 DEF LimiterInv, NothingGained
<1>7. ReaperOnTime'
  <2>1. \A s \in Sessions : limiters'[s] # None => idle[s] <= ReapAfter
    BY <1>1, StateTypes
  <2>2. ReapAfter + ticker' = ReapAfter
    BY <1>1, RateAssumption
  <2> QED
    BY <1>1, <2>1, <2>2 DEF ReaperOnTime
<1> QED
  BY <1>3, <1>4, <1>6, <1>7 DEF LimiterInv

\* What a tick puts into a session's bucket its ideal one gets too.
LEMMA TickKeeps ==
  ASSUME LimiterTypeOK, LimiterInv, Tick
  PROVE  LimiterInv'
<1>1. /\ \A c \in Calls : call[c].at # "allow"
      /\ UNCHANGED <<settings, current, limiters, closed, call>>
      /\ ticker' = IF closed THEN ticker ELSE ticker + 1
  BY DEF Tick
<1>2. \A s \in Sessions : /\ idle'[s] \in Nat /\ idle'[s] <= idle[s] + 1
                          /\ spent'[s] = Less(spent[s], current.limit)
  <2> SUFFICES ASSUME NEW s \in Sessions
               PROVE  /\ idle'[s] \in Nat /\ idle'[s] <= idle[s] + 1
                      /\ spent'[s] = Less(spent[s], current.limit)
    OBVIOUS
  <2>1. idle[s] + 1 \in Nat /\ ReapAfter + ReapEvery + 1 \in Nat
    BY StateTypes
  <2>2. /\ idle'[s] = Least(idle[s] + 1, ReapAfter + ReapEvery + 1)
        /\ spent'[s] = Less(spent[s], current.limit)
    BY DEF Tick
  <2> QED
    BY <2>1, <2>2, LeastIs
<1>3. ASSUME NEW b \in Buckets
      PROVE  /\ bucket'[b].setting = bucket[b].setting
             /\ bucket'[b].tokens \in Nat
             /\ bucket'[b].tokens <= bucket[b].tokens + bucket[b].setting.limit
             /\ bucket'[b].tokens <= bucket[b].setting.burst
  <2>1. bucket[b] \in [setting: Settings, tokens: Nat]
    BY DEF LimiterTypeOK
  <2>2. bucket'[b] = [bucket[b] EXCEPT !.tokens =
                        Least(bucket[b].tokens + bucket[b].setting.limit,
                              bucket[b].setting.burst)]
    BY DEF Tick
  <2>3. /\ bucket[b].tokens + bucket[b].setting.limit \in Nat
        /\ bucket[b].setting.burst \in Nat
    BY RecordTypes
  <2>4. /\ bucket'[b].setting = bucket[b].setting
        /\ bucket'[b].tokens = Least(bucket[b].tokens + bucket[b].setting.limit,
                                     bucket[b].setting.burst)
    BY <2>1, <2>2
  <2> QED
    BY <2>3, <2>4, LeastIs
<1>4. OneOwner' /\ CallsSeen'
  BY <1>1 DEF LimiterInv, OneOwner, CallsSeen
<1>5. ASSUME NEW s \in Sessions
      PROVE  /\ spent[s] \in Nat /\ current.limit \in Nat /\ current.burst \in Nat
             /\ idle[s] \in Nat /\ spent'[s] \in Nat
             /\ spent'[s] > 0 => spent'[s] = spent[s] - current.limit
             /\ spent[s] = 0 => spent'[s] = 0
  <2>1. /\ spent[s] \in Nat /\ current.limit \in Nat /\ current.burst \in Nat
        /\ idle[s] \in Nat
    BY StateTypes, RecordTypes
  <2>2. spent'[s] = Less(spent[s], current.limit)
    BY <1>2
  <2>3. spent[s] = 0 => Less(spent[s], current.limit) = 0
    BY <2>1 DEF Less
  <2> QED
    BY <2>1, <2>2, <2>3, LeastIs
<1>6. ASSUME NEW s \in Sessions, limiters[s] # None
      PROVE  /\ bucket'[limiters[s]].setting = current /\ current.limit > 0
             /\ bucket'[limiters[s]].tokens + spent'[s] <= current.burst
  <2>1. limiters[s] \in Buckets
    BY <1>6, StateTypes
  <2>2. /\ bucket[limiters[s]].setting = current /\ current.limit > 0
        /\ bucket[limiters[s]].tokens + spent[s] <= current.burst
    BY <1>6 DEF LimiterInv, NothingGained
  <2>3. bucket[limiters[s]].tokens \in Nat
    BY <2>1, RecordTypes
  <2> HIDE DEF LimiterInv
  <2> QED
    BY <1>3, <1>5, <2>1, <2>2, <2>3
<1>7. ASSUME NEW s \in Sessions, spent'[s] > 0
      PROVE  spent'[s] + idle'[s] * current.limit <= current.burst
  <2>1. spent[s] > 0 /\ spent'[s] + current.limit = spent[s]
    BY <1>5, <1>7
  <2>2. spent[s] + idle[s] * current.limit <= current.burst
    BY <2>1 DEF LimiterInv, NothingGained
  <2>3. idle'[s] * current.limit <= (idle[s] + 1) * current.limit
    BY <1>2, <1>5, TicksGrow
  <2>4. /\ (idle[s] + 1) * current.limit = idle[s] * current.limit + current.limit
        /\ idle[s] * current.limit \in Nat
    BY <1>5, TickMore
  <2>5. idle'[s] * current.limit \in Nat
    BY <1>2, <1>5, TickMore
  <2> QED
    BY <1>5, <2>1, <2>2, <2>3, <2>4, <2>5
<1>8. NothingGained'
  <2>1. \A s \in Sessions : limiters[s] = None => spent[s] = 0
    BY DEF LimiterInv, NothingGained
  <2> QED
    BY <1>1, <1>5, <1>6, <1>7, <2>1 DEF NothingGained
<1>9. ReaperOnTime'
  <2>1. \A s \in Sessions : ~closed /\ limiters[s] # None => idle[s] <= ReapAfter + ticker
    BY DEF LimiterInv, ReaperOnTime
  <2> QED
    BY <1>1, <1>2, <2>1, StateTypes DEF ReaperOnTime
<1> QED
  BY <1>4, <1>8, <1>9 DEF LimiterInv

\* What a call takes from its session's bucket the ideal one is short of, too;
\* what it takes from a bucket that has been discarded is nobody's.
LEMMA AllowKeeps ==
  ASSUME LimiterTypeOK, LimiterInv, NEW c \in Calls, Allow(c)
  PROVE  LimiterInv'
<1> DEFINE b == call[c].entry
           s == call[c].session
           granted == IF bucket[b].tokens > 0 THEN 1 ELSE 0
<1>1. /\ call[c].at = "allow" /\ call' = [call EXCEPT ![c] = NoCall(s)]
      /\ UNCHANGED <<settings, current, limiters, idle, ticker, closed>>
  BY DEF Allow
<1>2. b \in Buckets /\ s \in Sessions /\ b # None /\ idle[s] = 0
  BY <1>1, StateTypes DEF LimiterInv, CallsSeen
<1>3. /\ \A d \in Calls \ {c} : call'[d] = call[d]
      /\ call'[c].at = "idle"
  BY <1>1 DEF LimiterTypeOK, NoCall
<1>4. OneOwner' /\ CallsSeen'
  BY <1>1, <1>3 DEF LimiterInv, OneOwner, CallsSeen
<1>5. ReaperOnTime'
  BY <1>1 DEF LimiterInv, ReaperOnTime
<1>6. bucket[b].tokens \in Nat /\ granted \in Nat /\ bucket[b].tokens - granted \in Nat
  BY <1>2, RecordTypes
<1>7. /\ bucket'[b].tokens = bucket[b].tokens - granted
      /\ bucket'[b].setting = bucket[b].setting
      /\ \A a \in Buckets \ {b} : bucket'[a] = bucket[a]
  <2>1. bucket' = [bucket EXCEPT ![b] = [bucket[b] EXCEPT !.tokens = @ - granted]]
    BY DEF Allow, LimiterTypeOK
  <2>2. /\ bucket \in [Buckets -> [setting: Settings, tokens: Nat]]
        /\ bucket[b] \in [setting: Settings, tokens: Nat]
    BY <1>2 DEF LimiterTypeOK
  <2> HIDE DEF b, granted
  <2> QED
    BY <1>2, <2>1, <2>2
<1>8. /\ spent'[s] = IF limiters[s] = b THEN spent[s] + granted ELSE spent[s]
      /\ \A q \in Sessions \ {s} : spent'[q] = spent[q]
  BY <1>2 DEF Allow, LimiterTypeOK
<1>9. \A q \in Sessions : limiters[q] = b => q = s
  BY <1>1 DEF LimiterInv, OneOwner
<1> HIDE DEF b, s, granted
<1>10. ASSUME NEW q \in Sessions, q = s, limiters[q] = b
       PROVE  /\ bucket'[limiters[q]].setting = current /\ current.limit > 0
              /\ bucket'[limiters[q]].tokens + spent'[q] <= current.burst
              /\ spent'[q] + idle[q] * current.limit <= current.burst
  <2>1. /\ bucket[b].setting = current /\ current.limit > 0
        /\ bucket[b].tokens + spent[s] <= current.burst
    BY <1>2, <1>10 DEF LimiterInv, NothingGained
  <2>2. spent[s] \in Nat /\ current.burst \in Nat /\ current.limit \in Nat
    BY <1>2, StateTypes, RecordTypes
  <2>3. bucket'[b].tokens + spent'[s] <= current.burst /\ bucket'[b].tokens \in Nat
    BY <1>6, <1>7, <1>8, <1>10, <2>1, <2>2
  <2>4. spent'[s] \in Nat
    BY <1>6, <1>8, <1>10, <2>2
  <2>5. idle[q] * current.limit = 0
    BY <1>2, <1>10, <2>2
  <2> QED
    BY <1>7, <1>10, <2>1, <2>2, <2>3, <2>4, <2>5
<1>11. ASSUME NEW q \in Sessions, ~(q = s /\ limiters[q] = b)
       PROVE  spent'[q] = spent[q] /\ limiters[q] # b
  BY <1>8, <1>9, <1>11
<1>12. ASSUME NEW q \in Sessions, limiters[q] # b, limiters[q] # None
       PROVE  bucket'[limiters[q]] = bucket[limiters[q]]
  BY <1>7, <1>12, StateTypes
<1>13. NothingGained'
  <2> SUFFICES ASSUME NEW q \in Sessions
               PROVE  /\ limiters[q] = None => spent'[q] = 0
                      /\ limiters[q] # None =>
                           /\ bucket'[limiters[q]].setting = current /\ current.limit > 0
                           /\ bucket'[limiters[q]].tokens + spent'[q] <= current.burst
                      /\ spent'[q] > 0 => spent'[q] + idle[q] * current.limit <= current.burst
    BY <1>1 DEF NothingGained
  <2>1. CASE q = s /\ limiters[q] = b
    BY <1>2, <1>10, <2>1
  <2>2. CASE ~(q = s /\ limiters[q] = b)
    BY <1>11, <1>12, <2>2 DEF LimiterInv, NothingGained
  <2> QED
    BY <2>1, <2>2
<1> QED
  BY <1>4, <1>5, <1>13 DEF LimiterInv

\* A new bucket is full only for a session that has nothing to gain by it.
LEMMA LockKeeps ==
  ASSUME LimiterTypeOK, LimiterInv, NEW c \in Calls, Lock(c)
  PROVE  LimiterInv'
<1> DEFINE s == call[c].session
           left == Left(c)
<1>1. /\ call[c].at = "lock" /\ current' = call[c].read
      /\ spent' = IF call[c].read # current THEN [q \in Sessions |-> 0] ELSE spent
      /\ idle' = [idle EXCEPT ![s] = 0]
      /\ UNCHANGED <<settings, ticker, closed>>
  BY DEF Lock
<1>2. s \in Sessions /\ call[c].read \in Settings
  BY StateTypes
<1>3. PICK b \in Buckets :
        /\ b # None
        /\ limiters' = [left EXCEPT ![s] = b]
        /\ call' = [call EXCEPT ![c] = [call[c] EXCEPT !.at = "allow", !.entry = b]]
        /\ \/ left[s] = b /\ bucket' = bucket
           \/ /\ left[s] = None
              /\ b \in Free(left)
              /\ bucket' = [bucket EXCEPT ![b] =
                              [setting |-> call[c].read, tokens |-> call[c].read.burst]]
  BY LockTakes
<1>4. /\ left \in [Sessions -> Buckets \cup {None}]
      /\ call[c].read # current => \A q \in Sessions : left[q] = None
      /\ call[c].read = current => left = limiters
      /\ \A q \in Sessions : left[q] # None => left = limiters
  BY DEF LimiterTypeOK, Left
<1>5. /\ limiters'[s] = b
      /\ \A q \in Sessions \ {s} : limiters'[q] = left[q]
  BY <1>2, <1>3, <1>4
<1>6. /\ idle'[s] = 0
      /\ \A q \in Sessions : idle'[q] = idle[q] \/ idle'[q] = 0
      /\ \A q \in Sessions \ {s} : idle'[q] = idle[q]
  BY <1>1, <1>2 DEF LimiterTypeOK
<1>7. /\ call'[c].at = "allow" /\ call'[c].entry = b /\ call'[c].session = s
      /\ \A d \in Calls \ {c} : call'[d] = call[d]
  BY <1>3 DEF LimiterTypeOK
<1> HIDE DEF s, left
<1>8. \A q \in Sessions : left[q] = b => q = s
  BY <1>2, <1>3, <1>4 DEF Free, LimiterInv, OneOwner
<1>9. ASSUME NEW d \in Calls, call[d].at = "allow", NEW q \in Sessions,
             limiters'[q] = call[d].entry
      PROVE  q = call[d].session
  <2>1. call[d].entry # None
    BY <1>9 DEF LimiterInv, CallsSeen
  <2>2. b \in Free(left) => b # call[d].entry
    BY <1>9 DEF Free
  <2>3. left[q] = call[d].entry
    BY <1>3, <1>5, <1>9, <2>2
  <2>4. limiters[q] = call[d].entry
    BY <1>4, <2>1, <2>3
  <2> QED
    BY <1>9, <2>4 DEF LimiterInv, OneOwner
<1>10. OneOwner'
  <2>1. \A p, q \in Sessions : limiters'[p] = limiters'[q] /\ limiters'[p] # None => p = q
    BY <1>4, <1>5, <1>8 DEF LimiterInv, OneOwner
  <2>2. ASSUME NEW d \in Calls, NEW q \in Sessions,
               call'[d].at = "allow", limiters'[q] = call'[d].entry
        PROVE  q = call'[d].session
    BY <1>5, <1>7, <1>8, <1>9, <2>2
  <2> QED
    BY <2>1, <2>2 DEF OneOwner
<1>11. CallsSeen'
  <2>1. \A d \in Calls : call[d].session \in Sessions
    BY StateTypes
  <2> QED
    BY <1>3, <1>6, <1>7, <2>1 DEF LimiterInv, CallsSeen
<1>12. ReaperOnTime'
  <2>1. ReapAfter + ticker >= 0
    BY StateTypes
  <2> QED
    BY <1>1, <1>4, <1>5, <1>6, <2>1 DEF LimiterInv, ReaperOnTime
<1>13. ASSUME NEW q \in Sessions, q # s
       PROVE  /\ limiters'[q] = None => spent'[q] = 0
              /\ limiters'[q] # None =>
                   /\ bucket'[limiters'[q]].setting = current' /\ current'.limit > 0
                   /\ bucket'[limiters'[q]].tokens + spent'[q] <= current'.burst
              /\ spent'[q] > 0 => spent'[q] + idle'[q] * current'.limit <= current'.burst
  <2>1. limiters'[q] = left[q] /\ idle'[q] = idle[q]
    BY <1>5, <1>6, <1>13
  <2>2. CASE call[c].read # current
    BY <1>1, <1>4, <2>1, <2>2
  <2>3. CASE call[c].read = current
    <3>1. current' = current /\ spent'[q] = spent[q] /\ limiters'[q] = limiters[q]
      BY <1>1, <1>4, <2>1, <2>3
    <3>2. limiters[q] # None => bucket'[limiters[q]] = bucket[limiters[q]]
      <4>1. limiters[q] # None => limiters[q] \in Buckets
        BY StateTypes
      <4>2. limiters[q] # b
        BY <1>8, <1>13, <2>1, <3>1
      <4> QED
        BY <1>3, <4>1, <4>2 DEF LimiterTypeOK
    <3> QED
      BY <2>1, <3>1, <3>2 DEF LimiterInv, NothingGained
  <2> QED
    BY <2>2, <2>3
<1>14. /\ bucket'[b].setting = current' /\ current'.limit > 0
       /\ bucket'[b].tokens + spent'[s] <= current'.burst
       /\ bucket'[b].tokens \in Nat /\ spent'[s] \in Nat
  <2>1. call[c].read.limit > 0
    BY <1>1 DEF LimiterInv, CallsSeen
  <2>2. call[c].read.burst \in Nat /\ spent[s] \in Nat
    BY <1>2, StateTypes, RecordTypes
  <2>3. CASE left[s] = b /\ bucket' = bucket
    <3>1. left = limiters /\ call[c].read = current
      BY <1>2, <1>3, <1>4, <2>3
    <3>2. /\ bucket[b].setting = current
          /\ bucket[b].tokens + spent[s] <= current.burst
      BY <1>2, <1>3, <2>3, <3>1 DEF LimiterInv, NothingGained
    <3>3. bucket[b].tokens \in Nat
      BY RecordTypes
    <3> QED
      BY <1>1, <2>1, <2>2, <2>3, <3>1, <3>2, <3>3
  <2>4. CASE /\ left[s] = None
             /\ bucket' = [bucket EXCEPT ![b] =
                             [setting |-> call[c].read, tokens |-> call[c].read.burst]]
    <3>1. bucket'[b] = [setting |-> call[c].read, tokens |-> call[c].read.burst]
      BY <2>4 DEF LimiterTypeOK
    <3>2. spent'[s] = 0
      BY <1>1, <1>2, <1>4, <2>4 DEF LimiterInv, NothingGained
    <3> QED
      BY <1>1, <2>1, <2>2, <3>1, <3>2
  <2> QED
    BY <1>3, <2>3, <2>4
<1>15. spent'[s] + idle'[s] * current'.limit <= current'.burst
  <2>1. current'.limit \in Nat /\ current'.burst \in Nat
    BY <1>1, <1>2, RecordTypes
  <2>2. idle'[s] * current'.limit = 0
    BY <1>6, <2>1
  <2> QED
    BY <1>14, <2>1, <2>2
<1>16. NothingGained'
  <2> SUFFICES ASSUME NEW q \in Sessions
               PROVE  /\ limiters'[q] = None => spent'[q] = 0
                      /\ limiters'[q] # None =>
                           /\ bucket'[limiters'[q]].setting = current' /\ current'.limit > 0
                           /\ bucket'[limiters'[q]].tokens + spent'[q] <= current'.burst
                      /\ spent'[q] > 0 =>
                           spent'[q] + idle'[q] * current'.limit <= current'.burst
    BY DEF NothingGained
  <2>1. CASE q = s
    BY <1>3, <1>5, <1>14, <1>15, <2>1
  <2>2. CASE q # s
    BY <1>13, <2>2
  <2> QED
    BY <2>1, <2>2
<1> QED
  BY <1>10, <1>11, <1>12, <1>16 DEF LimiterInv

LEMMA LimiterNextKeeps ==
  ASSUME LimiterTypeOK, LimiterInv, [LimiterNext]_limiterVars
  PROVE  LimiterInv'
<1>1. CASE Configure
  BY <1>1, OthersKeep DEF Configure
<1>2. CASE Tick
  BY <1>2, TickKeeps
<1>3. CASE Reap
  BY <1>3, ReapKeeps
<1>4. CASE Close
  BY <1>4, OthersKeep DEF Close
<1>5. ASSUME NEW c \in Calls, Lock(c) PROVE LimiterInv'
  BY <1>5, LockKeeps
<1>6. ASSUME NEW c \in Calls, Allow(c) PROVE LimiterInv'
  BY <1>6, AllowKeeps
<1>7. ASSUME NEW c \in Calls, NEW s \in Sessions, Read(c, s) PROVE LimiterInv'
  BY <1>7, ReadKeeps
<1>8. CASE UNCHANGED limiterVars
  BY <1>8, OthersKeep DEF limiterVars
<1> QED
  BY <1>1, <1>2, <1>3, <1>4, <1>5, <1>6, <1>7, <1>8 DEF LimiterNext

-----------------------------------------------------------------------------
(* The theorems *)

\* Every variable has its type, whatever calls, reloads and the reaper do: a
\* bucket never has less than no tokens, and one can always be found for a
\* session (rateLimitMiddleware, getOrCreate).
THEOREM LimiterTypes == LimiterSpec => []LimiterTypeOK
<1>1. LimiterInit => LimiterTypeOK /\ LimiterInv
  BY LimiterInitTypes, InitHolds
<1>2. LimiterTypeOK /\ LimiterInv /\ [LimiterNext]_limiterVars => (LimiterTypeOK /\ LimiterInv)'
  BY LimiterNextTypes, LimiterNextKeeps DEF LimiterInv
<1> QED
  BY <1>1, <1>2, PTL DEF LimiterSpec

\* What is behind the theorems below: buckets have one owner, those of the
\* sessions are made for the settings of the last call and hold no more than
\* ideal ones, and the reaper is on time.
THEOREM LimiterInvariant == LimiterSpec => []LimiterInv
<1>1. LimiterInit => LimiterTypeOK /\ LimiterInv
  BY LimiterInitTypes, InitHolds
<1>2. LimiterTypeOK /\ LimiterInv /\ [LimiterNext]_limiterVars => (LimiterTypeOK /\ LimiterInv)'
  BY LimiterNextTypes, LimiterNextKeeps DEF LimiterInv
<1> QED
  BY <1>1, <1>2, PTL DEF LimiterSpec

\* No session is granted more than one bucket that is never dropped would grant,
\* for any settings whose limit fills a bucket before the reaper drops it.
THEOREM RateIsHeld == LimiterSpec => []RateHeld
<1>1. LimiterTypeOK /\ LimiterInv => RateHeld
  <2> SUFFICES ASSUME LimiterTypeOK, LimiterInv, NEW s \in Sessions
               PROVE  spent[s] <= current.burst
    BY DEF RateHeld
  <2>1. /\ spent[s] \in Nat /\ idle[s] \in Nat
        /\ current.limit \in Nat /\ current.burst \in Nat
    BY StateTypes, RecordTypes
  <2>2. idle[s] * current.limit \in Nat
    BY <2>1, TickMore
  <2>3. spent[s] > 0 => spent[s] + idle[s] * current.limit <= current.burst
    BY DEF LimiterInv, NothingGained
  <2> QED
    BY <2>1, <2>2, <2>3
<1> QED
  BY <1>1, LimiterTypes, LimiterInvariant, PTL

\* The map of buckets forgets the sessions that are idle, for any periods.
THEOREM IdleAreDropped == LimiterSpec => []IdleDropped
<1>1. LimiterTypeOK /\ LimiterInv => IdleDropped
  <2> SUFFICES ASSUME LimiterTypeOK, LimiterInv, NEW s \in Sessions,
                      ~closed, limiters[s] # None
               PROVE  idle[s] <= ReapAfter + ReapEvery
    BY DEF IdleDropped
  <2>1. idle[s] <= ReapAfter + ticker
    BY DEF LimiterInv, ReaperOnTime
  <2> QED
    BY <2>1, StateTypes
<1> QED
  BY <1>1, LimiterTypes, LimiterInvariant, PTL
=============================================================================
