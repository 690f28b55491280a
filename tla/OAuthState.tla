------------------------------ MODULE OAuthState ------------------------------
(***************************************************************************)
(* The OAuth snapshot as the requests of the HTTP server see it.  A reload *)
(* stores a new one (SighupReload shows that its parts belong together, so *)
(* here a snapshot is the issuer, whose OIDC provider and client it holds, *)
(* and what the well-known documents depend on).  A request loads it       *)
(* several times, and reloads may fall in between.                         *)
(***************************************************************************)
EXTENDS Naturals

CONSTANTS
  Requests,    \* goroutines of the HTTP server, each with one request at a time
  Issuers,     \* authorization servers
  NoIssuer,    \* authorization_url is not set
  MaxReloads   \* bound: reloads, over a behaviour

ASSUME OAuthAssumption == NoIssuer \notin Issuers /\ MaxReloads \in Nat

Snapshot == [issuer: Issuers \cup {NoIssuer}, noRegistration: BOOLEAN]

VARIABLES
  snapshot,    \* oauth.State
  reloads,     \* reloads so far
  at,          \* where each request stands
  url,         \* the issuer of the snapshot it has loaded last
  seen         \* the snapshots in force since it began

state == <<snapshot, reloads, at, url, seen>>

IssuersSeen(r) == {s.issuer : s \in seen[r]}

StateTypeOK(Places) ==
  /\ snapshot \in Snapshot
  /\ reloads \in Nat
  /\ at \in [Requests -> Places]
  /\ url \in [Requests -> Issuers \cup {NoIssuer}]
  /\ seen \in [Requests -> SUBSET Snapshot]

StateInit ==
  /\ snapshot \in Snapshot
  /\ reloads = 0
  /\ at = [r \in Requests |-> "idle"]
  /\ url = [r \in Requests |-> NoIssuer]
  /\ seen = [r \in Requests |-> {}]

\* State.Store, at any time.
Store ==
  /\ reloads < MaxReloads
  /\ reloads' = reloads + 1
  /\ snapshot' \in Snapshot
  /\ seen' = [r \in Requests |->
                IF at[r] = "idle" THEN seen[r] ELSE seen[r] \cup {snapshot'}]
  /\ UNCHANGED <<at, url>>

\* A request arrives.
Begin(r, to) ==
  /\ at[r] = "idle"
  /\ at' = [at EXCEPT ![r] = to]
  /\ url' = [url EXCEPT ![r] = snapshot.issuer]
  /\ seen' = [seen EXCEPT ![r] = {snapshot}]
  /\ UNCHANGED <<snapshot, reloads>>

\* One step of a request: with what it has in hand ...
Move(r, from, to) ==
  /\ at[r] = from
  /\ at' = [at EXCEPT ![r] = to]
  /\ UNCHANGED <<snapshot, reloads, url, seen>>

\* ... or with the snapshot loaded anew (State.Load).
Load(r, from, to) ==
  /\ at[r] = from
  /\ at' = [at EXCEPT ![r] = to]
  /\ url' = [url EXCEPT ![r] = snapshot.issuer]
  /\ UNCHANGED <<snapshot, reloads, seen>>

\* The handler returns.
Return(r) ==
  /\ at[r] = "answered"
  /\ at' = [at EXCEPT ![r] = "idle"]
  /\ url' = [url EXCEPT ![r] = NoIssuer]
  /\ seen' = [seen EXCEPT ![r] = {}]
  /\ UNCHANGED <<snapshot, reloads>>
=============================================================================
