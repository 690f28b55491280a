-------------------------- MODULE SighupReloadProofs --------------------------
(* Safety of reloads on SIGHUP, for any files, flags, issuers and signals. *)
EXTENDS SighupReload, TLAPS

LEMMA MergeType ==
  ASSUME NEW part \in Parts \cup Flags, NEW c \in StaticConfig
  PROVE  deepMerge(c, part) \in StaticConfig
BY SighupAssumption

LEMMA SnapshotType ==
  ASSUME NEW c \in StaticConfig, NEW p \in Issuers \cup {NoIssuer}
  PROVE  SnapshotFromConfig(c, p) \in Snapshot
BY DEF SnapshotFromConfig, Snapshot, StaticConfig

LEMMA InitialType == Init => TypeOK
<1> SUFFICES ASSUME Init PROVE TypeOK
  OBVIOUS
<1>1. Defaults \in StaticConfig
  BY SighupAssumption
<1>2. config \in StaticConfig
  <2> DEFINE m == deepMerge(Defaults, main)
             d == deepMerge(m, dropIn)
             f == deepMerge(d, flags)
  <2>1. m \in StaticConfig
    BY <1>1, MergeType DEF Init
  <2>2. d \in StaticConfig
    BY <2>1, MergeType DEF Init
  <2>3. f \in StaticConfig
    BY <2>2, MergeType DEF Init
  <2>4. config = [f EXCEPT !.requireOAuth = f.requireOAuth /\ transport = "http"]
    BY DEF Init, Started, Read
  <2> HIDE DEF f
  <2>5. (f.requireOAuth /\ transport = "http") \in BOOLEAN
    OBVIOUS
  <2> DEFINE b == f.requireOAuth /\ transport = "http"
  <2>6. b \in BOOLEAN /\ config = [f EXCEPT !.requireOAuth = b]
    BY <2>4, <2>5
  <2> HIDE DEF b
  <2> QED
    BY <2>3, <2>6 DEF StaticConfig
<1>3. snapshot \in Snapshot
  <2>1. config.issuer \in Issuers \cup {NoIssuer}
    BY <1>2 DEF StaticConfig
  <2> QED
    BY <1>2, <2>1, SnapshotType DEF Init
<1> QED
  BY <1>1, <1>2, <1>3 DEF Init, TypeOK

LEMMA TypeStep == TypeOK /\ [Next]_vars => TypeOK'
<1> SUFFICES ASSUME TypeOK, [Next]_vars PROVE TypeOK'
  OBVIOUS
<1> USE DEF Goto, files, channels, oauth
<1>0. CASE EditMain \/ EditDropIn
  BY <1>0 DEF EditMain, EditDropIn, TypeOK
<1>1. CASE Hangup
  <2>1. sigChan' \in BOOLEAN /\ signalled' \in Nat /\ signals' \in Nat
    BY <1>1 DEF Hangup, TypeOK
  <2> QED
    BY <1>1, <2>1 DEF Hangup, TypeOK
<1>2. CASE TakeSignal \/ ReadFails \/ Reject \/ Apply \/ KeepOAuth \/ NeedProvider
  BY <1>2 DEF TakeSignal, ReadFails, Reject, Apply, KeepOAuth, NeedProvider, TypeOK
<1>3. CASE ReadMain
  <2>1. deepMerge(Defaults, main) \in StaticConfig
    BY <1>3, MergeType, SighupAssumption DEF ReadMain, TypeOK
  <2> QED
    BY <1>3, <2>1 DEF ReadMain, TypeOK
<1>4. CASE ReadDropIn
  <2>1. deepMerge(newConfig, dropIn) \in StaticConfig
    BY <1>4, MergeType DEF ReadDropIn, TypeOK
  <2> QED
    BY <1>4, <2>1 DEF ReadDropIn, TypeOK
<1>5. CASE StoreWellKnown
  <2>1. SnapshotFromConfig(newConfig, snapshot.provider) \in Snapshot
    BY SnapshotType DEF TypeOK, Snapshot
  <2> QED
    BY <1>5, <2>1 DEF StoreWellKnown, TypeOK
<1>6. CASE StoreProvider
  <2>1. SnapshotFromConfig(newConfig, newConfig.issuer) \in Snapshot
    BY SnapshotType DEF TypeOK, StaticConfig
  <2> QED
    BY <1>6, <2>1 DEF StoreProvider, TypeOK
<1>7. CASE CreateFails
  BY <1>7 DEF CreateFails, TypeOK
<1>8. CASE AskToStop \/ TakeStop \/ Exit
  BY <1>8 DEF AskToStop, TakeStop, Exit, TypeOK
<1>9. CASE UNCHANGED vars
  BY <1>9 DEF vars, TypeOK
<1> QED
  BY <1>0, <1>1, <1>2, <1>3, <1>4, <1>5, <1>6, <1>7, <1>8, <1>9 DEF Next, Handle

\* Every variable keeps its type, and no configuration is ever in force that
\* Validate does not accept.
THEOREM SighupTypeOK == Spec => []TypeOK
BY InitialType, TypeStep, PTL DEF Spec

-----------------------------------------------------------------------------
(* The OAuth state *)

LEMMA InitialOAuth == Init => OAuthInv
BY DEF Init, OAuthInv, SnapshotConsistent, OAuthAgrees, SnapshotFromConfig

LEMMA OAuthStep ==
  ASSUME TypeOK, OAuthInv, [Next]_vars
  PROVE  OAuthInv'
<1> USE DEF Goto, files, channels, oauth
<1>1. CASE EditMain \/ EditDropIn \/ Hangup
  BY <1>1 DEF EditMain, EditDropIn, Hangup, OAuthInv, SnapshotConsistent, OAuthAgrees
<1>2. CASE TakeSignal \/ ReadMain \/ ReadDropIn \/ ReadFails \/ Reject
  BY <1>2 DEF TakeSignal, ReadMain, ReadDropIn, ReadFails, Reject, OAuthInv,
              SnapshotConsistent, OAuthAgrees
<1>3. CASE Apply \/ NeedProvider \/ CreateFails
  BY <1>3 DEF Apply, NeedProvider, CreateFails, OAuthInv, SnapshotConsistent, OAuthAgrees
<1>4. CASE KeepOAuth
  <2>1. SnapshotFromConfig(newConfig, snapshot.provider) = snapshot /\ newConfig = config
    BY <1>4 DEF KeepOAuth, OAuthInv
  <2>2. snapshot.provider = config.issuer
    BY <2>1 DEF OAuthInv, SnapshotConsistent, SnapshotFromConfig
  <2> QED
    BY <1>4, <2>1, <2>2 DEF KeepOAuth, OAuthInv, SnapshotConsistent, OAuthAgrees
<1>5. CASE StoreWellKnown
  <2>1. /\ snapshot' = SnapshotFromConfig(newConfig, snapshot.provider)
        /\ newConfig = config
        /\ snapshot.provider = config.issuer
    BY <1>5 DEF StoreWellKnown, OAuthInv, SnapshotConsistent
  <2>2. SnapshotConsistent'
    BY <2>1 DEF SnapshotConsistent, SnapshotFromConfig
  <2> QED
    BY <1>5, <2>1, <2>2 DEF StoreWellKnown, OAuthInv, OAuthAgrees
<1>6. CASE StoreProvider
  <2>1. snapshot' = SnapshotFromConfig(config, config.issuer)
    BY <1>6 DEF StoreProvider, OAuthInv
  <2>2. SnapshotConsistent'
    BY <2>1 DEF SnapshotConsistent, SnapshotFromConfig
  <2> QED
    BY <1>6, <2>1, <2>2 DEF StoreProvider, OAuthInv, OAuthAgrees
<1>7. CASE AskToStop \/ TakeStop \/ Exit
  BY <1>7 DEF AskToStop, TakeStop, Exit, OAuthInv, SnapshotConsistent, OAuthAgrees
<1>8. CASE UNCHANGED vars
  BY <1>8 DEF vars, OAuthInv, SnapshotConsistent, OAuthAgrees
<1> QED
  BY <1>1, <1>2, <1>3, <1>4, <1>5, <1>6, <1>7, <1>8 DEF Next, Handle

\* What is behind the theorems below: how the snapshot agrees with the configuration
\* in force at each step of a reload.
THEOREM OAuthInvariant == Spec => []OAuthInv
BY InitialOAuth, OAuthStep, SighupTypeOK, PTL DEF Spec

\* At no time does the snapshot pair an authorization URL with the OIDC provider
\* of another.
THEOREM SighupSnapshotConsistent == Spec => []SnapshotConsistent
<1>1. OAuthInv => SnapshotConsistent
  BY DEF OAuthInv
<1> QED
  BY <1>1, OAuthInvariant, PTL

\* Between reloads the OAuth state is that of the configuration in force, unless
\* making the provider for it failed.
THEOREM SighupOAuthAgrees == Spec => []OAuthAgrees
<1>1. OAuthInv => OAuthAgrees
  BY DEF OAuthInv
<1> QED
  BY <1>1, OAuthInvariant, PTL
=============================================================================
