CONSTANTS
  r1 = r1
  r2 = r2
  full = full
  bare = bare
  nobody = nobody
  nodoc = nodoc
  Requests = {r1, r2}
  Issuers = {full, bare}
  NoIssuer = nobody
  NoDocument = nodoc
  MaxReloads = 1
  Offers <- MCOffers
  Statics <- MCStatics
SPECIFICATION FairSpec
INVARIANTS
  TypeOK
  DocumentOfConfiguredIssuer
  OverridesNotSticky
  VerifiedByConfigured
  ExchangedWhereConfigured
  ClusterCredential
PROPERTIES
  EveryRequestAnswered
CHECK_DEADLOCK FALSE
