\* Tokens live for two ticks; the clock runs on until a token that was issued
\* after a restart has expired.
CONSTANTS
  ann = ann
  bob = bob
  Users = {ann, bob}
  Configs <- MCConfigs
  NoToken = NoToken
  Lifetime = 2
  MaxTime = 5
SPECIFICATION Spec
INVARIANTS
  TypeOK StoreIsConfigured LeftOpenOnlyByFailure
PROPERTIES
  RevocationIsBounded
