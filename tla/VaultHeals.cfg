SPECIFICATION FairSpec
CONSTANTS
  Cli = {c1}
  Conn = {h1, h2}
  ServerChecksHash = TRUE
  MaxCreations = 2
  MaxInterrupts = 1
  MaxLosses = 1
  MaxVaultLosses = 1
INVARIANTS AtRest VaultHeldTogether
PROPERTIES VaultCatchesUp
