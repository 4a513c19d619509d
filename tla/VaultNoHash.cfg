SPECIFICATION FairSpec
CONSTANTS
  Cli = {c1}
  Conn = {h1, h2}
  ServerChecksHash = FALSE
  MaxCreations = 2
  MaxInterrupts = 1
  MaxLosses = 1
  MaxVaultLosses = 1
PROPERTIES VaultCatchesUp
