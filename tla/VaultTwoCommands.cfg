SPECIFICATION Spec
CONSTANTS
  Cli = {c1, c2}
  Conn = {h1, h2}
  ServerChecksHash = TRUE
  MaxCreations = 2
  MaxInterrupts = 0
  MaxLosses = 1
  MaxVaultLosses = 1
INVARIANT AtRest
