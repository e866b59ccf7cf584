SPECIFICATION Spec
CONSTANTS
  a = a
  b = b
  nft = nft
  Names <- TwoNames
  Scopes <- OneScope
  Faults = {"io", "stop", "crash", "link", "dns", "quick"}
SYMMETRY Symmetry
INVARIANTS
  OneSession
PROPERTIES
  SuccessIsEarned
  ImplementsLedger
