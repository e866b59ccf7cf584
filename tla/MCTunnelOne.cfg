SPECIFICATION Spec
CONSTANTS
  a = a
  b = b
  nft = nft
  Names <- OneName
  Scopes <- OneScope
  Faults = {"io", "observe", "stop", "crash", "link", "tools", "dns", "quick"}
INVARIANTS
  TypeOK
  NoOrphanedEffects
  JournalDnsIsTrue
  ActiveIsWhole
  SettledStatesAreSettled
  FirewallIsTracked
  RecoveryHasItsFiles
PROPERTIES
  DeletedProfileIsClean
  ManualStaysBlocked
  RecoverySucceeds
