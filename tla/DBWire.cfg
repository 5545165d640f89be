SPECIFICATION FairSpec
CONSTANTS
  Drivers = {"postgres", "mysql", "redis"}
  MaxRequests = 6
INVARIANTS OwnAnswer NoInheritedTx
PROPERTIES CallReturns
