SPECIFICATION FairSpec
CONSTANTS
  p1 = p1
  p2 = p2
  Boot = boot
  Reloaders = {p2}
  Admins = {p1, p2}
  TmpOf <- MCTmpOf
  Template <- MCTemplate
  WalkOrder <- MCWalkOrder
  Sites <- MCSites
  Urls <- MCUrls
  Targets <- MCTargets
  Editable <- MCEditable
  MaxTrouble = 2
  MaxFetches = 1
CHECK_DEADLOCK FALSE
INVARIANTS RefsMatch CacheSound 
PROPERTIES  FailureLeavesNoTrace RequestsAnswered
