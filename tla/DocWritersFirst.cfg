SPECIFICATION FairSpec
CONSTANT WritersPreferred = TRUE
INVARIANTS TypeOK DriveStatusCoversItsJoint OfflineIsTrue
PROPERTIES DeactivationReturns
