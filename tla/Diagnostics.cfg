SPECIFICATION FairSpec
CONSTANT WritersPreferred = FALSE
INVARIANTS NoCircularWait DriveStatusCoversItsJoint OfflineIsTrue
PROPERTIES LossIsLogged LossStaysLogged LossIsPublished DeactivationReturns
