SPECIFICATION FairSpec
CONSTANT WritersPreferred = FALSE
PROPERTIES RecoveredMeansActivated
