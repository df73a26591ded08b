SPECIFICATION FairSpec
CONSTANT WritersPreferred = FALSE
PROPERTIES SyncLossIsPublished
