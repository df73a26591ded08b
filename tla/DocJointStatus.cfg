SPECIFICATION FairSpec
CONSTANT WritersPreferred = FALSE
INVARIANTS JointStatusCoversItsTelemetry
