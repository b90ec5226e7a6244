SPECIFICATION FairSpec
INVARIANT NothingOutlivesCleanUp
PROPERTY ServicesEnd
CHECK_DEADLOCK FALSE
