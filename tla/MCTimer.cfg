\* The specification is finite as it stands.
SPECIFICATION FairSpec
INVARIANTS OneLateCallback BlocksOnlyInStop
PROPERTIES StopReturns Fires
\* A stopped timer does nothing any more.
CHECK_DEADLOCK FALSE
