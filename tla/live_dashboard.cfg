SPECIFICATION FairSpec
CONSTANTS
  MaxErrors = 3
INVARIANTS TypeOK NoIdleConnections
PROPERTIES QuietViewsEnd LiveUnlessLost
