SPECIFICATION FairSpec
CONSTANTS
  MaxErrors = 3
PROPERTY ConnectionFailuresFallBack
