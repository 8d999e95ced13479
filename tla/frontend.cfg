SPECIFICATION FairSpec
CONSTANTS
  Words <- MCWords
  Buckets <- MCBuckets
  Keys <- MCKeys
  Contents <- MCContents
  MaxRequests = 3
INVARIANTS ActsAsNamed StoreMatchesClients
PROPERTIES UploadDecided
CHECK_DEADLOCK FALSE
