SPECIFICATION FairSpec
CONSTANTS
  Servers <- MCServers
  Requests <- MCRequests
  ServerOf <- MCServerOf
INVARIANTS IndInv EarlierServersDrain StoreOutlivesListeners
PROPERTIES ExitsAfterSignal
CHECK_DEADLOCK FALSE
