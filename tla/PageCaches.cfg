SPECIFICATION Spec
CONSTANTS
  c1 = c1
  c2 = c2
  Classes <- MCClasses
  Caches <- MCCaches
  Files <- MCFiles
  Users <- MCUsers
  Accesses <- MCAccesses
  pageCapacity = 2
  MaxRequests = 4
  MaxOutstanding = 1
INVARIANTS CacheConsistent AnsweredWritesWereCached
PROPERTIES NoDirtyRegionLost CloseEndsWrites RequestsEnd
