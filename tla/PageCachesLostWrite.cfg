SPECIFICATION Spec
CONSTANTS
  c1 = c1
  c2 = c2
  Classes <- MCProgressive
  Caches <- MCCaches
  Files <- MCFiles
  Users <- MCUsers
  Accesses <- MCAccesses
  pageCapacity = 2
  MaxRequests = 3
  MaxOutstanding = 1
PROPERTY
  AcceptedWritesAreKept
