SPECIFICATION Spec
CONSTANTS
  Bookings <- MCBookings
  Slots <- MCSlots
  Requests <- MCRequests
  Workers <- MCWorkers
  UserOf <- MCUserOf
  InitialOwner <- MCOwner
  NoWorker = NoWorker
  NoRequest = NoRequest
  alice = alice
  bob = bob
  carol = carol
  r1 = r1
  r2 = r2
  w1 = w1
  w2 = w2
CHECK_DEADLOCK FALSE
SYMMETRY Symmetry
INVARIANTS
  NeverWaitOnEachOther
