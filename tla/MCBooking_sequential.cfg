SPECIFICATION FairSpec
CONSTANTS
  Users <- CompanyOnly
  External <- MCExternal
  Slots <- ThreeSlots
  Bookings <- MCBookings
  Workers <- OneWorker
  Kinds <- SequentialKinds
  Charge = 2
  InitialBalance = 3
  Free = Free
  Nobody = Nobody
  s1 = s1
  s2 = s2
  s3 = s3
  b1 = b1
  b2 = b2
  student = student
  company = company
  w1 = w1
  w2 = w2
CHECK_DEADLOCK FALSE
INVARIANTS
  TypeOK
  ActiveHoldsSlots
  ConfirmedIsPaid
PROPERTIES
  MoneyBackInFull
  ImplementsCalendar
  DisruptionResolved
