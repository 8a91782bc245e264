SPECIFICATION Spec
CONSTANTS
  Users <- MCUsers
  External <- MCExternal
  Slots <- MCSlots
  Bookings <- MCBookings
  Workers <- TwoWorkers
  Kinds <- MoveKinds
  Charge = 2
  InitialBalance = 3
  Free = Free
  Nobody = Nobody
  s1 = s1
  s2 = s2
  s3 = s3
  b1 = b1
  b2 = b2
  student = student
  company = company
  w1 = w1
  w2 = w2
CHECK_DEADLOCK FALSE
SYMMETRY Symmetry
PROPERTIES
  NoTakeOver
