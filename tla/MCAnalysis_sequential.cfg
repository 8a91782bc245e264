SPECIFICATION Spec
CONSTANTS
  r1 = r1
  r2 = r2
  w1 = w1
  s1 = s1
  s2 = s2
  p1 = p1
  p2 = p2
  Reservations = {r1, r2}
  Pcs = {w1}
  Sessions = {s1}
  Workers = {p1}
  NoPc = NoPc
  NoReservation = NoReservation
  MissedLimit = 2
  Operations <- Sequential
SYMMETRY ReservationSymmetry
INVARIANTS TypeOK OneHoldPerPc QueueAgrees DesktopNotShared
PROPERTIES MissedYields
CHECK_DEADLOCK FALSE
