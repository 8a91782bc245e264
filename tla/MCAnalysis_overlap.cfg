SPECIFICATION Spec
CONSTANTS
  r1 = r1
  r2 = r2
  w1 = w1
  s1 = s1
  s2 = s2
  p1 = p1
  p2 = p2
  Reservations = {r1, r2}
  Pcs = {w1}
  Sessions = {s1, s2}
  Workers = {p1, p2}
  NoPc = NoPc
  NoReservation = NoReservation
  MissedLimit = 2
  Operations <- Overlap
SYMMETRY SessionSymmetry
INVARIANTS QueuedWaits OneDesktop
CHECK_DEADLOCK FALSE
