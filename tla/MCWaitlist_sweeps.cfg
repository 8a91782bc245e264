SPECIFICATION Spec
CONSTANTS
  Users <- MCUsers
  Entries <- TwoEntries
  Slots <- MCSlots
  Workers <- MCWorkers
  Depth = 1
  Free = Free
  Shut = Shut
  Outsider = Outsider
  NoEntry = NoEntry
  Nobody = Nobody
  u1 = u1
  u2 = u2
  e1 = e1
  e2 = e2
  s1 = s1
  s2 = s2
  w1 = w1
  w2 = w2
INVARIANTS
  TypeOK
  OneRowPerUser
  DepthBound
  PromotedBound
  PromotedLeaves
PROPERTIES
  PromotionTakesFree
SYMMETRY Symmetry
