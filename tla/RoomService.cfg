SPECIFICATION Spec
CONSTANTS
  e1 = e1
  e2 = e2
  l1 = l1
  l2 = l2
  a1 = a1
  a2 = a2
  r0 = r0
  i0 = i0
  None = None
  Emails = {e1, e2}
  Users = {l1, l2, a1, a2}
  Rooms = {r0, r1}
  Images = {i0, i1}
  LegacyOf <- TwoBrowsers
  Old <- OldRoom
  Minted = {m1, m2}
  Chosen = {c1}
  Tags = {t1, t2}
  Slots = {s1, s2}
  Resolvable = {r0}
  MaxRequests = 3
  MaxFaults = 2
SYMMETRY Same
INVARIANTS
  PicturesAreWhole
  HistoryIsTrue
PROPERTIES
  HistoryIsPreserved
  NameIsKept
