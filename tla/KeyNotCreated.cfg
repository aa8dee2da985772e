SPECIFICATION Spec
CONSTANTS
  s1 = s1
  s2 = s2
  t1 = t1
  t2 = t2
  t3 = t3
  p1 = p1
  p2 = p2
  NoKey = NoKey
  Sessions = {s1, s2}
  MediaSessions = {s2}
  TemporaryKeys = {t1, t2, t3}
  MediaKeys = {t3}
  PersistentKeys = {p1, p2}
  Forgettable = {}
  Destroyable = {p1, p2}
  Stoppable = {}
  MaxQueued = 1
SYMMETRY KeySymmetry
INVARIANTS
  CreatorCreates
