SPECIFICATION Spec
CONSTANTS
  k1 = k1
  k2 = k2
  k3 = k3
  t1 = t1
  t2 = t2
  d1 = d1
  d2 = d2
  d3 = d3
  s1 = s1
  s2 = s2
  Keys = {k1, k2, k3}
  Texts = {t1, t2}
  Dispatches = {d1, d2, d3}
  Sessions = {s1, s2}
  Cap = 2
  Limit = 2
  MaxLost = 1
  None = None
SYMMETRY Symmetry
INVARIANTS
  InboxBounded
  HandlingsAgree
  ToldHolds
