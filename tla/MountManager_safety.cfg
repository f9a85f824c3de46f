SPECIFICATION Spec
CONSTANTS
  c1 = c1
  p1 = p1
  p2 = p2
  Nil = Nil
  Creates = {c1, c2}
  Unmounts = {u1, u2}
  Keys = {k1, k2}
  Points = {p1, p2}
  PointOf <- SharedPoint
INVARIANTS TypeOK RefsExact OneTreePerKey SingleOwner
PROPERTY CacheSpec
SYMMETRY Symmetry
