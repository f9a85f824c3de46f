SPECIFICATION Spec
CONSTANTS
  c1 = c1
  p1 = p1
  p2 = p2
  Nil = Nil
  Creates = {c1, c2}
  Unmounts = {u1}
  Keys = {k1}
  Points = {p1, p2}
  PointOf <- OwnPoint
INVARIANT ExitLeavesNoMount
