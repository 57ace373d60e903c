SPECIFICATION Spec
CONSTANTS
  Points = {p1, p2, p3, p4, p5}
  Nil = Nil
  MaxSeals = 4
SYMMETRY PointSymmetry
INVARIANT PointsHandedOnce
CHECK_DEADLOCK FALSE
