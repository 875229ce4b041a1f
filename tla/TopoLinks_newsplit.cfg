SPECIFICATION LinkSpec
CONSTANTS
  Nodes = {n1, n2, n3}
  MaxEdge = 4
  Directions = 3
  AnySplit = TRUE
SYMMETRY NodeSymmetry
INVARIANTS
  Rotation
