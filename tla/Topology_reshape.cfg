SPECIFICATION Spec
CONSTANTS
  Width = 2
  Height = 1
  Nodes = {n1, n2, n3}
  MaxEdge = 3
  MaxFace = 2
  Sites <- PairSites
  Lines <- PairLines
  AnySplit = FALSE
  AnyReshape = TRUE
  TopoGeoms = {}
  MaxElems = 0
SYMMETRY NodeSymmetry
INVARIANTS
  FacesMatchPlane
