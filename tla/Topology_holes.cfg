SPECIFICATION Spec
CONSTANTS
  Width = 5
  Height = 5
  Nodes = {n1, n2, n3}
  MaxEdge = 4
  MaxFace = 3
  Sites <- HoleSites
  Lines <- HoleLines
  AnySplit = FALSE
  AnyReshape = FALSE
  TopoGeoms = {}
  MaxElems = 0
SYMMETRY NodeSymmetry
INVARIANTS
  FacesMatchPlane
  FaceOfPoint
  PolygonizeExact
