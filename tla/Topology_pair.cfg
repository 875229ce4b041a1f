SPECIFICATION Spec
CONSTANTS
  Width = 2
  Height = 1
  Nodes = {n1, n2, n3}
  MaxEdge = 4
  MaxFace = 3
  Sites <- PairSites
  Lines <- PairLines
  AnySplit = FALSE
  AnyReshape = FALSE
  TopoGeoms = {}
  MaxElems = 0
SYMMETRY NodeSymmetry
INVARIANTS
  TopoTypeOK
  IsolationExact
  FacesMatchPlane
  MbrExact
  AddEdgeFindsFace
  FaceOfPoint
  PolygonizeExact
