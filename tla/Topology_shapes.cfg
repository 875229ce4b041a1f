SPECIFICATION Spec
CONSTANTS
  Width = 2
  Height = 1
  Nodes = {n1, n2, n3}
  MaxEdge = 3
  MaxFace = 2
  Sites <- PairSites
  Lines <- WallLines
  AnySplit = FALSE
  AnyReshape = FALSE
  TopoGeoms = {t1}
  MaxElems = 1
SYMMETRY NodeSymmetry
PROPERTIES
  ShapesKept
  LinksRefined
