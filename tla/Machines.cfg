SPECIFICATION MachinesSpec
CONSTANTS
  Points = {"point"}
  Polys = {"polyA", "polyB"}
  Others = {}
  Keys = {1, 2}
  Stored <- TwoPolys
  InRow = {"point"}
  MaxCopies = 2
  N = 5
  NumGeoms = 5
  Problems <- FiveGeoms
  IndexRows = {1, 2, 3, 4, 5, 6}
  PageIds = {11, 12, 13, 14, 15, 16, 17, 18, 19}
  BoxOf <- SixRows
  Queries <- ThreeBoxes
  PageSize = 3
INVARIANTS
  GeomTypeOK
  GeomRefsExact
  GeomIndexCurrent
  UFTypeOK
  UFOneRoot
  UFSizesExact
  ClusterIdsExact
  GroupsExact
  DBTypeOK
  ClustersExact
  CoresStayApart
  GistTypeOK
  ScansAgree
  NearestFirst
  SplitSound
PROPERTIES
  UFPartition
  UFReturns
