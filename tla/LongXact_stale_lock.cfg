SPECIFICATION Spec
CONSTANTS
  Sessions = {s1, s2}
  Rows = {r1}
  Auths = {a1, a2}
  MaxTime = 1
  MaxXid = 3
  Isolations = {"serializable"}
SYMMETRY Symmetry
PROPERTIES
  UpdatesAuthorized
