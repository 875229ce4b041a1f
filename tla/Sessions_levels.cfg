SPECIFICATION SessionsSpec
CONSTANTS
  Sessions = {s1, s2}
  Rows = {r1}
  Auths = {a1, a2}
  MaxTime = 1
  MaxXid = 2
  Isolations = {"read committed", "serializable"}
  Clients = {c1, c2}
  Gids = {g1}
  Data = {0, 1}
  Inserts = {0}
  Updates <- Negate
  HistLevels = {"read committed", "repeatable read"}
  HistMaxTime = 1
  MaxVersion = 3
SYMMETRY SessionSymmetry
INVARIANTS
  TypeOK
  LockExclusive
  HistTypeOK
  HistOpenIsCurrent
  HistRowIsOpen
PROPERTIES
  LocksOutlivePurges
  FreshUpdatesAuthorized
