SPECIFICATION HistSpec
CONSTANTS
  Clients = {c1}
  Gids = {g1}
  Data = {0, 1}
  Inserts = {0}
  Updates <- Negate
  HistLevels = {"repeatable read"}
  HistMaxTime = 2
  MaxVersion = 3
INVARIANTS
  HistOneVersionAtATime
