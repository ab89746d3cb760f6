CONSTANTS
  Routes = {r1, r2}
  Dests = {d1}
  Shapes = {u1, u2}
  Secrets = {s1}
  Marker = Marker
  Policies = {p0, p1}
  NoPolicy = p0
  None = None
  Tools = {t1}
  MaxCalls = 2
  MaxEdits = 1
  MaxFaults = 1
SPECIFICATION Spec
INVARIANTS
  TypeOK
  RowsAreAsMeant
  ManifestShowsBindings
  IndexMatchesFile
  
CHECK_DEADLOCK FALSE
SYMMETRY Symmetry
