CONSTANTS
  w = w
  x = x
  adm = adm
  Keys = {k1}
  Names = {n1}
  Clients = {c1}
  Tokens = {t1}
  Scopes <- AllScopes
  Explicit <- ExplicitScope
  Admin = adm
  Read <- WriteOnly
  MaxTtl = 1
  None = None
  Hooks = {e1}
  Secrets = {s1, s2, s3}
  Requests = {q1}
  Tools = {m1}
  Write = w
  Rotate = x
  Delete = x
SPECIFICATION Spec
INVARIANTS
  TypeOK
  TokensFollowClients
  WithdrawnAdmitsNothing
SYMMETRY Symmetry
