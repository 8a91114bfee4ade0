SPECIFICATION Spec
CONSTANTS
  Identities = {hudson, elise}
  Names = {n1, n2}
  Worlds = {w, s}
  Shared = {w}
  Invites = {v1}
  Tokens = {t1, t2}
  Requests = {r1, r2}
  MaxTime = 1
  InviteTTL = 1
  SessionTTL = 1
  None = None
INVARIANTS TypeOK InvitesAccounted TokensAccounted
PROPERTY ArchiveIsFinal
SYMMETRY HubSymmetry
CHECK_DEADLOCK FALSE
