SPECIFICATION Spec
CONSTANTS
  Token = {t1, t2, t3}
  NoToken = NoToken
  AuthToken = AuthToken
  Operator = {o1, o2}
  ScopeChoice <- Scopes
  MaxKills = 1
INVARIANTS
  RotationKeepsAccess
PROPERTIES
  RevokedIsFinal
SYMMETRY Symmetry
CHECK_DEADLOCK FALSE
