SPECIFICATION Spec
CONSTANTS
  Token = {t1}
  NoToken = NoToken
  AuthToken = AuthToken
  Operator = {o1}
  ScopeChoice <- Scopes
  MaxKills = 0
INVARIANTS
  MintedIsAccepted
