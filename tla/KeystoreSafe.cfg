SPECIFICATION Spec
CONSTANTS
  Operator = {o1, o2}
  Name = {n1, n2}
  Key = {k1, k2}
  Null = Null
  Passphrase = {p1, p2}
  Variable = {v1, v2}
  Missing = Missing
  Malformed = Malformed
  Inode = {1, 2, 3, 4}
  NoFile = NoFile
  MaxKills = 1
  MaxShort = 1
  MaxCommands = 3
INVARIANTS
  TornOnlyByRace
  SavedKeyIsKept
PROPERTIES
  PassphraseIsProved
  StartServesSaved
SYMMETRY Symmetry
CHECK_DEADLOCK FALSE
