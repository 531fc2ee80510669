\* two outpoints, two coins (an overwrite differs from a re-add), two blocks
SPECIFICATION Spec
CONSTANTS
  Outpoints = {o1, o2}
  Coins = {c1, c2}
  SPENT = SPENT
  Hashes = {h1, h2}
  ABSENT = ABSENT
  NULL = NULL
INVARIANTS
  TypeOK
  Coherent
  NeverThrows
PROPERTY
  OneUtxoSet
