SPECIFICATION Spec
CONSTANTS
  Identities = {i1, i2}
  Connections = {c1, c2}
  Attempts = {a1, a2, a3}
  Callbacks = {k1, k2}
  MaxGeneration = 4
SYMMETRY Interchangeable
INVARIANTS AttemptsActOnce OutcomeIsTrue OneConnectionPerAccount
PROPERTIES OnlyWhatWasSeenIsReplaced
CHECK_DEADLOCK FALSE
