\* Two usages, keys for the first start and a replacement; when the first start
\* dies early, for a restart that finds nothing.  The bound on the ids stops the
\* rest.
SPECIFICATION KeysSpec
CONSTANTS
  Ids = {k1, k2, k3}
  Usages = {encryption, signing}
  NoKey = NoKey
  Torn = Torn
SYMMETRY KeySymmetry
INVARIANTS ActiveSound Durable
PROPERTIES NeverBack ImplementsStore
CHECK_DEADLOCK FALSE
