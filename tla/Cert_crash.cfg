\* A first start that dies while it saves, and the next one.
SPECIFICATION Spec
CONSTANTS
  Callers = {a}
  MaxPairs = 2
INVARIANT CertLoads
