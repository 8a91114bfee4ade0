SPECIFICATION Spec
CONSTANTS
  ServerBlockBits = 15
  ServerBiomeBits = 7
  Copies = {nested, hoisted}
  Consumers = {app, mineflayer}
  TopLevel = {app, mineflayer}
  Matching <- Everywhere
  BodyTag = TRUE
  RmIsAtomic = TRUE
  MaxBuilds = 2
  None = None
INVARIANTS
  Attested
  InStep
CHECK_DEADLOCK FALSE
