SPECIFICATION Spec
CONSTANTS
  Peers = {a, b}
  OtherKeys <- MCOtherKeys
  Data <- MCData
  Blocks <- MCBlocks
INVARIANTS
  TypeOK
  ComesBack
  OnlyWithItsKey
  IsAria
  DecryptionUndoes
