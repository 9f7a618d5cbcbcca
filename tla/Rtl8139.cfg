SPECIFICATION Spec
CONSTANTS
  RingLen = 18
  Word = 2
  Gap = 4
  CapMod = 36
  IntMod = 36
  Sizes = {2, 3}
  NumTx = 2
  MaxFrames = 6
INVARIANTS NeverDeaf TxInStep
PROPERTY ImplementsNic
