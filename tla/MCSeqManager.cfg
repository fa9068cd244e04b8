SPECIFICATION Spec
CONSTANTS
  Seqs <- MCSeqs
  Names <- MCNames
  Start <- MCStart
  Step <- MCStep
  Main = Main
  RunWorkers = {w1, w2}
  MaxDraws = 2
INVARIANTS
  TypeOK
  UniqueValues
  GapFree
  PicksGenerated
