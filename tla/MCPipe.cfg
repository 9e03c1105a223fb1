CONSTANTS
  Writers = {w1, w2}
  Readers = {r1, r2}
  Options <- MCOptions
  MaxWrites <- MCMaxWrites
SPECIFICATION FairSpec
INVARIANTS
  NoLostReadWakeup
  ResultTruthful
PROPERTIES
  WriterReturns
  EventuallyRead
  StreamSpec
