CONSTANTS
  N = 3
  MaxPush = 3
SPECIFICATION FairSpec
INVARIANTS NoEventLost ResultsComeLast
PROPERTIES Completes KeepsPromise
