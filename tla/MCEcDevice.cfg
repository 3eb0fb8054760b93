CONSTANTS
  Threads = {t1, t2}
  Zero = Zero
  One = One
  Byte <- MCByte
  Batches <- MCBatches
  Ack = Ack
  Free = Free
  Limit = 1
SPECIFICATION MCFairSpec
INVARIANTS
  TypeOK
  AccessHitsItsAddress
  MarkHasABatch
PROPERTIES
  BatchesAreAtomic
  StuckBatchIsReported
