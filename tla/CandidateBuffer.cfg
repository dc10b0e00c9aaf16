SPECIFICATION BufferSpec
CONSTANTS
  Ordinals <- Five
  ChunkSize = 2
  LowWatermark = 1
  MaxRuns = 3
  MaxReadErrors = 1
CHECK_DEADLOCK FALSE
PROPERTY OffersPendingInOrder
