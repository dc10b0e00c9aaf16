SPECIFICATION Spec
CONSTANTS
  n1 = n1
  n2 = n2
  at1 = at1
  NoName = NoName
  Spellings <- SomeSpellings
  Cleaned <- Clean
  Uids <- TwoUids
  Names <- TwoNames
  Batches <- SomeBatches
  Ids <- FourIds
  Datasets <- ThreeDatasets
  PageSize = 1
  MaxBatches = 3
INVARIANTS
  NobodyIsLost
  MergeIsNeverBlocked
  StayersAreExported
