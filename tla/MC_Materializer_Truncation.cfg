CONSTANTS
  BufferSize = 4
  MaxDepth = 2
  MaxWidth = 2
  TextsOf <- MCTextsOf
  EpochOf <- MCEpochOf
  Uninitialized <- MCUninitialized
INIT Init
NEXT Next
INVARIANT TruncationReported
