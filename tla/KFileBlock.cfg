\* Files on buffered and on unbuffered devices whose driver may stop half-way.
SPECIFICATION FileSpec
CONSTANTS
  NBlocks = 2
  BlkSize = 2
  Byte = {x, y}
  StoreFails = TRUE
  LoadFails = FALSE
  MaxReq = 3
SYMMETRY ByteSymmetry
INVARIANTS TypeOK ReadsBack CleanIsCoherent
PROPERTIES TrimmedIsStored OutsideUntouched ReturnIsExact
