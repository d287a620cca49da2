\* A heap of six granules of four bytes.
SPECIFICATION HeapSpec
CONSTANTS
  Granule = 4
  SizeT = 2
  Memory = 24
  Sizes = {0, 3, 4, 7}
INVARIANTS Partition Merged FailsOnlyIfFull
