SPECIFICATION Spec
CONSTANTS
  BLOCK_HEADER_SIZE = 4
  MIN_BLOCK_SIZE = 8
  ALIGN = 2
  POINTER = 1
  PAGE_SIZE = 16
  HEAP_START = 16
  HEAP_SIZE = 16
  FRAMES = 2
  Sizes = {1, 7, 16}
  UINT32 = 128
  AlignedSizes <- MCAlignedSizes
INVARIANTS WellFormed AllocationsDisjoint PageSizedSucceeds
