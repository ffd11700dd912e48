SPECIFICATION StructuresSpec
CONSTANTS
  PAGE_SIZE = 4
  PAGES = 8
  LOW_MEMORY = 4
  END = 6
  MemoryMaps <- MCMaps
  MemUppers = {10, 17, 30}
  Counts = {0, 1, 2, 3}
  Proc = {p1, p2, p3, p4, p5}
  NULL = NULL
SYMMETRY MCSymmetry
INVARIANTS BitmapExact OnlyUsableRam FailsOnlyWhenNoRun Represents
