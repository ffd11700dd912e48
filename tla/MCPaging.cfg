CONSTANTS ENTRIES = 4
          DIRS = 6
          IDENTITY = 3
          LAST = 10
          HEAP_PAGES = 1
          MAX_HEAP = 2
          MAX_PDS = 3
          UserPages <- MCUserPages
          Accesses <- MCAccesses
SPECIFICATION FairSpec
CHECK_DEADLOCK FALSE
INVARIANTS FramesExclusive
           KernelMappedEverywhere
           TablesPrivate
           TlbCoherent
PROPERTIES OnePageChanges AccessEnds
