CONSTANTS ENTRIES = 4
          DIRS = 6
          IDENTITY = 3
          LAST = 10
          HEAP_PAGES = 1
          MAX_HEAP = 2
          MAX_PDS = 2
          UserPages <- MCUserPages
          Accesses <- MCAccesses
SPECIFICATION Spec
CHECK_DEADLOCK FALSE
INVARIANT MappedForUser
