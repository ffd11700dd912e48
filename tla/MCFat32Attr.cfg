CONSTANTS cluster_size = 2
          dir_entries_per_cluster = 2
          LAST = 7
          Volumes <- MCAll
          root_cluster = 2
          Names <- MCNames
          MAX_INDEX = 4
          MAX_OFFSET = 6
          MAX_SIZE = 6
SPECIFICATION FatSpec
CHECK_DEADLOCK FALSE
INVARIANT SkipsOnlyLongNames
