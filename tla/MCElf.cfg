CONSTANTS PAGE_SIZE = 2
          PAGES = 4
          FRAMES = 14
          Programs <- MCPrograms
SPECIFICATION ElfSpec
CHECK_DEADLOCK FALSE
INVARIANTS ImageLoaded
           StackReady
           RejectedHarmless
