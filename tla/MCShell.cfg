CONSTANTS VGA_ROWS = 3
          VGA_COLS = 5
          NL = 10
          BS = 8
          Blank = 32
          Prefix <- MCPrefix
          Key <- MCKey
          Capacity = 2
          max_len = 4
          field_width = 3
          BUFFER = 4
          MAX_KEYS = 6
SPECIFICATION SessionSpec
CHECK_DEADLOCK FALSE
INVARIANTS LineIsEdit
           EchoMatchesLine
           CredentialsAsTyped
