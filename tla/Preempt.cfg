CONSTANTS Proc = {idle, a, b, c}
          Idle = idle
          NULL = NULL
SPECIFICATION Spec
CHECK_DEADLOCK FALSE
INVARIANTS ReadyCanRun
