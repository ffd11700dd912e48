SPECIFICATION SysFairSpec
CONSTANTS
  KEYBOARD_BUFFER_SIZE = 3
  Scancode <- MCScancode
  scancode_to_ascii <- MCAscii
  Masks <- MCMasks
  WAIT_TICKS = 2
INVARIANTS Dispatched NestingBounded
PROPERTIES ImplementsKeyQueue KeyServed WaitersReturn
