SPECIFICATION FairSpec
CONSTANTS
  Attachments <- MCAttachments
  Calls <- MCCalls
  Lba = {0, 1}
  FULL_COUNT = 3
  LBA_RANGE = 4
  TIMEOUT = 2
INVARIANTS ReadsRequested SelectedAlone
PROPERTIES WritesRequested 
