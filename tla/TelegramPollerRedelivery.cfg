SPECIFICATION PollSpec
CONSTANTS
  MaxUpdates = 3
  MaxBoots = 2
  Batch = 2
  Ignored = {2}
INVARIANT
  HandledAtMostOnce
CHECK_DEADLOCK FALSE
