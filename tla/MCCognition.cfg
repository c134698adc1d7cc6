CONSTANTS
  Jobs = {j1}
  Background = background
  Digest = digest
  Topics = {t1}
  Page = 3
  Batch = 1
  MaxEvents = 5
  MaxEdits = 2
  MaxWeeks = 1
SPECIFICATION Spec
CONSTRAINT LongStreamsAreQuiet
CHECK_DEADLOCK FALSE
INVARIANTS NoEventSkipped
PROPERTIES OwnerHolds DeletedStaysGone
