SPECIFICATION Spec
CHECK_DEADLOCK FALSE
CONSTANTS
    MaxMessages = 4
    PageSize = 2
INVARIANT CursorFollowsIngestion
