\* The process may end before its last flush has run.
SPECIFICATION ShutdownSpec
CONSTANTS
    FlushedRooms = {r1, r2}
    MaxCalls = 2
CHECK_DEADLOCK FALSE
INVARIANT DirtyRoomsFlushed
