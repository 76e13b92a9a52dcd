SPECIFICATION Spec
CONSTANTS
    STAGES = 2
    AVG_FRAMES = 2
    FRAMES = 4
INVARIANTS NoFalseAlarm Caught ShownRight
CHECK_DEADLOCK FALSE
