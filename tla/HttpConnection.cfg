CONSTANTS
    MAX_HEADERS_SIZE = 10
    Heads = {6, 8, 11}
    Bodies = {0, 1, 3}
    EmptyLines = {0, 1, 2}
SPECIFICATION FairSpec
INVARIANTS TypeOK HandledWhole RefusedTooLarge
PROPERTIES Served AnswerEnds
CHECK_DEADLOCK FALSE
