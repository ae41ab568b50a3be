\* A run one of whose replies holds a line separator.
SPECIFICATION Spec
CONSTANTS
    PinnedTools <- MCPinnedTools
    Starts <- Unlucky
    Others <- None
    Key <- MCKey
INVARIANT
    WholeRecordsAreRead
CHECK_DEADLOCK FALSE
