\* Every start and every bundle of another run, one damage or interruption.
SPECIFICATION Spec
CONSTANTS
    PinnedTools <- MCPinnedTools
    Starts <- MCStarts
    Others <- MCOthers
    Key <- MCKey
INVARIANTS
    AcceptedIsEarned
    VerifiedIsWhole
    ShownStandsOnProof
    PlannedMayBeShown
PROPERTY
    RecordedIsProven
CHECK_DEADLOCK FALSE
