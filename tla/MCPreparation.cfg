\* One command and three edits, or two commands with a run, an upgrade and damage.
SPECIFICATION Spec
CONSTANTS
    Commands = {c1, c2}
    PathFacts <- MCPathFacts
    SkillPolicy <- MCSkillPolicy
    Catalogs <- MCCatalogs
    References <- MCReferences
    Machine <- MCMachine
    FirstTree <- MCFirstTree
    Endings <- MCEndings
    Bounds <- MCBounds
    ExampleLimit = 3
    ExampleContrastLimit = 1
INVARIANT SnapshotWasThere
INVARIANT WhatFollowsIsMeasured
INVARIANT PreparedCanStart
INVARIANT NothingWorseIsLeftOut
PROPERTY StagedAsPrepared
SYMMETRY MCSymmetry
CHECK_DEADLOCK FALSE
