CONSTANTS
    m1 = m1
    m2 = m2
    Msg = {m1, m2}
    LevelOf <- MCLevelOf
    N = 5
    Graphs <- MCGraphs
SPECIFICATION Spec
INVARIANT
    DummyFreed
