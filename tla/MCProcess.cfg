CONSTANTS
    t1 = t1
    t2 = t2
    s1 = s1
    s2 = s2
    a = a
    Thread = {t1, t2}
    Worker = {t1, t2}
    Signal = {s1, s2}
    File = {a}
    Asked = {"both"}
    Fd = {1, 2, 3}
    MaxFile = 2
    MaxLine = 2
SYMMETRY Symmetric
SPECIFICATION Spec
INVARIANTS
    TypeOK
    HandleKeepsFile
    DescriptorAccount
    LinesOnce
    ReopenFollowsName
    CwdIsBacking
PROPERTY
    HandlerSound
CHECK_DEADLOCK FALSE
