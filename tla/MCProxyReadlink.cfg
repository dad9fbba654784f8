CONSTANTS
    a = a
    b = b
    root = root
    user = user
    None = None
    Threads = {t1, t2}
    Names = {a, b}
    Inodes = {i1, i2}
    Uids = {root, user}
    Daemon = root
    Requests <- MCRequests
    Errnos = {2, 95}
    EOPNOTSUPP = 95
    Residue = {}
    MaxLen = 1
SPECIFICATION Spec
INVARIANT
    ReadlinkAnswersZero
