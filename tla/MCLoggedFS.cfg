CONSTANTS
    a = a
    None = None
    Null = Null
    Unset = Unset
    Dangling = Dangling
    Threads = {t1, t2}
    Names = {a}
    Inodes = {i1}
    Uids = {0, 1}
    Daemon = 0
    Requests <- MCRequests
    Errnos = {2, 95}
    EOPNOTSUPP = 95
    Residue = {}
    MaxLen = 1
    Formats = {f1}
    FileFilters <- MCFileFilters
    MaxFilters = 2
SPECIFICATION Spec
SYMMETRY Symmetric
INVARIANT
    LoggedAsConfigured
