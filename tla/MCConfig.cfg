CONSTANTS
    p = p
    getattr = getattr
    open = open
    success = success
    failure = failure
    f1 = f1
    f2 = f2
    Threads = {t1, t2}
    Paths = {p}
    Uids = {0, 1}
    Actions = {getattr, open}
    Retnames = {success, failure}
    Formats = {f1, f2}
    FileFilters <- MCFileFilters
    MaxFilters = 2
    Asked <- MCAsked
    Null = Null
    Unset = Unset
    Dangling = Dangling
SPECIFICATION Spec
SYMMETRY Symmetric
INVARIANTS
    TypeOK
    DecisionExact
    DecisionBounded
    
