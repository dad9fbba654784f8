---------------------------- MODULE MCLoggedFS ----------------------------
(* The proxy and its configuration: two threads, requests that succeed or  *)
(* fail, filters by action, user and return name.                          *)
EXTENDS LoggedFS, TLC

CONSTANT a

Request(op, uid) ==
    [op |-> op, path |-> a, to |-> a, uid |-> uid, owner |-> 0, mode |-> FALSE]

MCRequests == {Request("rename", 1), Request("ioctl", 0)}

Filter(uid, act, ret) == [ext |-> {a}, uid |-> uid, act |-> act, ret |-> ret, format |-> Unset]

\* Next to the filter that -i and -x add, for all that user 0 does.
MCFileFilters == { Filter(-1, {"rename"}, {"FAILURE"}) }

Symmetric == Permutations(Threads)
=============================================================================
