------------------------------ MODULE MCConfig ------------------------------
(* Config with one path, two users, two actions and two return names, and   *)
(* elements of the configuration file that overlap, differ or do not       *)
(* compile.                                                                *)
EXTENDS Config, TLC

CONSTANTS p, getattr, open, success, failure, f1, f2

El(uid, act, ret, fmt) ==
    [ext |-> {p}, uid |-> uid, act |-> act, ret |-> ret, format |-> fmt]

AnyRet == {success, failure}

MCFileFilters ==
    { El(-1, {getattr, open}, AnyRet, Unset),     \* <include extension=".*" uid="*" .../>
      El(-1, {getattr}, AnyRet, f2),              \* action="getattr"
      El(1, {open}, {failure}, Unset),         \* uid="1" retname="FAILURE"
      El(-1, Null, AnyRet, f1) }                  \* an action that does not compile

Q(uid, act, ret) == [path |-> p, uid |-> uid, act |-> act, ret |-> ret]

MCAsked == { Q(0, getattr, success), Q(0, open, failure),
             Q(1, open, success), Q(1, open, failure) }

Symmetric == Permutations(Threads)
=============================================================================
