----------------------------- MODULE Operations -----------------------------
(* The operations of FSOperations by the shape of their handlers, and what  *)
(* follows from an operation alone.                                        *)

\* r*errno: fgetattr, getattr, access, chmod, chown, ... return a product
PathOps  == {"getattr", "access", "chmod", "chown", "truncate", "utime",
             "utimens", "statfs", "setxattr", "removexattr"}
FdOps    == {"fgetattr", "ftruncate", "flush", "fsync", "flock"}
CountOps == {"read", "write", "write_buf", "getxattr", "listxattr"}
OpenOps  == {"open", "opendir", "read_buf"}
MakeNewOps == {"mknod", "mkdir", "symlink"}
RemoveOps  == {"unlink", "rmdir"}
Unsupported == {"bmap", "ioctl", "poll"}
\* handlers that return 0 whatever the system calls in them answered
DeafOps == {"readdir", "releasedir", "release", "fsyncdir"}
AllOps  == PathOps \cup FdOps \cup CountOps \cup OpenOps \cup MakeNewOps
           \cup RemoveOps \cup Unsupported \cup DeafOps
           \cup {"rename", "link", "create", "readlink", "fallocate", "lock"}

\* The text of FSOperations::actions[N]; two callbacks have no entry and
\* operator[] gives them the empty string.
ActionName(op) == IF op \in {"utime", "fsyncdir"} THEN "" ELSE op

\* Operations that add, remove or rebind a name.
NamespaceOps == MakeNewOps \cup RemoveOps \cup {"rename", "link", "create"}

\* What a thread serves between two requests.
NoRequest == [op |-> "none"]

\* The name an operation makes, or the one it is about.
Target(r) == IF r.op \in {"symlink", "link"} THEN r.to ELSE r.path
=============================================================================
