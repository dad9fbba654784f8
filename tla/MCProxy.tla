------------------------------ MODULE MCProxy ------------------------------
(* Proxy with a handful of requests that meet in one small directory.      *)
EXTENDS Proxy, TLC

R(op, path, to, uid, own, mode) ==
    [op |-> op, path |-> path, to |-> to, uid |-> uid, owner |-> own,
     mode |-> mode]

CONSTANTS a, b, root, user

\* Every handler shape once; the operations that write the directory or an
\* owner on names and callers that collide.
MCRequests ==
    { R("getattr",   a, a, user, user, FALSE),
      R("chown",     a, a, root, root, FALSE),
      R("chown",     b, b, root, root, FALSE),
      R("fsync",     a, a, user, user, FALSE),
      R("unlink",    a, a, user, user, FALSE),
      R("rename",    a, b, user, user, FALSE),
      R("mknod",     a, a, user, user, TRUE),
      R("mkdir",     b, b, user, user, FALSE),
      R("symlink",   a, b, user, user, FALSE),
      R("link",      a, b, user, user, FALSE),
      R("create",    a, a, user, user, FALSE),
      R("readlink",  a, a, user, user, FALSE),
      R("open",      a, a, user, user, FALSE),
      R("read",      a, a, user, user, FALSE),
      R("fallocate", a, a, user, user, TRUE),
      R("fallocate", a, a, user, user, FALSE),
      R("ioctl",     a, a, user, user, FALSE),
      R("release",   a, a, user, user, FALSE),
      R("fsyncdir",  a, a, user, user, FALSE),
      R("lock",      a, a, user, user, FALSE) }

Symmetric == Permutations(Threads) \cup Permutations(Inodes)
=============================================================================
