------------------------------- MODULE Proxy -------------------------------
(***************************************************************************)
(* FSOperations::proxy<N> and the handlers it dispatches to: the path of   *)
(* one FUSE request through LoggedFS.  Every libfuse worker thread runs    *)
(*                                                                         *)
(*     fuzzyShouldLog -> handler (one or two system calls) -> Util::log    *)
(*                                                                         *)
(* and answers the request with the handler's return value.  The threads   *)
(* share the backing directory; errno belongs to the thread and, because   *)
(* no system call clears it, survives from one request to the next.        *)
(*                                                                         *)
(* The configuration is abstracted to the answers of fuzzyShouldLog and    *)
(* shouldLog, both free here (module Config models them).  A file is an    *)
(* inode with an owner; contents, modes and times are left out.            *)
(***************************************************************************)
EXTENDS Operations, Integers, FiniteSets

CONSTANTS
    Threads,     \* libfuse worker threads
    Names,       \* names in the backing directory
    Inodes,      \* inodes of the backing filesystem
    Uids,        \* user ids of callers and owners
    Daemon,      \* the user the LoggedFS process runs as
    Requests,    \* the requests the kernel may send
    Errnos,      \* the error numbers a system call may fail with
    EOPNOTSUPP,
    Residue,     \* errno values a thread may be left with between two requests,
                 \* by the rendering of the log line or by libfuse
    MaxLen,      \* bound on byte counts and link lengths
    None         \* no inode

\* mode: S_ISREG(mode) for mknod, mode # 0 for fallocate; owner: chown's uid.
RequestSet == [op: AllOps, path: Names, to: Names, uid: Uids, owner: Uids,
               mode: BOOLEAN]

ASSUME ProxyAssumption ==
    /\ Requests \subseteq RequestSet
    /\ Daemon \in Uids
    /\ Errnos \subseteq Nat \ {0}
    /\ EOPNOTSUPP \in Errnos
    /\ Residue \subseteq Nat
    /\ MaxLen \in Nat
    /\ None \notin Inodes
    /\ Requests # {}

VARIABLES
    pc,        \* where the thread is: "idle", "call", "lchown", "log", "reply"
    req,       \* the request it serves
    errno,     \* the thread's errno
    lm,        \* keys of the LogMap that decide whether a line is written
    result,    \* proxy's local result, the reply
    failed,    \* ghost: errno of the request's own failing call, 0 if none
    made,      \* ghost: the inode the request bound to its target name
    rec,       \* the line Util::log wrote for this request
    dir,       \* the backing directory: name -> inode
    owner      \* owner of each inode

vars == <<pc, req, errno, lm, result, failed, made, rec, dir, owner>>

NoRecord  == [action |-> "none", errno |-> 0, retname |-> "none"]
Records   == [action: AllOps \cup {"", "none"}, errno: Nat,
              retname: {"SUCCESS", "FAILURE", "none"}]

\* LoggedFS is mounted over a directory that already has content.
Init ==
    /\ pc = [t \in Threads |-> "idle"]
    /\ req = [t \in Threads |-> NoRequest]
    /\ errno = [t \in Threads |-> 0]
    /\ lm = [t \in Threads |-> {}]
    /\ result = [t \in Threads |-> 0]
    /\ failed = [t \in Threads |-> 0]
    /\ made = [t \in Threads |-> None]
    /\ rec = [t \in Threads |-> NoRecord]
    /\ dir \in [Names -> Inodes \cup {None}]
    /\ owner \in [Inodes -> Uids]

-----------------------------------------------------------------------------
(* What the kernel and libfuse serialise: the directory's inode lock lets  *)
(* one namespace operation in at a time, and libfuse's path lock keeps     *)
(* every other request off the names it touches until it has been answered. *)

Touched(r) ==
    CASE r.op \in {"rename", "link"} -> {r.path, r.to}
      [] r.op = "symlink" -> {r.to}
      [] r.op \in FdOps -> {}
      [] OTHER -> {r.path}

Compatible(r, s) ==
    /\ ~ (r.op \in NamespaceOps /\ s.op \in NamespaceOps)
    /\ r.op \in NamespaceOps \/ s.op \in NamespaceOps
         => Touched(r) \cap Touched(s) = {}

Serialised(r) == \A u \in Threads : pc[u] # "idle" => Compatible(r, req[u])

-----------------------------------------------------------------------------
(* The building blocks of the handlers.                                    *)

At(t, label, ops) == pc[t] = label /\ req[t].op \in ops

\* proxy goes on to Util::log with the handler's value; err is the errno of
\* the system call that failed in this request, 0 when none did.
Return(t, value, err) ==
    /\ pc' = [pc EXCEPT ![t] = "log"]
    /\ result' = [result EXCEPT ![t] = value]
    /\ failed' = [failed EXCEPT ![t] = err]
    /\ UNCHANGED <<req, rec>>

\* A system call fails with e, and the handler returns -errno (which is also
\* what r*errno is when r is -1).
Fail(t, e) ==
    /\ errno' = [errno EXCEPT ![t] = e]
    /\ Return(t, -e, e)

\* A call that succeeds leaves errno as it was.
Succeed(t, value) == Return(t, value, 0) /\ UNCHANGED errno

\* Mutant: the handlers answer -errno whether or not the call failed.
ProductAlwaysNegated(t, ret) == -errno[t]

\* call(...)*errno, evaluated from left to right: errno is read after a call
\* that returned ret without failing.
Product(t, ret) == ret * errno[t]

NoEffect == UNCHANGED <<made, dir, owner>>

Bound(n) == dir[n] # None

Free(i) == \A n \in Names : dir[n] # i

\* Name n now stands for inode i, created by this process.
Bind(t, n, i) ==
    /\ dir' = [dir EXCEPT ![n] = i]
    /\ owner' = [owner EXCEPT ![i] = Daemon]
    /\ made' = [made EXCEPT ![t] = i]

-----------------------------------------------------------------------------
(* One action per shape of handler.                                        *)

\* libfuse calls proxy<N>: the prologue asks fuzzyShouldLog and puts the
\* action and the path into the LogMap.
Dispatch(t) ==
    /\ pc[t] = "idle"
    /\ \E r \in Requests, wanted \in BOOLEAN :
         /\ Serialised(r)
         /\ req' = [req EXCEPT ![t] = r]
         /\ lm' = [lm EXCEPT ![t] = IF wanted THEN {"ACTION", "RELPATH"} ELSE {}]
    /\ pc' = [pc EXCEPT ![t] = "call"]
    /\ UNCHANGED <<errno, result, failed, made, rec, dir, owner>>

\* return call(...) * errno on a path; lchown also changes the owner.
Attribute(t) ==
    /\ At(t, "call", PathOps)
    /\ \/ /\ Bound(req[t].path)
          /\ Succeed(t, Product(t, 0))
          /\ owner' = IF req[t].op = "chown"
                        THEN [owner EXCEPT ![dir[req[t].path]] = req[t].owner]
                        ELSE owner
       \/ /\ \E e \in Errnos : Fail(t, e)
          /\ UNCHANGED owner
    /\ UNCHANGED <<lm, made, dir>>

\* return call(...) * errno on the handle in fi->fh.
Descriptor(t) ==
    /\ At(t, "call", FdOps)
    /\ \/ Succeed(t, Product(t, 0))
       \/ \E e \in Errnos : Fail(t, e)
    /\ NoEffect /\ UNCHANGED lm

Remove(t) ==
    /\ At(t, "call", RemoveOps)
    /\ \/ /\ Bound(req[t].path)
          /\ Succeed(t, Product(t, 0))
          /\ dir' = [dir EXCEPT ![req[t].path] = None]
       \/ /\ \E e \in Errnos : Fail(t, e)
          /\ UNCHANGED dir
    /\ UNCHANGED <<lm, made, owner>>

\* rename, symlink and link put RELPATH into the LogMap a second time, wanted
\* or not.  Renaming one link of an inode over another does nothing.
AddRelPath(t) == lm' = [lm EXCEPT ![t] = @ \cup {"RELPATH"}]

Rename(t) ==
    LET from == req[t].path
        to   == req[t].to
    IN  /\ At(t, "call", {"rename"})
        /\ \/ /\ Bound(from)
              /\ Succeed(t, Product(t, 0))
              /\ dir' = IF dir[from] = dir[to] THEN dir
                        ELSE [dir EXCEPT ![to] = dir[from], ![from] = None]
           \/ /\ \E e \in Errnos : Fail(t, e)
              /\ UNCHANGED dir
        /\ AddRelPath(t)
        /\ UNCHANGED <<made, owner>>

\* Mutant: the handlers stop once the object is made.
SkipLchown(t) == Succeed(t, 0)

\* The object is there; the handler goes on to lchown it.
GoToLchown(t) ==
    /\ pc' = [pc EXCEPT ![t] = "lchown"]
    /\ UNCHANGED <<req, errno, result, failed, rec>>

\* mknod, mkdir, symlink up to the lchown.  mknod makes a regular file with
\* open and close, and gives up when the close fails.
MakeNode(t) ==
    LET target == Target(req[t])
    IN  /\ At(t, "call", MakeNewOps)
        /\ \/ /\ ~ Bound(target)
              /\ \E i \in Inodes : Free(i) /\ Bind(t, target, i)
              /\ \/ GoToLchown(t)
                 \/ /\ req[t].op = "mknod" /\ req[t].mode
                    /\ \E e \in Errnos : Fail(t, e)
           \/ /\ \E e \in Errnos : Fail(t, e)
              /\ NoEffect
        /\ IF req[t].op = "symlink" THEN AddRelPath(t) ELSE UNCHANGED lm

MakeLink(t) ==
    /\ At(t, "call", {"link"})
    /\ \/ /\ Bound(req[t].path) /\ ~ Bound(req[t].to)
          /\ dir' = [dir EXCEPT ![req[t].to] = dir[req[t].path]]
          /\ made' = [made EXCEPT ![t] = dir[req[t].path]]
          /\ GoToLchown(t)
          /\ UNCHANGED owner
       \/ /\ \E e \in Errnos : Fail(t, e)
          /\ NoEffect
    /\ AddRelPath(t)

\* Mutant: the owner and the group are set by two calls, and the second fails.
LchownHalf(t) ==
    /\ pc[t] = "lchown"
    /\ \/ /\ Bound(Target(req[t]))
          /\ owner' = [owner EXCEPT ![dir[Target(req[t])]] = req[t].uid]
          /\ Succeed(t, Product(t, 0)) \/ \E e \in Errnos : Fail(t, e)
       \/ /\ \E e \in Errnos : Fail(t, e)
          /\ UNCHANGED owner
    /\ UNCHANGED <<lm, made, dir>>

\* return lchown(target, caller) * errno: the path is resolved again.
Lchown(t) ==
    /\ pc[t] = "lchown"
    /\ \/ /\ Bound(Target(req[t]))
          /\ owner' = [owner EXCEPT ![dir[Target(req[t])]] = req[t].uid]
          /\ Succeed(t, Product(t, 0))
       \/ /\ \E e \in Errnos : Fail(t, e)
          /\ UNCHANGED owner
    /\ UNCHANGED <<lm, made, dir>>

\* return readlink(...) * errno: the length times whatever errno holds.
Readlink(t) ==
    /\ At(t, "call", {"readlink"})
    /\ \/ /\ Bound(req[t].path)
          /\ \E len \in 1 .. MaxLen : Succeed(t, Product(t, len))
       \/ \E e \in Errnos : Fail(t, e)
    /\ NoEffect /\ UNCHANGED lm

\* creat makes the file if need be; no lchown follows.
Create(t) ==
    LET path == req[t].path
    IN  /\ At(t, "call", {"create"})
        /\ \/ Bound(path) /\ Succeed(t, 0) /\ NoEffect
           \/ /\ ~ Bound(path)
              /\ \E i \in Inodes : Free(i) /\ Bind(t, path, i)
              /\ Succeed(t, 0)
           \/ (\E e \in Errnos : Fail(t, e)) /\ NoEffect
        /\ UNCHANGED lm

\* open, opendir, read_buf: 0 or -errno, nothing in the directory changes.
Open(t) ==
    /\ At(t, "call", OpenOps)
    /\ \/ Succeed(t, 0)
       \/ \E e \in Errnos : Fail(t, e)
    /\ NoEffect /\ UNCHANGED lm

\* read, write, write_buf, getxattr, listxattr: a count or -errno.
Count(t) ==
    /\ At(t, "call", CountOps)
    /\ \/ \E n \in 0 .. MaxLen : Succeed(t, n)
       \/ \E e \in Errnos : Fail(t, e)
    /\ NoEffect /\ UNCHANGED lm

\* A mode is refused without a system call and without touching errno;
\* posix_fallocate returns its error, which is also stored in errno, 0 included.
Fallocate(t) ==
    /\ At(t, "call", {"fallocate"})
    /\ \/ /\ req[t].mode
          /\ Return(t, -EOPNOTSUPP, EOPNOTSUPP)
          /\ UNCHANGED errno
       \/ /\ ~ req[t].mode
          /\ \E e \in Errnos \cup {0} : Fail(t, e)
    /\ NoEffect /\ UNCHANGED lm

\* Mutant: the assignment errno = EOPNOTSUPP is missing.
RefuseWithoutErrno(t) ==
    /\ At(t, "call", Unsupported)
    /\ Return(t, -EOPNOTSUPP, EOPNOTSUPP)
    /\ NoEffect /\ UNCHANGED <<errno, lm>>

\* bmap, ioctl, poll.
Refuse(t) ==
    /\ At(t, "call", Unsupported)
    /\ Fail(t, EOPNOTSUPP)
    /\ NoEffect /\ UNCHANGED lm

\* readdir, releasedir, release, fsyncdir: a failing call leaves its errno
\* behind, the handler returns 0.
Deaf(t) ==
    /\ At(t, "call", DeafOps)
    /\ \/ Succeed(t, 0)
       \/ /\ req[t].op # "fsyncdir"
          /\ \E e \in Errnos : Return(t, 0, e) /\ errno' = [errno EXCEPT ![t] = e]
    /\ NoEffect /\ UNCHANGED lm

\* lock is registered but its case is commented out: result stays 0.
NoCase(t) ==
    /\ At(t, "call", {"lock"})
    /\ Succeed(t, 0)
    /\ NoEffect /\ UNCHANGED lm

\* Util::log: no line without ACTION and RELPATH; ERRNO is the thread's errno
\* at this moment and decides between SUCCESS and FAILURE.
LogLine(t) ==
    [action  |-> ActionName(req[t].op),
     errno   |-> errno[t],
     retname |-> IF errno[t] = 0 THEN "SUCCESS" ELSE "FAILURE"]

Log(t) ==
    /\ pc[t] = "log"
    /\ pc' = [pc EXCEPT ![t] = "reply"]
    /\ \/ /\ {"ACTION", "RELPATH"} \subseteq lm[t]
          /\ rec' = [rec EXCEPT ![t] = LogLine(t)]
       \/ UNCHANGED rec
    /\ UNCHANGED <<req, errno, lm, result, failed, made, dir, owner>>

\* Mutant: the LogMap is static and outlives its request.
KeepLogMap(t) == UNCHANGED lm

EndLogMap(t) == lm' = [lm EXCEPT ![t] = {}]

\* proxy returns: the LogMap dies and libfuse sends the reply; the calls made
\* since errno was logged (getpwuid, /proc, libfuse's own) may have left
\* another errno behind for the thread's next request.
Reply(t) ==
    /\ pc[t] = "reply"
    /\ pc' = [pc EXCEPT ![t] = "idle"]
    /\ req' = [req EXCEPT ![t] = NoRequest]
    /\ EndLogMap(t)
    /\ result' = [result EXCEPT ![t] = 0]
    /\ failed' = [failed EXCEPT ![t] = 0]
    /\ made' = [made EXCEPT ![t] = None]
    /\ rec' = [rec EXCEPT ![t] = NoRecord]
    /\ errno' \in {errno} \cup {[errno EXCEPT ![t] = e] : e \in Residue}
    /\ UNCHANGED <<dir, owner>>

Handler(t) ==
    \/ Attribute(t) \/ Descriptor(t) \/ Remove(t) \/ Rename(t)
    \/ MakeNode(t) \/ MakeLink(t) \/ Lchown(t) \/ Readlink(t)
    \/ Create(t) \/ Open(t) \/ Count(t) \/ Fallocate(t)
    \/ Refuse(t) \/ Deaf(t) \/ NoCase(t)

Next == \E t \in Threads : Dispatch(t) \/ Handler(t) \/ Log(t) \/ Reply(t)

Spec == Init /\ [][Next]_vars

-----------------------------------------------------------------------------
(* Properties.                                                             *)

\* Every variable has its type, and a thread between two requests carries
\* nothing of the last one but its errno.
TypeOK ==
    /\ pc \in [Threads -> {"idle", "call", "lchown", "log", "reply"}]
    /\ req \in [Threads -> Requests \cup {NoRequest}]
    /\ errno \in [Threads -> Nat]
    /\ lm \in [Threads -> SUBSET {"ACTION", "RELPATH"}]
    /\ result \in [Threads -> Int]
    /\ failed \in [Threads -> Nat]
    /\ made \in [Threads -> Inodes \cup {None}]
    /\ rec \in [Threads -> Records]
    /\ dir \in [Names -> Inodes \cup {None}]
    /\ owner \in [Inodes -> Uids]
    /\ \A t \in Threads : pc[t] # "idle" <=> req[t] \in Requests
    /\ \A t \in Threads : pc[t] = "idle" => lm[t] = {} /\ rec[t] = NoRecord

Answered(t) == pc[t] = "reply"

\* The reply is the outcome of this request's own system calls, never of an
\* earlier request's errno: the negated error of the call that failed, or a
\* value that is not negative, and 0 except for counts and readlink.  The
\* handlers that drop errors are left out.
ReplyIsOwnOutcome ==
    \A t \in Threads :
        Answered(t) /\ req[t].op \notin DeafOps =>
            /\ failed[t] # 0 => result[t] = -failed[t]
            /\ failed[t] = 0 => /\ result[t] >= 0
                                /\ req[t].op \notin CountOps \cup {"readlink"}
                                     => result[t] = 0

\* Refused without a system call, so that errno says nothing about it.
RefusedByMode(t) == req[t].op = "fallocate" /\ req[t].mode

\* A line written for a request that is answered with an error shows that very
\* error and FAILURE, although Util::log reads errno only after the handler
\* and the LogMap insertions have returned.
ErrorLoggedAsFailure ==
    \A t \in Threads :
        /\ Answered(t) /\ result[t] < 0 /\ ~ RefusedByMode(t)
        /\ rec[t] # NoRecord
        => rec[t].errno = -result[t] /\ rec[t].retname = "FAILURE"

\* Making an object and giving it to the caller are two system calls and the
\* second resolves the name again; whatever the other threads do in between,
\* a make that is answered with 0 left the caller the owner of the inode it
\* made, under the name it was asked for.
MadeOwnedByCaller ==
    \A t \in Threads :
        Answered(t) /\ req[t].op \in MakeNewOps /\ result[t] = 0 =>
            /\ made[t] # None
            /\ dir[Target(req[t])] = made[t]
            /\ owner[made[t]] = req[t].uid

(* What the manual page promises and the code does not keep.               *)

\* "a transparent fuse-filesystem which allows to log every operations ... You
\* can add filters on ... return code": a request that succeeded is logged as
\* SUCCESS.  The code logs whatever errno an earlier request left behind.
SuccessLoggedAsSuccess ==
    \A t \in Threads :
        Answered(t) /\ result[t] >= 0 /\ failed[t] = 0 /\ rec[t] # NoRecord
        => rec[t].retname = "SUCCESS"

\* A transparent filesystem answers a readlink that succeeded with 0, the only
\* value libfuse takes for success.
ReadlinkAnswersZero ==
    \A t \in Threads :
        Answered(t) /\ req[t].op = "readlink" /\ failed[t] = 0
        => result[t] = 0

-----------------------------------------------------------------------------
(* The filesystem that is seen through the mount.                          *)

\* A name a make has bound is not seen before the answer's value is settled.
Hidden(n) == \E t \in Threads : pc[t] = "lchown" /\ Target(req[t]) = n

Visible == [n \in Names |-> IF Hidden(n) THEN None ELSE dir[n]]

Owners == [i \in Inodes |-> IF \E n \in Names : Visible[n] = i THEN owner[i] ELSE None]

Answers == [t \in Threads |-> IF pc[t] \in {"log", "reply"} THEN {result[t]} ELSE {}]

Seen == INSTANCE Passthrough
            WITH serving <- req, answer <- Answers, dir <- Visible, owner <- Owners

\* Every request takes effect at one instant, though mknod, mkdir, symlink and
\* link are two system calls: no other request can meet an object between the
\* two, and one that is refused half way is left as the first call made it.
Atomic == Seen!Spec

-----------------------------------------------------------------------------
(* The inductive invariant behind the properties that hold.                *)

\* The requests in flight are compatible with one another.
Exclusion ==
    \A t, u \in Threads :
        t # u /\ pc[t] # "idle" /\ pc[u] # "idle" => Compatible(req[t], req[u])

Finished(t) == pc[t] \in {"log", "reply"}

\* ReplyIsOwnOutcome, from the moment the handler returns.
OutcomeInv ==
    \A t \in Threads :
        Finished(t) /\ req[t].op \notin DeafOps =>
            /\ failed[t] # 0 => result[t] = -failed[t]
            /\ failed[t] = 0 => /\ result[t] >= 0
                                /\ req[t].op \notin CountOps \cup {"readlink"}
                                     => result[t] = 0

\* Between the handler and Util::log nothing disturbs the errno of a failure,
\* and no line is written before Util::log.
LogInv ==
    \A t \in Threads :
        /\ pc[t] = "log" /\ result[t] < 0 /\ ~ RefusedByMode(t)
             => errno[t] = -result[t]
        /\ pc[t] # "reply" => rec[t] = NoRecord

\* The inode a make bound has the target name and no other until the reply,
\* and belongs to the caller once lchown has succeeded.
MakeInv ==
    \A t \in Threads :
        /\ pc[t] = "lchown" => req[t].op \in MakeNewOps \cup {"link"}
        /\ /\ req[t].op \in MakeNewOps
           /\ pc[t] = "lchown" \/ (Finished(t) /\ result[t] = 0)
           => /\ made[t] \in Inodes
              /\ dir[Target(req[t])] = made[t]
              /\ \A n \in Names : n # Target(req[t]) => dir[n] # made[t]
              /\ pc[t] # "lchown" => owner[made[t]] = req[t].uid

\* Between the two system calls of a make the inode is the daemon's, or, for
\* link, has the name it is linked from.
HalfInv ==
    \A t \in Threads :
        pc[t] = "lchown" =>
            /\ req[t].op \in MakeNewOps => owner[made[t]] = Daemon
            /\ req[t].op = "link" => /\ req[t].path # req[t].to
                                     /\ Bound(req[t].path)
                                     /\ dir[req[t].to] = dir[req[t].path]

IInv == TypeOK /\ Exclusion /\ OutcomeInv /\ LogInv /\ ErrorLoggedAsFailure /\ MakeInv

=============================================================================
