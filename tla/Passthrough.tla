---------------------------- MODULE Passthrough ----------------------------
(***************************************************************************)
(* What LoggedFS promises as a filesystem: every request takes effect at   *)
(* one instant between its arrival and its answer, and either does what    *)
(* the caller asked for, as the caller, or is refused and does nothing.    *)
(*                                                                         *)
(* Three clauses are the code's own and no transparent filesystem's.  A    *)
(* make may be refused and yet leave the object, the daemon's (or, for     *)
(* link, the name); link gives the inode to the caller; and what create    *)
(* makes is the daemon's.                                                  *)
(***************************************************************************)
EXTENDS Operations, Integers

CONSTANTS Threads, Names, Inodes, Daemon, Requests, None

VARIABLES
    serving,   \* per thread: its request
    answer,    \* per thread: {} or the answer in a set
    dir,       \* names
    owner      \* owners of the inodes that have a name, None for the others

vars == <<serving, answer, dir, owner>>

Bound(n) == dir[n] # None
Free(i)  == \A n \in Names : dir[n] # i

Init ==
    /\ serving = [t \in Threads |-> NoRequest]
    /\ answer = [t \in Threads |-> {}]
    /\ dir \in [Names -> Inodes \cup {None}]
    /\ \A i \in Inodes : Free(i) => owner[i] = None

Arrive(t) ==
    /\ serving[t] = NoRequest
    /\ \E r \in Requests : serving' = [serving EXCEPT ![t] = r]
    /\ UNCHANGED <<answer, dir, owner>>

-----------------------------------------------------------------------------

Keep == UNCHANGED <<dir, owner>>

\* Names d, owners o; an inode without a name has no owner any more.
Become(d, o) ==
    /\ dir' = d
    /\ owner' = [i \in Inodes |-> IF \E n \in Names : d[n] = i THEN o[i] ELSE None]

Make(n, uid) ==
    /\ ~ Bound(n)
    /\ \E i \in Inodes : /\ Free(i)
                         /\ Become([dir EXCEPT ![n] = i], [owner EXCEPT ![i] = uid])

LinkTo(r, uid) ==
    /\ Bound(r.path) /\ ~ Bound(r.to)
    /\ Become([dir EXCEPT ![r.to] = dir[r.path]], [owner EXCEPT ![dir[r.path]] = uid])

\* A request that is granted, with the answer v.
Grant(r, v) ==
    \/ r.op \in PathOps \ {"chown"} /\ v = 0 /\ Bound(r.path) /\ Keep
    \/ /\ r.op = "chown" /\ v = 0 /\ Bound(r.path)
       /\ Become(dir, [owner EXCEPT ![dir[r.path]] = r.owner])
    \/ r.op \in FdOps \cup OpenOps \cup DeafOps \cup {"fallocate", "lock"} /\ v = 0 /\ Keep
    \/ r.op \in CountOps \cup {"readlink"} /\ v >= 0 /\ Keep
    \/ r.op \in RemoveOps /\ v = 0 /\ Bound(r.path) /\ Become([dir EXCEPT ![r.path] = None], owner)
    \/ /\ r.op = "rename" /\ v = 0 /\ Bound(r.path)
       /\ IF dir[r.path] = dir[r.to] THEN Keep
          ELSE Become([dir EXCEPT ![r.to] = dir[r.path], ![r.path] = None], owner)
    \/ r.op \in MakeNewOps /\ v = 0 /\ Make(Target(r), r.uid)
    \/ r.op = "link" /\ v = 0 /\ LinkTo(r, r.uid)
    \/ r.op = "create" /\ v = 0 /\ ((Bound(r.path) /\ Keep) \/ Make(r.path, Daemon))

\* A request that is refused with the error -v; a make may have come half way.
Deny(r, v) ==
    /\ v < 0 /\ r.op \notin DeafOps \cup {"lock"}
    /\ \/ Keep
       \/ r.op \in MakeNewOps /\ Make(Target(r), Daemon)
       \/ r.op = "link" /\ LinkTo(r, owner[dir[r.path]])

\* The answer is any that a clause allows.
Effect(t) ==
    /\ serving[t] # NoRequest /\ answer[t] = {}
    /\ \E v \in answer'[t] : /\ answer' = [answer EXCEPT ![t] = {v}]
                             /\ Grant(serving[t], v) \/ Deny(serving[t], v)
    /\ UNCHANGED serving

Leave(t) ==
    /\ answer[t] # {}
    /\ serving' = [serving EXCEPT ![t] = NoRequest]
    /\ answer' = [answer EXCEPT ![t] = {}]
    /\ Keep

Next == \E t \in Threads : Arrive(t) \/ Effect(t) \/ Leave(t)

Spec == Init /\ [][Next]_vars
=============================================================================
