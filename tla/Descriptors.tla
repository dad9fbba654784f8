---------------------------- MODULE Descriptors ----------------------------
(***************************************************************************)
(* The descriptor table of the process, which the file handles and the log *)
(* share.  The kernel gives the lowest free descriptor, so one that is     *)
(* closed too early is soon somebody else's.                               *)
(***************************************************************************)
EXTENDS Integers, FiniteSets, FiniteSetsExt

CONSTANT Fd   \* the descriptors the process may have, beyond stdin to stderr

ASSUME FdAssumption == Fd \subseteq Nat \ {0} /\ IsFiniteSet(Fd)

VARIABLE fdt  \* the object of each descriptor and how it may be used

NoFd == 0     \* stands for -1
None == 0

Free   == [obj |-> None, access |-> "none"]
Unused == {d \in Fd : fdt[d].access = "none"}

\* open, dup: the lowest descriptor, or EMFILE.
Lowest == IF Unused = {} THEN NoFd ELSE Min(Unused)

Occupy(d, entry) == fdt' = [fdt EXCEPT ![d] = entry]

\* close(-1) is EBADF.
Closed(d) == [e \in Fd |-> IF e = d THEN Free ELSE fdt[e]]
Close(d)  == fdt' = Closed(d)
=============================================================================
