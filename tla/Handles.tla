------------------------------ MODULE Handles ------------------------------
(***************************************************************************)
(* File handles: fi->fh from open, create or opendir to release, and the   *)
(* descriptors that mknod and flush hold for a moment.                     *)
(***************************************************************************)
EXTENDS Descriptors

CONSTANTS Thread, File,
          Asked         \* the access fi->flags ask for

ASSUME AskedAssumption == Asked \subseteq {"read", "write", "both"}

VARIABLES handles,   \* what libfuse holds open: file, fi->fh, the flags asked for
          doing      \* per thread: a handler between two system calls

handleVars == <<handles, doing>>

Handle  == [file : File, fh : Fd, asked : Asked]
Resting == [call |-> "none", fd |-> NoFd, of |-> NoFd]

HandleInit == handles = {} /\ doing = [t \in Thread |-> Resting]

Rests(t) == doing[t] = Resting

\* open and opendir, with the access that is asked for; without a descriptor
\* there is no handle.
Open(t, file, asked) ==
    /\ Rests(t) /\ Lowest # NoFd
    /\ Occupy(Lowest, [obj |-> file, access |-> asked])
    /\ handles' = handles \cup {[file |-> file, fh |-> Lowest, asked |-> asked]}
    /\ UNCHANGED doing

\* create calls creat: whatever fi->flags ask for, the descriptor writes only.
Create(t, file, asked) ==
    /\ Rests(t) /\ Lowest # NoFd
    /\ Occupy(Lowest, [obj |-> file, access |-> "write"])
    /\ handles' = handles \cup {[file |-> file, fh |-> Lowest, asked |-> asked]}
    /\ UNCHANGED doing

\* open(O_CREAT | O_EXCL), then close: mknod keeps no descriptor.
MknodOpen(t, file) ==
    /\ Rests(t) /\ Lowest # NoFd
    /\ Occupy(Lowest, [obj |-> file, access |-> "write"])
    /\ doing' = [doing EXCEPT ![t] = [call |-> "mknod", fd |-> Lowest, of |-> NoFd]]
    /\ UNCHANGED handles

\* dup(fi->fh), the first half of close(dup(fi->fh)); it may give -1.
FlushDup(t, h) ==
    /\ Rests(t) /\ h \in handles
    /\ IF Lowest = NoFd THEN UNCHANGED fdt ELSE Occupy(Lowest, fdt[h.fh])
    /\ doing' = [doing EXCEPT ![t] = [call |-> "flush", fd |-> Lowest, of |-> h.fh]]
    /\ UNCHANGED handles

\* Mutant: flush closes the handle's own descriptor.
CloseOriginal(t) ==
    /\ ~Rests(t)
    /\ Close(IF doing[t].call = "flush" THEN doing[t].of ELSE doing[t].fd)
    /\ doing' = [doing EXCEPT ![t] = Resting]
    /\ UNCHANGED handles

\* Mutant: the copy is not closed.
CloseNothing(t) ==
    /\ ~Rests(t)
    /\ doing' = [doing EXCEPT ![t] = Resting]
    /\ UNCHANGED <<fdt, handles>>

\* The close in flush and mknod.
CloseTaken(t) ==
    /\ ~Rests(t)
    /\ Close(doing[t].fd)
    /\ doing' = [doing EXCEPT ![t] = Resting]
    /\ UNCHANGED handles

\* release and releasedir, which the kernel sends once and last.
Release(t, h) ==
    /\ Rests(t) /\ h \in handles /\ \A u \in Thread : doing[u].of # h.fh
    /\ Close(h.fh)
    /\ handles' = handles \ {h}
    /\ UNCHANGED doing

HandleRequest(t) ==
    \/ \E file \in File :
         \/ \E asked \in Asked : Open(t, file, asked) \/ Create(t, file, asked)
         \/ MknodOpen(t, file)
    \/ \E h \in handles : FlushDup(t, h) \/ Release(t, h)

-----------------------------------------------------------------------------

HandleTypeOK ==
    /\ handles \subseteq Handle
    /\ \A t \in Thread : doing[t] \in [call : {"none", "flush", "mknod"}, fd : Fd \cup {NoFd},
                                       of : Fd \cup {NoFd}]

\* Descriptors in use by handlers of the moment.
Taken == {d \in Fd : \E t \in Thread : doing[t].fd = d}

\* A handle reaches the file it was opened on, from open to release, whatever
\* else takes and closes descriptors meanwhile, and no two share one; it can do
\* what was asked, unless it came from create and was to be read.
HandleKeepsFile ==
    /\ \A h \in handles : /\ fdt[h.fh].obj = h.file
                           /\ fdt[h.fh].access \in {h.asked, "write"}
                           /\ h.fh \notin Taken
    /\ \A h, g \in handles : h.fh = g.fh => h = g
=============================================================================
