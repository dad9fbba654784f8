--------------------------- MODULE ProcessProofs ---------------------------
(***************************************************************************)
(* Proofs about Process, for any threads, files, signals and descriptors:  *)
(* the handles keep their files, requests are served in the directory      *)
(* that was mounted over, and SIGHUP meets a deleted filebuf only where    *)
(* main is about to replace it or to end.                                  *)
(*                                                                         *)
(* The core is that whoever holds a descriptor holds it alone: a           *)
(* descriptor that two held would be closed under one of them by the       *)
(* other, given out again as the lowest, and be a third party's file.      *)
(* From it follow the account of the open descriptors, and that a line is  *)
(* written to a log file.                                                  *)
(***************************************************************************)
EXTENDS Process, FiniteSetTheorems, SequenceTheorems, WellFoundedInduction, TLAPS

\* The descriptor is open.
Used(d) == d \in Fd /\ fdt[d].access # "none"

\* The filebuf has a descriptor.
LogIsOpen == filebuf.is = "open"

\* A call that holds a descriptor between two system calls.
Call == [call : {"none", "flush", "mknod"}, fd : Fd \cup {NoFd}, of : Fd \cup {NoFd}]

\* An entry of the descriptor table.
Entry == [obj : File \cup Int, access : {"none", "read", "write", "both"}]

\* What the argument about descriptors needs of the types.
Shape ==
    /\ fdt \in [Fd -> Entry]
    /\ handles \subseteq [file : File, fh : Fd, asked : Asked]
    /\ doing \in [Thread -> Call]
    /\ filebuf \in [fd : Fd \cup {NoFd}, is : {"null", "open", "closed", "freed"}]
    /\ newfd \in Fd \cup {NoFd} /\ savefd \in Fd \cup {NoFd}
    /\ hup \in [Signal -> [at : {"unsent", "opened", "done", "wild"}, fd : Fd \cup {NoFd}]]

\* What is held is open.
InUse ==
    /\ newfd # NoFd => Used(newfd)
    /\ savefd # NoFd => Used(savefd)
    /\ LogIsOpen => Used(filebuf.fd)
    /\ \A s \in Signal : hup[s].fd # NoFd => Used(hup[s].fd)
    /\ \A t \in Thread : doing[t].fd # NoFd => Used(doing[t].fd)
    /\ \A h \in handles : Used(h.fh)

\* The log's descriptors are apart; d is none of them.
OutsideLog(d) ==
    /\ d # newfd /\ d # savefd /\ (LogIsOpen => d # filebuf.fd)
    /\ \A s \in Signal : d # hup[s].fd

\* What the log and main hold is apart.
LogApart ==
    /\ newfd # NoFd => /\ newfd # savefd /\ (LogIsOpen => newfd # filebuf.fd)
                       /\ \A s \in Signal : newfd # hup[s].fd
    /\ savefd # NoFd => /\ (LogIsOpen => savefd # filebuf.fd)
                        /\ \A s \in Signal : savefd # hup[s].fd
    /\ LogIsOpen => \A s \in Signal : filebuf.fd # hup[s].fd

\* The descriptor of a call under way is nobody else's.
TakenApart ==
    \A t \in Thread : doing[t].fd # NoFd =>
        /\ OutsideLog(doing[t].fd)
        /\ \A u \in Thread : doing[u].fd = doing[t].fd => u = t

\* The descriptor of a handle is nobody else's.
HandlesApart ==
    \A h \in handles :
        /\ OutsideLog(h.fh)
        /\ \A t \in Thread : doing[t].fd # h.fh
        /\ \A g \in handles : g.fh = h.fh => g = h

\* A handle's descriptor leads to its file.
Reaches ==
    \A h \in handles : /\ fdt[h.fh].obj = h.file
                       /\ fdt[h.fh].access \in {h.asked, "write"}

\* Where main is tells what it holds.
MainHolds ==
    /\ phase \in {"swap", "dangling"} => newfd # NoFd
    /\ filebuf.is = "freed" => phase \in {"dangling", "freed", "ended"}
    /\ \A s \in Signal : hup[s].at = "opened" => LogIsOpen /\ hup[s].fd # NoFd

\* The directory is the one mounted over, or savefd stands for it.
Backing ==
    /\ phase \in {"args", "swap", "dangling"} => prepared = "no"
    /\ phase = "chdir" /\ prepared = "yes" => cwd = "mount"
    /\ phase \in {"ready", "mounted"} /\ prepared = "yes" =>
          savefd # NoFd /\ fdt[savefd].obj = Mount
    /\ phase = "serving" /\ prepared = "yes" => cwd = "mount"

\* The name the last handler opened still stands for the file it got.
Stands ==
    /\ named \in [Names -> Int] /\ cwd \in Names
    /\ reopened # NoName =>
          /\ reopened.name \in Names /\ reopened.file \in Int \ {None}
          /\ named[reopened.name] = reopened.file

\* Until main changes the directory, every open of the log opens the same file.
Relogs ==
    phase \in {"args", "swap", "dangling"} =>
        /\ reopened = NoName \/ reopened.name = Name
        /\ newfd # NoFd => fdt[newfd].obj = named[Name] /\ named[Name] # None

\* The file is the handler's, then the log's; there is one handler at a time.
Follows ==
    /\ \A r, s \in Signal : hup[r].at = "opened" /\ hup[s].at = "opened" => r = s
    /\ LogIsOpen /\ reopened # NoName =>
          /\ Alone => fdt[filebuf.fd].obj = reopened.file
          /\ \A s \in Signal : hup[s].at = "opened" => fdt[hup[s].fd].obj = reopened.file

\* One holder for each descriptor, and what follows from it.
IInv == /\ Shape /\ InUse /\ LogApart /\ TakenApart /\ HandlesApart /\ Reaches
        /\ MainHolds /\ Backing /\ Stands /\ Relogs /\ Follows

-----------------------------------------------------------------------------

\* A nonempty set of numbers has a least one: among its initial segments 0 .. k,
\* one is minimal for inclusion.
LEMMA Least ==
    ASSUME NEW S \in SUBSET Nat, S # {}
    PROVE  \E x \in S : \A y \in S : x =< y
<1> DEFINE T == {0 .. k : k \in S}
<1>1. T \subseteq FiniteSubsetsOf(Nat)
    <2>1. ASSUME NEW k \in S PROVE 0 .. k \in SUBSET Nat /\ IsFiniteSet(0 .. k)
        <3>1. k \in Nat OBVIOUS
        <3>2. IsFiniteSet(0 .. k) BY <3>1, FS_Interval
        <3> QED BY <3>1, <3>2
    <2> QED BY <2>1 DEF FiniteSubsetsOf
<1>2. T # {} OBVIOUS
<1>3. IsWellFoundedOn(StrictSubsetOrdering(Nat), FiniteSubsetsOf(Nat))
    BY FS_StrictSubsetOrderingWellFounded
<1> HIDE DEF T
<1>4. PICK x \in T : \A y \in T : <<y, x>> \notin StrictSubsetOrdering(Nat)
    BY <1>1, <1>2, <1>3, WFMin
<1>5. PICK k \in S : x = 0 .. k BY DEF T
<1>6. ASSUME NEW y \in S PROVE k =< y
    <2>1. k \in Nat /\ y \in Nat OBVIOUS
    <2>2. SUFFICES ASSUME y < k PROVE FALSE BY <2>1
    <2>3. 0 .. y \in T BY DEF T
    <2>4. 0 .. y \subseteq 0 .. k /\ 0 .. y # 0 .. k
        <3>1. k \in 0 .. k /\ k \notin 0 .. y BY <2>1, <2>2
        <3>2. 0 .. y \subseteq 0 .. k BY <2>1, <2>2
        <3> QED BY <3>1, <3>2
    <2>5. 0 .. y \in SUBSET Nat /\ 0 .. k \in SUBSET Nat BY <2>1
    <2>6. <<0 .. y, 0 .. k>> \in StrictSubsetOrdering(Nat)
        BY <2>4, <2>5 DEF StrictSubsetOrdering
    <2> QED BY <1>4, <1>5, <2>3, <2>6
<1> QED BY <1>6

\* open and dup give a descriptor that nobody had.
LEMMA LowestIsFree ==
    ASSUME Lowest # NoFd
    PROVE  Lowest \in Fd /\ fdt[Lowest].access = "none" /\ ~Used(Lowest)
<1>1. Unused # {} /\ Unused \in SUBSET Nat BY FdAssumption DEF Lowest, Unused
<1>2. Lowest = Min(Unused) BY <1>1 DEF Lowest
<1>3. Min(Unused) \in Unused BY <1>1, Least DEF Min
<1> QED BY <1>2, <1>3 DEF Unused, Used

\* ... and nobody has.
LEMMA LowestIsNobodys ==
    ASSUME IInv, Lowest # NoFd
    PROVE  /\ Lowest \in Fd
           /\ OutsideLog(Lowest)
           /\ \A t \in Thread : doing[t].fd # Lowest
           /\ \A h \in handles : h.fh # Lowest
           /\ \A d \in Fd : Used(d) => d # Lowest
BY LowestIsFree DEF IInv, InUse, OutsideLog

\* The log file opened is the one under the name, and other names stand as they did.
LEMMA OpensTheName ==
    ASSUME Stands, NEW file \in 1 .. MaxFile, OpenLog(file)
    PROVE  /\ Name \in Names /\ named' \in [Names -> Int]
           /\ named'[Name] = file
           /\ \A name \in Names : named[name] # None => named'[name] = named[name]
BY DEF Stands, OpenLog, Name, Names

\* The steps, one lemma each.  The descriptor was nobody's.
LEMMA OpenStep ==
    ASSUME IInv, phase = "serving", UNCHANGED sinkVars, NEW t \in Thread,
           NEW f \in File, NEW a \in Asked, Open(t, f, a)
    PROVE  IInv'
<1> USE DEF IInv, NoFd
<1>1. Shape'
    BY AskedAssumption, LowestIsNobodys DEF Shape, Entry, Occupy, Open, sinkVars,
        mainVars, hupVars
<1>2. InUse'
    BY AskedAssumption, LowestIsNobodys DEF Shape, InUse, Used, LogIsOpen, Occupy, Open,
        sinkVars, mainVars, hupVars
<1>3. LogApart'
    BY DEF LogApart, LogIsOpen, sinkVars, mainVars, hupVars
<1>4. TakenApart'
    BY DEF TakenApart, LogIsOpen, OutsideLog, Open, sinkVars, mainVars, hupVars
<1>5. HandlesApart'
    BY LowestIsNobodys DEF HandlesApart, LogIsOpen, OutsideLog, Open, sinkVars,
        mainVars, hupVars
<1>6. Reaches'
    BY LowestIsNobodys DEF Shape, Reaches, Occupy, Open
<1>7. (MainHolds /\ Backing /\ Stands /\ Relogs)'
    BY DEF MainHolds, LogIsOpen, Backing, Stands, Relogs, sinkVars, mainVars, diskVars,
        hupVars
<1>8. Follows'
    BY LowestIsNobodys DEF Shape, InUse, TakenApart, HandlesApart, OutsideLog,
        MainHolds, Follows, LogIsOpen, Used, Alone, Occupy, Open, sinkVars, mainVars,
        diskVars, hupVars
<1> QED BY <1>1, <1>2, <1>3, <1>4, <1>5, <1>6, <1>7, <1>8

\* The descriptor was nobody's.
LEMMA CreateStep ==
    ASSUME IInv, phase = "serving", UNCHANGED sinkVars, NEW t \in Thread,
           NEW f \in File, NEW a \in Asked, Create(t, f, a)
    PROVE  IInv'
<1> USE DEF IInv, NoFd
<1>1. Shape'
    BY LowestIsNobodys DEF Shape, Entry, Occupy, Create, sinkVars, mainVars, hupVars
<1>2. InUse'
    BY LowestIsNobodys DEF Shape, InUse, Used, LogIsOpen, Occupy, Create, sinkVars,
        mainVars, hupVars
<1>3. LogApart'
    BY DEF LogApart, LogIsOpen, sinkVars, mainVars, hupVars
<1>4. TakenApart'
    BY DEF TakenApart, LogIsOpen, OutsideLog, Create, sinkVars, mainVars, hupVars
<1>5. HandlesApart'
    BY LowestIsNobodys DEF HandlesApart, LogIsOpen, OutsideLog, Create, sinkVars,
        mainVars, hupVars
<1>6. Reaches'
    BY LowestIsNobodys DEF Shape, Reaches, Occupy, Create
<1>7. (MainHolds /\ Backing /\ Stands /\ Relogs)'
    BY DEF MainHolds, LogIsOpen, Backing, Stands, Relogs, sinkVars, mainVars, diskVars,
        hupVars
<1>8. Follows'
    BY LowestIsNobodys DEF Shape, InUse, TakenApart, HandlesApart, OutsideLog,
        MainHolds, Follows, LogIsOpen, Used, Alone, Occupy, Create, sinkVars, mainVars,
        diskVars, hupVars
<1> QED BY <1>1, <1>2, <1>3, <1>4, <1>5, <1>6, <1>7, <1>8

\* Taken for a moment, from nobody.
LEMMA MknodOpenStep ==
    ASSUME IInv, phase = "serving", UNCHANGED sinkVars, NEW t \in Thread,
           NEW f \in File, MknodOpen(t, f)
    PROVE  IInv'
<1> USE DEF IInv, NoFd
<1>1. Shape'
    BY LowestIsNobodys DEF Shape, Call, Entry, Occupy, MknodOpen, sinkVars, mainVars,
        hupVars
<1>2. InUse'
    BY LowestIsNobodys DEF Shape, InUse, Used, LogIsOpen, Occupy, MknodOpen, sinkVars,
        mainVars, hupVars
<1>3. LogApart'
    BY DEF LogApart, LogIsOpen, sinkVars, mainVars, hupVars
<1>4. TakenApart'
    BY LowestIsNobodys DEF TakenApart, LogIsOpen, OutsideLog, MknodOpen, sinkVars,
        mainVars, hupVars
<1>5. HandlesApart'
    BY LowestIsNobodys DEF HandlesApart, LogIsOpen, OutsideLog, MknodOpen, sinkVars,
        mainVars, hupVars
<1>6. Reaches'
    BY LowestIsNobodys DEF Reaches, Occupy, MknodOpen
<1>7. (MainHolds /\ Backing /\ Stands /\ Relogs)'
    BY DEF MainHolds, LogIsOpen, Backing, Stands, Relogs, sinkVars, mainVars, diskVars,
        hupVars
<1>8. Follows'
    BY LowestIsNobodys DEF Shape, InUse, TakenApart, HandlesApart, OutsideLog,
        MainHolds, Follows, LogIsOpen, Used, Alone, Occupy, MknodOpen, sinkVars,
        mainVars, diskVars, hupVars
<1> QED BY <1>1, <1>2, <1>3, <1>4, <1>5, <1>6, <1>7, <1>8

\* The copy has a number that was nobody's.
LEMMA FlushDupStep ==
    ASSUME IInv, phase = "serving", UNCHANGED sinkVars, NEW t \in Thread,
           NEW h \in handles, FlushDup(t, h)
    PROVE  IInv'
<1> USE DEF IInv, NoFd
<1>1. Shape'
    BY LowestIsNobodys DEF Shape, Call, Occupy, FlushDup, sinkVars, mainVars, hupVars
<1>2. InUse'
    BY LowestIsNobodys DEF Shape, InUse, Used, LogIsOpen, Occupy, FlushDup, sinkVars,
        mainVars, hupVars
<1>3. LogApart'
    BY DEF LogApart, LogIsOpen, sinkVars, mainVars, hupVars
<1>4. TakenApart'
    BY LowestIsNobodys DEF TakenApart, LogIsOpen, OutsideLog, FlushDup, sinkVars,
        mainVars, hupVars
<1>5. HandlesApart'
    BY LowestIsNobodys DEF HandlesApart, LogIsOpen, OutsideLog, FlushDup, Rests,
        Resting, sinkVars, mainVars, hupVars
<1>6. Reaches'
    BY LowestIsNobodys DEF Shape, Reaches, Occupy, FlushDup
<1>7. (MainHolds /\ Backing /\ Stands /\ Relogs)'
    BY DEF MainHolds, LogIsOpen, Backing, Stands, Relogs, sinkVars, mainVars, diskVars,
        hupVars
<1>8. Follows'
    BY LowestIsNobodys DEF Shape, InUse, TakenApart, HandlesApart, OutsideLog,
        MainHolds, Follows, LogIsOpen, Used, Alone, Occupy, FlushDup, sinkVars,
        mainVars, diskVars, hupVars
<1> QED BY <1>1, <1>2, <1>3, <1>4, <1>5, <1>6, <1>7, <1>8

\* What is closed was this thread's alone.
LEMMA CloseTakenStep ==
    ASSUME IInv, phase = "serving", UNCHANGED sinkVars, NEW t \in Thread,
           CloseTaken(t)
    PROVE  IInv'
<1> USE DEF IInv, NoFd
<1>1. Shape'
    BY DEF Shape, Call, Entry, Close, Closed, Free, None, CloseTaken, Resting, sinkVars,
        mainVars, hupVars
<1>2. InUse'
    BY FdAssumption DEF Shape, InUse, TakenApart, HandlesApart, OutsideLog, Used,
        LogIsOpen, Close, Closed, CloseTaken, Resting, sinkVars, mainVars, hupVars
<1>3. LogApart'
    BY DEF LogApart, LogIsOpen, sinkVars, mainVars, hupVars
<1>4. TakenApart'
    BY DEF TakenApart, LogIsOpen, OutsideLog, CloseTaken, Resting, sinkVars, mainVars,
        hupVars
<1>5. HandlesApart'
    BY FdAssumption DEF Shape, HandlesApart, LogIsOpen, OutsideLog, CloseTaken, Resting,
        sinkVars, mainVars, hupVars
<1>6. Reaches'
    BY DEF Shape, HandlesApart, Reaches, Close, Closed, CloseTaken
<1>7. (MainHolds /\ Backing /\ Stands /\ Relogs)'
    BY DEF MainHolds, LogIsOpen, Backing, Stands, Relogs, sinkVars, mainVars, diskVars,
        hupVars
<1>8. Follows'
    BY FdAssumption DEF Shape, InUse, TakenApart, HandlesApart, OutsideLog, MainHolds,
        Follows, LogIsOpen, Used, Alone, Close, Closed, CloseTaken, sinkVars, mainVars,
        diskVars, hupVars
<1> QED BY <1>1, <1>2, <1>3, <1>4, <1>5, <1>6, <1>7, <1>8

\* What is closed was this handle's alone.
LEMMA ReleaseStep ==
    ASSUME IInv, phase = "serving", UNCHANGED sinkVars, NEW t \in Thread,
           NEW h \in handles, Release(t, h)
    PROVE  IInv'
<1> USE DEF IInv, NoFd
<1>1. Shape'
    BY DEF Shape, Entry, Close, Closed, Free, None, Release, sinkVars, mainVars, hupVars
<1>2. InUse'
    BY DEF InUse, HandlesApart, OutsideLog, Used, LogIsOpen, Close, Closed, Release,
        sinkVars, mainVars, hupVars
<1>3. LogApart'
    BY DEF LogApart, LogIsOpen, sinkVars, mainVars, hupVars
<1>4. TakenApart'
    BY DEF TakenApart, LogIsOpen, OutsideLog, Release, sinkVars, mainVars, hupVars
<1>5. HandlesApart'
    BY DEF HandlesApart, LogIsOpen, OutsideLog, Release, sinkVars, mainVars, hupVars
<1>6. Reaches'
    BY DEF Shape, HandlesApart, Reaches, Close, Closed, Release
<1>7. (MainHolds /\ Backing /\ Stands /\ Relogs)'
    BY DEF MainHolds, LogIsOpen, Backing, Stands, Relogs, sinkVars, mainVars, diskVars,
        hupVars
<1>8. Follows'
    BY DEF Shape, InUse, TakenApart, HandlesApart, OutsideLog, MainHolds, Follows,
        LogIsOpen, Used, Alone, Close, Closed, Release, sinkVars, mainVars, diskVars,
        hupVars
<1> QED BY <1>1, <1>2, <1>3, <1>4, <1>5, <1>6, <1>7, <1>8

\* newfd was nobody's, and is the file under the name.
LEMMA OptionLogStep ==
    ASSUME IInv, UNCHANGED handleVars, OptionLog
    PROVE  IInv'
<1> USE DEF IInv, NoFd
<1>1. Shape'
    BY LowestIsNobodys DEF Shape, Entry, Occupy, OpenLog, OptionLog, handleVars,
        bufVars, lineVars, hupVars
<1>2. InUse'
    BY LowestIsNobodys DEF Shape, InUse, Used, LogIsOpen, Occupy, OpenLog, OptionLog,
        handleVars, hupVars
<1>3. LogApart'
    BY LowestIsNobodys DEF InUse, LogApart, LogIsOpen, OptionLog, hupVars
<1>4. TakenApart'
    BY LowestIsNobodys DEF TakenApart, LogIsOpen, OutsideLog, OptionLog, handleVars,
        hupVars
<1>5. HandlesApart'
    BY LowestIsNobodys DEF HandlesApart, LogIsOpen, OutsideLog, OpenLog, OptionLog,
        handleVars, hupVars
<1>6. Reaches'
    BY LowestIsNobodys DEF Shape, Reaches, Occupy, OpenLog, OptionLog, handleVars
<1>7. MainHolds'
    BY DEF MainHolds, LogIsOpen, OpenLog, OptionLog, hupVars
<1>8. Backing'
    BY DEF Backing, OptionLog
<1>9. Stands'
    <2>1. UNCHANGED <<cwd, reopened>> BY DEF OptionLog, hupVars
    <2>2. ASSUME NEW file \in 1 .. MaxFile, OpenLog(file) PROVE Stands'
        <3>1. Stands BY DEF IInv
        <3>2. /\ named' \in [Names -> Int]
              /\ \A name \in Names : named[name] # None => named'[name] = named[name]
            BY <2>2, <3>1, OpensTheName
        <3> QED BY <2>1, <3>1, <3>2 DEF Stands
    <2>3. CASE UNCHANGED diskVars BY <2>1, <2>3 DEF Stands, diskVars
    <2> QED BY <2>2, <2>3 DEF OptionLog
<1>10. Relogs'
    BY LowestIsNobodys DEF Shape, Stands, Relogs, Name, Names, None, Occupy, OpenLog,
        OptionLog, hupVars
<1>11. Follows'
    BY DEF Shape, InUse, TakenApart, HandlesApart, OutsideLog, MainHolds, Stands,
        Relogs, Follows, LogIsOpen, Used, Alone, Occupy, OpenLog, OptionLog, handleVars,
        diskVars, bufVars, lineVars, hupVars
<1> QED BY <1>1, <1>2, <1>3, <1>4, <1>5, <1>6, <1>7, <1>8, <1>9, <1>10, <1>11

\* The log's descriptor was the log's alone.
LEMMA DeleteOldStep ==
    ASSUME IInv, UNCHANGED handleVars, DeleteOld
    PROVE  IInv'
<1> USE DEF IInv, NoFd
<1>1. Shape'
    BY DEF Shape, Entry, Close, Closed, Free, None, DeleteOld, handleVars, hupVars
<1>2. InUse'
    BY DEF Shape, InUse, LogApart, TakenApart, HandlesApart, OutsideLog, Used,
        LogIsOpen, Close, Closed, DeleteOld, handleVars, hupVars
<1>3. LogApart'
    BY DEF Shape, LogApart, LogIsOpen, DeleteOld, hupVars
<1>4. TakenApart'
    BY DEF Shape, TakenApart, LogIsOpen, OutsideLog, DeleteOld, handleVars, hupVars
<1>5. HandlesApart'
    BY DEF Shape, HandlesApart, LogIsOpen, OutsideLog, DeleteOld, handleVars, hupVars
<1>6. Reaches'
    BY DEF Shape, HandlesApart, Reaches, OutsideLog, LogIsOpen, Close, Closed,
        DeleteOld, handleVars
<1>7. MainHolds'
    BY DEF MainHolds, Alone, DeleteOld, hupVars
<1>8. Backing'
    BY DEF Backing, DeleteOld
<1>9. Stands'
    BY DEF Stands, DeleteOld, diskVars, hupVars
<1>10. Relogs'
    BY DEF Shape, LogApart, Relogs, LogIsOpen, Name, Close, Closed, DeleteOld, diskVars,
        hupVars
<1>11. Follows'
    BY DEF Shape, InUse, TakenApart, HandlesApart, OutsideLog, MainHolds, Follows,
        LogIsOpen, Used, Alone, Close, Closed, DeleteOld, handleVars, diskVars, bufVars,
        lineVars, hupVars
<1> QED BY <1>1, <1>2, <1>3, <1>4, <1>5, <1>6, <1>7, <1>8, <1>9, <1>10, <1>11

\* filebuf takes over newfd.
LEMMA StoreNewStep ==
    ASSUME IInv, UNCHANGED handleVars, StoreNew
    PROVE  IInv'
<1> USE DEF IInv, NoFd
<1>1. Shape'
    BY DEF Shape, StoreNew, handleVars, hupVars
<1>2. InUse'
    BY DEF InUse, Used, MainHolds, StoreNew, handleVars, hupVars
<1>3. LogApart'
    BY DEF LogApart, MainHolds, StoreNew, hupVars
<1>4. TakenApart'
    BY DEF TakenApart, OutsideLog, StoreNew, handleVars, hupVars
<1>5. HandlesApart'
    BY FdAssumption DEF Shape, HandlesApart, OutsideLog, StoreNew, handleVars, hupVars
<1>6. Reaches'
    BY DEF Reaches, StoreNew, handleVars
<1>7. MainHolds'
    BY DEF MainHolds, LogIsOpen, StoreNew, hupVars
<1>8. Backing'
    BY DEF Backing, StoreNew
<1>9. Stands'
    BY DEF Stands, StoreNew, diskVars, hupVars
<1>10. Relogs'
    BY DEF Relogs, Name, StoreNew, hupVars
<1>11. Follows'
    BY DEF Shape, InUse, TakenApart, HandlesApart, OutsideLog, MainHolds, Stands,
        Relogs, Follows, LogIsOpen, Used, Alone, StoreNew, handleVars, diskVars,
        bufVars, lineVars, hupVars
<1> QED BY <1>1, <1>2, <1>3, <1>4, <1>5, <1>6, <1>7, <1>8, <1>9, <1>10, <1>11

\* Nothing is taken or let go of.
LEMMA ChdirStep ==
    ASSUME IInv, UNCHANGED handleVars, Chdir
    PROVE  IInv'
<1> USE DEF IInv, NoFd
<1>1. (Shape /\ InUse /\ LogApart /\ TakenApart /\ HandlesApart /\ Reaches)'
    BY DEF Shape, InUse, LogApart, TakenApart, HandlesApart, OutsideLog, Used,
        LogIsOpen, Reaches, Chdir, handleVars, hupVars
<1>2. MainHolds'
    BY DEF MainHolds, LogIsOpen, Chdir, hupVars
<1>3. Backing'
    BY DEF Backing, Chdir
<1>4. (Stands /\ Relogs /\ Follows)'
    BY DEF Stands, Names, Shape, InUse, TakenApart, HandlesApart, OutsideLog, MainHolds,
        Relogs, LogIsOpen, Used, Follows, Alone, Chdir, handleVars, diskVars, bufVars,
        lineVars, hupVars
<1> QED BY <1>1, <1>2, <1>3, <1>4

\* savefd stands for the directory.
LEMMA OpenDotStep ==
    ASSUME IInv, UNCHANGED handleVars, OpenDot
    PROVE  IInv'
<1> USE DEF IInv, NoFd
<1>1. Shape'
    <2>1. CASE savefd' = Lowest /\ Lowest # NoFd
              /\ Occupy(Lowest, [obj |-> IF cwd = "mount" THEN Mount ELSE None, access |-> "read"])
            BY <2>1, LowestIsNobodys DEF Shape, Entry, Occupy, OpenDot, Mount, None,
                handleVars, hupVars
    <2>2. CASE savefd' = NoFd /\ UNCHANGED fdt
            BY <2>2 DEF Shape, OpenDot, handleVars, hupVars
    <2> QED BY <2>1, <2>2 DEF OpenDot
<1>2. InUse'
    BY LowestIsNobodys DEF Shape, InUse, Used, LogIsOpen, Occupy, OpenDot, handleVars,
        hupVars
<1>3. LogApart'
    BY LowestIsNobodys DEF InUse, LogApart, LogIsOpen, OpenDot, hupVars
<1>4. TakenApart'
    BY LowestIsNobodys DEF TakenApart, LogIsOpen, OutsideLog, OpenDot, handleVars,
        hupVars
<1>5. HandlesApart'
    <2>1. CASE savefd' = Lowest /\ Lowest # NoFd
              /\ Occupy(Lowest, [obj |-> IF cwd = "mount" THEN Mount ELSE None, access |-> "read"])
            BY <2>1, LowestIsNobodys DEF HandlesApart, LogIsOpen, OutsideLog, OpenDot,
                handleVars, hupVars
    <2>2. CASE savefd' = NoFd /\ UNCHANGED fdt
            BY <2>2, FdAssumption DEF Shape, HandlesApart, LogIsOpen, OutsideLog,
                OpenDot, handleVars, hupVars
    <2> QED BY <2>1, <2>2 DEF OpenDot
<1>6. Reaches'
    BY LowestIsNobodys DEF Shape, Reaches, Occupy, OpenDot, handleVars
<1>7. MainHolds'
    BY DEF MainHolds, LogIsOpen, OpenDot, hupVars
<1>8. Backing'
    BY LowestIsNobodys DEF Shape, Backing, Occupy, OpenDot
<1>9. Stands'
    BY DEF Stands, OpenDot, diskVars, hupVars
<1>10. Relogs'
    BY DEF Relogs, OpenDot
<1>11. Follows'
    BY LowestIsNobodys DEF Shape, InUse, TakenApart, HandlesApart, OutsideLog,
        MainHolds, Follows, LogIsOpen, Used, Alone, Occupy, OpenDot, Mount, handleVars,
        diskVars, bufVars, lineVars, hupVars
<1> QED BY <1>1, <1>2, <1>3, <1>4, <1>5, <1>6, <1>7, <1>8, <1>9, <1>10, <1>11

\* The directory changes, savefd does not.
LEMMA MountsStep ==
    ASSUME IInv, UNCHANGED handleVars, Mounts
    PROVE  IInv'
<1> USE DEF IInv, NoFd
<1>1. (Shape /\ InUse /\ LogApart /\ TakenApart /\ HandlesApart /\ Reaches)'
    BY DEF Shape, InUse, LogApart, TakenApart, HandlesApart, OutsideLog, Used,
        LogIsOpen, Reaches, Mounts, handleVars, hupVars
<1>2. MainHolds'
    BY DEF MainHolds, LogIsOpen, Mounts, hupVars
<1>3. Backing'
    BY DEF Backing, Mounts
<1>4. (Stands /\ Relogs /\ Follows)'
    BY DEF Stands, Names, Shape, InUse, TakenApart, HandlesApart, OutsideLog, MainHolds,
        Relogs, LogIsOpen, Used, Follows, Alone, Mounts, handleVars, diskVars, bufVars,
        lineVars, hupVars
<1> QED BY <1>1, <1>2, <1>3, <1>4

\* savefd leads back, and was nobody else's.
LEMMA FsInitStep ==
    ASSUME IInv, UNCHANGED handleVars, FsInit
    PROVE  IInv'
<1> USE DEF IInv, NoFd
<1>1. Shape'
    BY DEF Shape, Entry, Close, Closed, Free, None, FsInit, handleVars, hupVars
<1>2. InUse'
    BY DEF InUse, LogApart, TakenApart, HandlesApart, OutsideLog, Used, LogIsOpen,
        Close, Closed, FsInit, handleVars, hupVars
<1>3. LogApart'
    BY DEF LogApart, LogIsOpen, FsInit, hupVars
<1>4. TakenApart'
    BY DEF TakenApart, LogIsOpen, OutsideLog, FsInit, handleVars, hupVars
<1>5. HandlesApart'
    <2>1. CASE savefd = NoFd
            BY <2>1 DEF HandlesApart, LogIsOpen, OutsideLog, FsInit, handleVars, hupVars
    <2>2. CASE savefd # NoFd
            BY <2>2, FdAssumption DEF Shape, InUse, HandlesApart, TakenApart, LogIsOpen,
                OutsideLog, MainHolds, Close, Closed, FsInit, handleVars, diskVars,
                bufVars, lineVars, hupVars
    <2> QED BY <2>1, <2>2
<1>6. Reaches'
    BY DEF Shape, HandlesApart, Reaches, OutsideLog, Close, Closed, FsInit, handleVars
<1>7. MainHolds'
    BY DEF MainHolds, LogIsOpen, FsInit, hupVars
<1>8. Backing'
    BY DEF Backing, FsInit
<1>9. Stands'
    BY DEF Stands, Names, FsInit, diskVars, hupVars
<1>10. Relogs'
    BY DEF Relogs, FsInit
<1>11. Follows'
    BY DEF Shape, InUse, LogApart, TakenApart, HandlesApart, OutsideLog, MainHolds,
        Follows, LogIsOpen, Used, Alone, Close, Closed, FsInit, handleVars, diskVars,
        bufVars, lineVars, hupVars
<1> QED BY <1>1, <1>2, <1>3, <1>4, <1>5, <1>6, <1>7, <1>8, <1>9, <1>10, <1>11

\* Nothing is taken or let go of.
LEMMA UnmountStep ==
    ASSUME IInv, UNCHANGED handleVars, Unmount
    PROVE  IInv'
<1> USE DEF IInv, NoFd
<1>1. (Shape /\ InUse /\ LogApart /\ TakenApart /\ HandlesApart /\ Reaches)'
    BY DEF Shape, InUse, LogApart, TakenApart, HandlesApart, OutsideLog, Used,
        LogIsOpen, Reaches, Unmount, handleVars, hupVars
<1>2. MainHolds'
    BY DEF MainHolds, LogIsOpen, Unmount, hupVars
<1>3. Backing'
    BY DEF Backing, Unmount
<1>4. (Stands /\ Relogs /\ Follows)'
    BY DEF Stands, Shape, InUse, TakenApart, HandlesApart, OutsideLog, MainHolds,
        Relogs, LogIsOpen, Used, Follows, Alone, Unmount, handleVars, diskVars, bufVars,
        lineVars, hupVars
<1> QED BY <1>1, <1>2, <1>3, <1>4

\* The log's descriptor was the log's alone.
LEMMA CloseLogStep ==
    ASSUME IInv, UNCHANGED handleVars, CloseLog
    PROVE  IInv'
<1> USE DEF IInv, NoFd
<1>1. Shape'
    BY DEF Shape, Entry, Close, Closed, Free, None, CloseLog, handleVars, hupVars
<1>2. InUse'
    BY DEF Shape, InUse, LogApart, TakenApart, HandlesApart, OutsideLog, Used,
        LogIsOpen, Close, Closed, CloseLog, handleVars, hupVars
<1>3. LogApart'
    BY DEF Shape, LogApart, LogIsOpen, CloseLog, hupVars
<1>4. TakenApart'
    BY DEF Shape, TakenApart, LogIsOpen, OutsideLog, CloseLog, handleVars, hupVars
<1>5. HandlesApart'
    BY DEF Shape, HandlesApart, LogIsOpen, OutsideLog, CloseLog, handleVars, hupVars
<1>6. Reaches'
    BY DEF Shape, HandlesApart, Reaches, OutsideLog, LogIsOpen, Close, Closed, CloseLog,
        handleVars
<1>7. MainHolds'
    BY DEF Shape, MainHolds, Alone, CloseLog, hupVars
<1>8. Backing'
    BY DEF Backing, CloseLog
<1>9. Stands'
    BY DEF Stands, CloseLog, diskVars, hupVars
<1>10. Relogs'
    BY DEF Relogs, CloseLog
<1>11. Follows'
    BY DEF Shape, InUse, TakenApart, HandlesApart, OutsideLog, MainHolds, Follows,
        LogIsOpen, Used, Alone, Close, Closed, CloseLog, handleVars, diskVars, bufVars,
        lineVars, hupVars
<1> QED BY <1>1, <1>2, <1>3, <1>4, <1>5, <1>6, <1>7, <1>8, <1>9, <1>10, <1>11

\* From here a handler can meet a deleted filebuf.
LEMMA FreeLogStep ==
    ASSUME IInv, UNCHANGED handleVars, FreeLog
    PROVE  IInv'
<1> USE DEF IInv, NoFd
<1>1. (Shape /\ InUse /\ LogApart /\ TakenApart /\ HandlesApart /\ Reaches)'
    BY DEF Shape, InUse, LogApart, TakenApart, HandlesApart, OutsideLog, Used,
        LogIsOpen, Reaches, FreeLog, handleVars, hupVars
<1>2. MainHolds'
    BY DEF MainHolds, LogIsOpen, FreeLog, hupVars
<1>3. Backing'
    BY DEF Backing, FreeLog
<1>4. (Stands /\ Relogs /\ Follows)'
    BY DEF Stands, Shape, InUse, TakenApart, HandlesApart, OutsideLog, MainHolds,
        Relogs, LogIsOpen, Used, Follows, Alone, FreeLog, handleVars, diskVars, bufVars,
        lineVars, hupVars
<1> QED BY <1>1, <1>2, <1>3, <1>4

\* Nothing is taken or let go of.
LEMMA EndStep ==
    ASSUME IInv, UNCHANGED handleVars, End
    PROVE  IInv'
<1> USE DEF IInv, NoFd
<1>1. (Shape /\ InUse /\ LogApart /\ TakenApart /\ HandlesApart /\ Reaches)'
    BY DEF Shape, InUse, LogApart, TakenApart, HandlesApart, OutsideLog, Used,
        LogIsOpen, Reaches, End, handleVars, hupVars
<1>2. MainHolds'
    BY DEF MainHolds, LogIsOpen, End, hupVars
<1>3. Backing'
    BY DEF Backing, End
<1>4. (Stands /\ Relogs /\ Follows)'
    BY DEF Stands, Shape, InUse, TakenApart, HandlesApart, OutsideLog, MainHolds,
        Relogs, LogIsOpen, Used, Follows, Alone, End, handleVars, diskVars, bufVars,
        lineVars, hupVars
<1> QED BY <1>1, <1>2, <1>3, <1>4

\* The file of a name is moved away, and only names change.
LEMMA LogRotateStep ==
    ASSUME IInv, UNCHANGED handleVars, LogRotate
    PROVE  IInv'
<1> USE DEF IInv, NoFd
<1>1. (Shape /\ InUse /\ LogApart /\ TakenApart /\ HandlesApart /\ Reaches)'
    BY DEF Shape, InUse, LogApart, TakenApart, HandlesApart, OutsideLog, Used,
        LogIsOpen, Reaches, LogRotate, handleVars, mainVars
<1>2. (MainHolds /\ Backing)'
    BY DEF MainHolds, LogIsOpen, Backing, LogRotate, mainVars
<1>3. Stands'
    <2>1. PICK d \in Names :
              /\ named' = [named EXCEPT ![d] = None]
              /\ reopened' = IF reopened.name = d THEN NoName ELSE reopened
            BY DEF LogRotate
    <2>2. UNCHANGED cwd BY DEF LogRotate, mainVars
    <2>3. named \in [Names -> Int] BY DEF Stands
    <2>4. named' \in [Names -> Int] BY <2>1, <2>3 DEF None
    <2>5. reopened' = NoName \/ (reopened' = reopened /\ reopened.name # d) BY <2>1
    <2> QED BY <2>1, <2>2, <2>3, <2>4, <2>5 DEF Stands
<1>4. (Relogs /\ Follows)'
    BY DEF Shape, InUse, TakenApart, HandlesApart, OutsideLog, MainHolds, Relogs,
        LogIsOpen, Used, Follows, Alone, LogRotate, handleVars, mainVars
<1> QED BY <1>1, <1>2, <1>3, <1>4

\* The handler opens the file ...
LEMMA ReopenOpensStep ==
    ASSUME IInv, UNCHANGED <<handleVars, mainVars>>, NEW s \in Signal,
           hup[s].at = "unsent", Alone, LogIsOpen, NEW file \in 1 .. MaxFile, OpenLog(file),
           reopened' = [file |-> file, name |-> Name],
           hup' = [hup EXCEPT ![s] = [at |-> "opened", fd |-> Lowest]]
    PROVE  IInv'
<1> USE DEF IInv, NoFd
<1>1. Shape'
    BY LowestIsNobodys DEF Shape, Entry, Occupy, OpenLog, handleVars, mainVars
<1>2. InUse'
    BY LowestIsNobodys DEF Shape, InUse, Used, Occupy, OpenLog, handleVars, mainVars
<1>3. LogApart'
    BY LowestIsNobodys DEF InUse, LogApart, OpenLog, mainVars
<1>4. TakenApart'
    BY LowestIsNobodys DEF TakenApart, OutsideLog, handleVars, mainVars
<1>5. HandlesApart'
    BY LowestIsNobodys DEF HandlesApart, OutsideLog, OpenLog, handleVars, mainVars
<1>6. Reaches'
    BY LowestIsNobodys DEF Reaches, Occupy, OpenLog, handleVars
<1>7. MainHolds'
    BY DEF MainHolds, LogIsOpen, OpenLog, mainVars
<1>8. Backing'
    BY LowestIsNobodys DEF InUse, Backing, Occupy, OpenLog, mainVars
<1>9. Stands'
    BY OpensTheName DEF Stands, mainVars, None
<1>10. Relogs'
    <2> QED
            BY OpensTheName DEF Relogs, Name, Occupy, OpenLog, mainVars
<1>11. Follows'
    BY LowestIsNobodys DEF Shape, InUse, TakenApart, HandlesApart, OutsideLog,
        MainHolds, Follows, LogIsOpen, Used, Alone, Occupy, OpenLog, handleVars,
        mainVars
<1> QED BY <1>1, <1>2, <1>3, <1>4, <1>5, <1>6, <1>7, <1>8, <1>9, <1>10, <1>11

\* ... or it does not.
LEMMA ReopenFailsStep ==
    ASSUME IInv, UNCHANGED <<handleVars, mainVars>>, NEW s \in Signal,
           hup[s].at = "unsent", NEW at \in {"done", "wild"},
           UNCHANGED <<fdt, diskVars, reopened>>,
           hup' = [hup EXCEPT ![s].at = at]
    PROVE  IInv'
<1> USE DEF IInv, NoFd
<1>1. (Shape /\ InUse /\ LogApart /\ TakenApart /\ HandlesApart /\ Reaches)'
    BY DEF Shape, InUse, LogApart, TakenApart, HandlesApart, OutsideLog, Used,
        LogIsOpen, Reaches, handleVars, mainVars
<1>2. (MainHolds /\ Backing)'
    BY DEF MainHolds, LogIsOpen, Backing, mainVars
<1>3. (Stands /\ Relogs)'
    BY DEF Stands, Name, Relogs, mainVars, diskVars
<1>4. Follows'
    BY DEF Shape, InUse, TakenApart, HandlesApart, OutsideLog, MainHolds, Follows,
        LogIsOpen, Used, Alone, handleVars, mainVars, diskVars
<1> QED BY <1>1, <1>2, <1>3, <1>4

\* Either way, it keeps the invariant.
LEMMA ReopenStep ==
    ASSUME IInv, UNCHANGED handleVars, NEW s \in Signal, Reopen(s)
    PROVE  IInv'
BY ReopenOpensStep, ReopenFailsStep DEF Reopen, LogIsOpen

\* The log takes over what the handler has opened.
LEMMA Dup2Step ==
    ASSUME IInv, UNCHANGED handleVars, NEW s \in Signal, Dup2(s)
    PROVE  IInv'
<1> USE DEF IInv, NoFd
<1>1. Shape'
    <2>1. fdt[hup[s].fd] \in Entry BY DEF Shape, MainHolds, Dup2
    <2> QED
            BY <2>1 DEF Shape, Dup2, Occupy, handleVars, mainVars, diskVars
<1>2. InUse'
    BY DEF InUse, Used, MainHolds, Dup2, Occupy, handleVars, mainVars
<1>3. LogApart'
    BY DEF LogApart, LogIsOpen, Dup2, mainVars
<1>4. TakenApart'
    BY DEF TakenApart, LogIsOpen, OutsideLog, Dup2, handleVars, mainVars
<1>5. HandlesApart'
    BY DEF HandlesApart, LogIsOpen, OutsideLog, Dup2, handleVars, mainVars
<1>6. Reaches'
    <2>1. ASSUME NEW h \in handles PROVE fdt'[h.fh] = fdt[h.fh]
            BY DEF HandlesApart, OutsideLog, MainHolds, Dup2, Occupy
    <2> QED BY <2>1 DEF Reaches, handleVars
<1>7. MainHolds'
    BY DEF MainHolds, LogIsOpen, Dup2, mainVars
<1>8. Backing'
    BY DEF LogApart, Backing, MainHolds, Dup2, Occupy, mainVars
<1>9. Stands'
    BY DEF Stands, Dup2, mainVars, diskVars
<1>10. Relogs'
    BY DEF LogApart, MainHolds, Relogs, Name, Dup2, Occupy, mainVars, diskVars
<1>11. Follows'
    BY DEF Shape, InUse, TakenApart, HandlesApart, OutsideLog, MainHolds, Follows,
        LogIsOpen, Used, Alone, Dup2, Occupy, handleVars, mainVars, diskVars
<1> QED BY <1>1, <1>2, <1>3, <1>4, <1>5, <1>6, <1>7, <1>8, <1>9, <1>10, <1>11

-----------------------------------------------------------------------------

\* Nobody holds anything yet.
LEMMA InitInv == Init => IInv
BY DEF Init, HandleInit, SinkInit, IInv, Shape, InUse, LogApart, TakenApart,
    HandlesApart, Reaches, MainHolds, Backing, Stands, Relogs, Follows, Call, Entry,
    Free, None, Resting, LogIsOpen, Names

\* Lines and stuttering leave all of this alone.
LEMMA IdleStep ==
    ASSUME IInv,
           UNCHANGED <<fdt, handleVars, mainVars, named, hupVars>>
    PROVE  IInv'
BY DEF IInv, Shape, InUse, LogApart, TakenApart, HandlesApart, Reaches, MainHolds,
    Backing, Stands, Relogs, Follows, OutsideLog, LogIsOpen, Name, Alone, Used,
    handleVars, mainVars, hupVars

\* The inductive step.
LEMMA NextInv == IInv /\ [Next]_vars => IInv'
<1> SUFFICES ASSUME IInv, [Next]_vars PROVE IInv' OBVIOUS
<1>1. ASSUME NEW t \in Thread, Request(t) PROVE IInv'
    BY <1>1, OpenStep, CreateStep, MknodOpenStep, FlushDupStep, ReleaseStep,
        CloseTakenStep DEF Request, HandleRequest
<1>2. ASSUME NEW t \in Thread, Line(t) PROVE IInv'
    <2>1. UNCHANGED <<fdt, handleVars, mainVars, named, hupVars>>
        BY <1>2 DEF Line, WriteLine, WriteLoad, WriteStore, FlushWrite, FlushReset,
            diskVars
    <2> QED BY <2>1, IdleStep
<1>3. CASE Outside
    BY <1>3, OptionLogStep, DeleteOldStep, StoreNewStep, ChdirStep, OpenDotStep,
        MountsStep, FsInitStep, UnmountStep, CloseLogStep, FreeLogStep, EndStep,
        LogRotateStep, ReopenStep, Dup2Step DEF Outside, SinkNext, Main
<1>4. CASE UNCHANGED vars
    BY <1>4, IdleStep DEF vars, sinkVars, diskVars
<1> QED BY <1>1, <1>2, <1>3, <1>4 DEF Next

\* In every reachable state each descriptor has one holder, and main, the handles and
\* the handlers of SIGHUP hold what their progress says.
THEOREM Invariance == Spec => []IInv
<1> QED BY InitInv, NextInv, PTL DEF Spec

\* A handle reaches the file it was opened on from open to release, in any number of
\* threads that open, flush, make and release, while SIGHUP replaces the log.
THEOREM HandlesCorrect == Spec => []HandleKeepsFile
<1>1. IInv => HandleKeepsFile
    BY DEF IInv, Shape, Reaches, HandlesApart, HandleKeepsFile, Taken
<1> QED BY <1>1, Invariance, PTL

\* After a SIGHUP the log goes to the file its name stood for, for any number of
\* signals, files and -l options.
THEOREM ReopenCorrect == Spec => []ReopenFollowsName
<1>1. IInv => ReopenFollowsName
    BY DEF IInv, Stands, Follows, LogIsOpen, ReopenFollowsName
<1> QED BY <1>1, Invariance, PTL

\* Requests are served relative to the directory that was mounted over: the number
\* in savefd still stands for it when init uses it.
THEOREM BackingCorrect == Spec => []CwdIsBacking
<1>1. IInv => CwdIsBacking BY DEF IInv, Backing, CwdIsBacking
<1> QED BY <1>1, Invariance, PTL

\* The handler meets a deleted filebuf only between the deletes and the next
\* assignment or the end.
THEOREM HandlerCorrect == Spec => HandlerSound
<1>1. ASSUME IInv, [Next]_vars, NEW s \in Signal,
             hup[s].at = "unsent", hup'[s].at = "wild"
      PROVE  phase \in {"dangling", "freed"}
    <2>1. hup' # hup BY <1>1
    <2>2. PICK r \in Signal : Reopen(r) \/ Dup2(r)
        <3>1. ~Main /\ ~LogRotate /\ ~UNCHANGED sinkVars
            BY <2>1 DEF Main, OptionLog, DeleteOld, StoreNew, Chdir, OpenDot, Mounts, FsInit,
                Unmount, CloseLog, FreeLog, End, LogRotate, sinkVars, hupVars
        <3>2. ASSUME NEW t \in Thread PROVE ~Line(t)
            BY <2>1 DEF Line, WriteLine, WriteLoad, WriteStore, FlushWrite, FlushReset, hupVars
        <3> QED BY <1>1, <3>1, <3>2 DEF Next, Outside, SinkNext, Request, vars
    <2>3. \A q \in Signal : q # r => hup'[q] = hup[q]
        <3>1. hup \in [Signal -> [at : {"unsent", "opened", "done", "wild"}, fd : Fd \cup {NoFd}]]
            BY <1>1 DEF IInv, Shape
        <3>2. \/ hup' = [hup EXCEPT ![r].at = "done"]
              \/ hup' = [hup EXCEPT ![r].at = "wild"]
              \/ hup' = [hup EXCEPT ![r] = [at |-> "opened", fd |-> Lowest]]
            BY <2>2 DEF Reopen, Dup2
        <3> QED BY <3>1, <3>2
    <2>4. r = s BY <1>1, <2>3
    <2>5. Reopen(s)
        <3>1. ~Dup2(s) BY <1>1 DEF Dup2
        <3> QED BY <2>2, <2>4, <3>1
    <2>6. filebuf.is = "freed"
        <3>1. hup \in [Signal -> [at : {"unsent", "opened", "done", "wild"}, fd : Fd \cup {NoFd}]]
            BY <1>1 DEF IInv, Shape
        <3>2. CASE hup' = [hup EXCEPT ![s].at = "done"] BY <1>1, <3>1, <3>2
        <3>3. CASE hup' = [hup EXCEPT ![s] = [at |-> "opened", fd |-> Lowest]]
            BY <1>1, <3>1, <3>3
        <3> QED BY <2>5, <3>2, <3>3 DEF Reopen
    <2>7. phase # "ended" BY <2>5 DEF Reopen
    <2> QED BY <1>1, <2>6, <2>7 DEF IInv, MainHolds
<1>2. IInv /\ [Next]_vars =>
        [\A s \in Signal : hup[s].at = "unsent" /\ hup'[s].at = "wild"
             => phase \in {"dangling", "freed"}]_sinkVars
    BY <1>1
<1> QED BY <1>2, Invariance, PTL DEF Spec, HandlerSound

-----------------------------------------------------------------------------
(* The types.                                                                  *)

\* The buffer never holds more lines than were begun, and no gap; a worker that
\* has loaded pptr has a line of its own beyond it.
Buffered ==
    /\ pptr =< lines /\ \A i \in 1 .. pptr : mem[i] # None
    /\ \A w \in Worker : writing[w].at = "store" =>
          /\ writing[w].line # None /\ writing[w].loaded < lines
          /\ \A i \in 1 .. writing[w].loaded : mem[i] # None
    /\ \A w \in Worker : writing[w].at # "quiet" => writing[w].line # None

\* The types are inductive with what the buffer holds.
TInv == SinkTypeOK /\ Buffered

\* Initially nothing is buffered.
LEMMA TypesInit == Init => TInv
  <1> SUFFICES ASSUME Init PROVE TInv
    OBVIOUS
  <1> USE BoundAssumption DEF Init, SinkInit, None, NoFd, Names, NoName, Quiet
  <1>1. content \in [1 .. MaxFile -> Seq(1 .. MaxLine)]
    BY EmptySeq
  <1>2. SinkTypeOK
    BY <1>1 DEF SinkTypeOK
  <1>3. Buffered
    BY DEF Buffered
  <1> QED
    BY <1>2, <1>3 DEF TInv

\* The log file an open names is one of the model's.
LEMMA OpenLogTypes ==
    ASSUME SinkTypeOK, NEW file \in 1 .. MaxFile, OpenLog(file)
    PROVE  /\ named' \in [Names -> 0 .. MaxFile] /\ made' \in 0 .. MaxFile
           /\ UNCHANGED content /\ Lowest # NoFd
           /\ named'[Name] = file /\ Name \in Names
  <1>1. Name \in Names
    BY DEF SinkTypeOK, Name, Names
  <1>2. named \in [Names -> 0 .. MaxFile] /\ made \in 0 .. MaxFile /\ file \in 0 .. MaxFile
    BY BoundAssumption DEF SinkTypeOK
  <1>3. \/ named[Name] = file /\ UNCHANGED <<named, made>>
        \/ made' = file /\ named' = [named EXCEPT ![Name] = file]
    BY DEF OpenLog
  <1>4. named' \in [Names -> 0 .. MaxFile] /\ made' \in 0 .. MaxFile /\ named'[Name] = file
    BY <1>1, <1>2, <1>3
  <1> QED
    BY <1>1, <1>4 DEF OpenLog

\* What is written are lines.
LEMMA WriteOutTypes ==
    ASSUME TInv, WriteOut
    PROVE  content' \in [1 .. MaxFile -> Seq(1 .. MaxLine)]
  <1>1. /\ mem \in [1 .. MaxLine -> 0 .. MaxLine] /\ pptr \in 0 .. MaxLine
        /\ lines \in 0 .. MaxLine /\ content \in [1 .. MaxFile -> Seq(1 .. MaxLine)]
    BY DEF TInv, SinkTypeOK
  <1>2. SubSeq(mem, 1, pptr) \in Seq(1 .. MaxLine)
    <2>1. \A i \in 1 .. pptr : mem[i] \in 1 .. MaxLine
      <3>1. \A i \in 1 .. pptr : i \in 1 .. MaxLine /\ mem[i] # None
        BY <1>1, BoundAssumption DEF TInv, Buffered
      <3> QED
        BY <1>1, <3>1, BoundAssumption DEF None
    <2> QED
      BY <1>1, <2>1, SubSeqProperties
  <1>3. \A i \in 1 .. MaxFile : content[i] \o SubSeq(mem, 1, pptr) \in Seq(1 .. MaxLine)
    BY <1>1, <1>2, ConcatProperties
  <1> QED
    BY <1>1, <1>3 DEF WriteOut

\* main and the handlers of SIGHUP, which leave the lines alone; main's last step
\* empties the buffer.
LEMMA OutsideTypes ==
    ASSUME IInv, IInv', TInv, Outside
    PROVE  TInv'
  <1> USE BoundAssumption DEF bufVars, lineVars
  <1>0. SinkTypeOK /\ Buffered
    BY DEF TInv
  <1>1. UNCHANGED <<mem, stream, writing, lines, logged, raced>> /\ pptr' \in {0, pptr}
    BY DEF Outside, SinkNext, Main, OptionLog, DeleteOld, StoreNew, Chdir, OpenDot, Mounts,
       FsInit, Unmount, CloseLog, FreeLog, End, LogRotate, Reopen, Dup2
  <1>2. Buffered' /\ pptr' \in 0 .. MaxLine
    BY <1>0, <1>1 DEF Buffered, SinkTypeOK
  <1>3. /\ filebuf' \in [fd : Fd \cup {NoFd}, is : {"null", "open", "closed", "freed"}]
        /\ {newfd', savefd'} \subseteq Fd \cup {NoFd}
        /\ hup' \in [Signal -> [at : {"unsent", "opened", "done", "wild"}, fd : Fd \cup {NoFd}]]
    BY DEF IInv, Shape
  <1>4. /\ phase' \in {"args", "swap", "dangling", "chdir", "ready", "mounted", "serving",
                       "closing", "closed", "freed", "ended"}
        /\ relative' = relative /\ prepared' \in {"yes", "no"} /\ cwd' \in Names \ {"/"}
        /\ phase' = "serving" => savefd' = NoFd
    BY <1>0 DEF Outside, SinkNext, Main, OptionLog, DeleteOld, StoreNew, Chdir, OpenDot, Mounts,
       FsInit, Unmount, CloseLog, FreeLog, End, LogRotate, Reopen, Dup2, SinkTypeOK, hupVars,
       mainVars, Names
  <1>5. /\ named' \in [Names -> 0 .. MaxFile] /\ made' \in 0 .. MaxFile
        /\ content' \in [1 .. MaxFile -> Seq(1 .. MaxLine)]
        /\ reopened' \in [file : 0 .. MaxFile, name : Names]
    <2>1. CASE OptionLog
      BY <1>0, <2>1, OpenLogTypes DEF OptionLog, SinkTypeOK, diskVars, hupVars
    <2>2. CASE \E s \in Signal : Reopen(s)
      <3>1. PICK s \in Signal : Reopen(s)
        BY <2>2
      <3>2. CASE UNCHANGED <<reopened, diskVars>>
        BY <1>0, <3>2 DEF SinkTypeOK, diskVars
      <3>3. CASE \E file \in 1 .. MaxFile :
                   OpenLog(file) /\ reopened' = [file |-> file, name |-> Name]
        <4>1. PICK file \in 1 .. MaxFile :
                OpenLog(file) /\ reopened' = [file |-> file, name |-> Name]
          BY <3>3
        <4>2. /\ named' \in [Names -> 0 .. MaxFile] /\ made' \in 0 .. MaxFile
              /\ UNCHANGED content /\ Name \in Names
          BY <1>0, <4>1, OpenLogTypes
        <4>3. reopened' \in [file : 0 .. MaxFile, name : Names]
          BY <4>1, <4>2
        <4> QED
          BY <1>0, <4>2, <4>3 DEF SinkTypeOK
      <3> QED
        BY <3>1, <3>2, <3>3 DEF Reopen
    <2>3. CASE LogRotate
      BY <1>0, <2>3 DEF LogRotate, SinkTypeOK, NoName, None, Names
    <2>4. ASSUME UNCHANGED <<diskVars, reopened>>
          PROVE  /\ named' \in [Names -> 0 .. MaxFile] /\ made' \in 0 .. MaxFile
                 /\ content' \in [1 .. MaxFile -> Seq(1 .. MaxLine)]
                 /\ reopened' \in [file : 0 .. MaxFile, name : Names]
      BY <1>0, <2>4 DEF SinkTypeOK, diskVars
    <2>5. CASE \/ DeleteOld \/ StoreNew \/ Chdir \/ OpenDot \/ Mounts \/ FsInit
               \/ Unmount \/ FreeLog \/ End \/ \E s \in Signal : Dup2(s)
      BY <2>4, <2>5 DEF DeleteOld, StoreNew, Chdir, OpenDot, Mounts,
         FsInit, Unmount, FreeLog, End, Dup2, hupVars
    <2>6. CASE CloseLog
      <3>1. UNCHANGED <<named, made, reopened>> /\ (UNCHANGED content \/ WriteOut)
        BY <2>6 DEF CloseLog, hupVars
      <3> QED
        BY <1>0, <3>1, WriteOutTypes DEF SinkTypeOK
    <2> QED
      BY <2>1, <2>2, <2>3, <2>5, <2>6 DEF Outside, SinkNext, Main
  <1>6. SinkTypeOK'
    BY <1>0, <1>1, <1>2, <1>3, <1>4, <1>5 DEF SinkTypeOK
  <1> QED
    BY <1>2, <1>6 DEF TInv

\* The steps of a line.
LEMMA LineTypes ==
    ASSUME TInv, NEW w \in Worker, WriteLine(w)
    PROVE  TInv'
  <1> USE BoundAssumption DEF mainVars, diskVars, bufVars, hupVars
  <1>0. SinkTypeOK /\ Buffered
    BY DEF TInv
  <1>1. /\ mem \in [1 .. MaxLine -> 0 .. MaxLine] /\ pptr \in 0 .. MaxLine
        /\ lines \in 0 .. MaxLine /\ logged \subseteq 1 .. MaxLine
        /\ writing \in [Worker -> [at : {"quiet", "store", "flush", "reset"}, line : 0 .. MaxLine,
                                   loaded : 0 .. MaxLine]]
        /\ content \in [1 .. MaxFile -> Seq(1 .. MaxLine)]
    BY <1>0 DEF SinkTypeOK
  <1>2. CASE WriteLoad(w)
    <2>1. lines' \in 0 .. MaxLine /\ lines < lines'
      BY <1>1, <1>2 DEF WriteLoad
    <2>2. writing' \in [Worker -> [at : {"quiet", "store", "flush", "reset"}, line : 0 .. MaxLine,
                                   loaded : 0 .. MaxLine]]
      BY <1>1, <1>2, <2>1 DEF WriteLoad
    <2>3. SinkTypeOK'
      BY <1>0, <1>2, <2>1, <2>2 DEF WriteLoad, SinkTypeOK
    <2>4. pptr' =< lines' /\ \A i \in 1 .. pptr' : mem'[i] # None
      BY <1>0, <1>1, <1>2, <2>1 DEF WriteLoad, Buffered
    <2>5. ASSUME NEW v \in Worker
          PROVE  \/ writing'[v] = writing[v]
                 \/ writing'[v] = [at |-> "store", line |-> lines', loaded |-> pptr]
      BY <1>1, <1>2, <2>1 DEF WriteLoad
    <2>6. \A v \in Worker : writing[v].loaded \in Int
      BY <1>1
    <2>7. Buffered'
      <3>1. /\ mem' = mem /\ pptr =< lines /\ lines' # None
            /\ \A i \in 1 .. pptr : mem[i] # None
        BY <1>0, <1>1, <1>2, <2>1 DEF WriteLoad, Buffered, None
      <3>2. ASSUME NEW v \in Worker
            PROVE  /\ writing'[v].at = "store" =>
                        /\ writing'[v].line # None /\ writing'[v].loaded < lines'
                        /\ \A i \in 1 .. writing'[v].loaded : mem'[i] # None
                   /\ writing'[v].at # "quiet" => writing'[v].line # None
        <4>1. CASE writing'[v] = writing[v]
          BY <1>0, <1>1, <2>1, <2>6, <3>1, <4>1 DEF Buffered
        <4>2. CASE writing'[v] = [at |-> "store", line |-> lines', loaded |-> pptr]
          BY <1>1, <2>1, <3>1, <4>2
        <4> QED
          BY <2>5, <4>1, <4>2
      <3> QED
        BY <2>4, <3>2 DEF Buffered
    <2> QED
      BY <2>3, <2>7 DEF TInv
  <1>3. CASE WriteStore(w)
    <2> DEFINE n == writing[w].loaded
    <2>1. /\ writing[w].at = "store" /\ n \in 0 .. MaxLine /\ writing[w].line \in 1 .. MaxLine
          /\ n < lines /\ \A i \in 1 .. n : mem[i] # None
      BY <1>0, <1>1, <1>3 DEF WriteStore, At, Buffered, None
    <2>2. n + 1 \in 1 .. MaxLine /\ pptr' = n + 1
          /\ mem' = [mem EXCEPT ![n + 1] = writing[w].line]
      BY <1>1, <1>3, <2>1 DEF WriteStore
    <2>3. writing' = [writing EXCEPT ![w].at = "flush"]
      BY <1>3 DEF WriteStore, Go
    <2>4. SinkTypeOK'
      <3>1. mem' \in [1 .. MaxLine -> 0 .. MaxLine] /\ pptr' \in 0 .. MaxLine
        BY <1>1, <2>1, <2>2
      <3>2. writing' \in [Worker -> [at : {"quiet", "store", "flush", "reset"},
                                     line : 0 .. MaxLine, loaded : 0 .. MaxLine]]
        BY <1>1, <2>3
      <3> QED
        BY <1>0, <1>3, <3>1, <3>2 DEF WriteStore, SinkTypeOK
    <2>5. \A i \in 1 .. MaxLine : mem[i] # None \/ i = n + 1 => mem'[i] # None
      BY <1>1, <2>1, <2>2 DEF None
    <2>6. lines' = lines
      BY <1>3 DEF WriteStore
    <2>7. ASSUME NEW v \in Worker
          PROVE  /\ writing[v].loaded \in 0 .. MaxLine
                 /\ writing'[v].line = writing[v].line /\ writing'[v].loaded = writing[v].loaded
                 /\ writing'[v].at = "store" => writing[v].at = "store"
                 /\ writing'[v].at # "quiet" => writing[v].at # "quiet"
      BY <1>1, <2>1, <2>3
    <2> HIDE DEF n
    <2>8. pptr' =< lines' /\ \A i \in 1 .. pptr' : mem'[i] # None
      <3>1. \A i \in 1 .. n + 1 : i \in 1 .. MaxLine /\ (i \in 1 .. n \/ i = n + 1)
        BY <2>1, <2>2
      <3> QED
        BY <1>1, <2>1, <2>2, <2>5, <2>6, <3>1
    <2>9. Buffered'
      <3>1. ASSUME NEW v \in Worker, writing'[v].at = "store"
            PROVE  /\ writing'[v].line # None /\ writing'[v].loaded < lines'
                   /\ \A i \in 1 .. writing'[v].loaded : mem'[i] # None
        <4>1. /\ writing[v].line # None /\ writing[v].loaded < lines
              /\ \A i \in 1 .. writing[v].loaded : mem[i] # None
          BY <1>0, <2>7, <3>1 DEF Buffered
        <4>2. \A i \in 1 .. writing[v].loaded : i \in 1 .. MaxLine
          BY <2>7
        <4> QED
          BY <2>5, <2>6, <2>7, <4>1, <4>2
      <3> QED
        BY <1>0, <2>7, <2>8, <3>1 DEF Buffered
    <2> QED
      BY <2>4, <2>9 DEF TInv
  <1>4. CASE FlushWrite(w)
    <2>1. /\ UNCHANGED <<named, made, mem, pptr, lines, logged, raced>>
          /\ UNCHANGED <<mainVars, hupVars>>
      BY <1>4 DEF FlushWrite
    <2>2. writing' = [writing EXCEPT ![w].at = "reset"] \/ writing' = [writing EXCEPT ![w] = Quiet]
      BY <1>4 DEF FlushWrite, Go
    <2>3. ASSUME NEW v \in Worker
          PROVE  /\ writing'[v] \in [at : {"quiet", "store", "flush", "reset"},
                                     line : 0 .. MaxLine, loaded : 0 .. MaxLine]
                 /\ writing'[v].at = "store" => writing'[v] = writing[v]
                 /\ writing'[v].at # "quiet" => /\ writing'[v].line = writing[v].line
                                                /\ writing[v].at # "quiet"
      <3>1. writing[v] \in [at : {"quiet", "store", "flush", "reset"}, line : 0 .. MaxLine,
                             loaded : 0 .. MaxLine]
        BY <1>1
      <3>2. CASE v # w
        BY <1>1, <2>2, <3>1, <3>2
      <3>3. CASE v = w /\ writing' = [writing EXCEPT ![w].at = "reset"]
        <4>1. writing'[v] = [writing[v] EXCEPT !.at = "reset"] /\ writing[v].at = "flush"
          BY <1>1, <1>4, <3>3 DEF FlushWrite, At
        <4> QED
          BY <3>1, <4>1
      <3>4. CASE v = w /\ writing' = [writing EXCEPT ![w] = Quiet]
        <4>1. writing'[v] = Quiet
          BY <1>1, <3>4
        <4> QED
          BY <4>1 DEF Quiet, None
      <3> QED
        BY <2>2, <3>2, <3>3, <3>4
    <2>4. writing' \in [Worker -> [at : {"quiet", "store", "flush", "reset"},
                                   line : 0 .. MaxLine, loaded : 0 .. MaxLine]]
      BY <1>1, <2>2, <2>3
    <2>5. Buffered'
      BY <1>0, <2>1, <2>3 DEF Buffered
    <2>6. content' \in [1 .. MaxFile -> Seq(1 .. MaxLine)]
      BY <1>1, <1>4, WriteOutTypes DEF FlushWrite, TInv
    <2>7. SinkTypeOK'
      <3>1. stream' \in {"good", "bad"}
        BY <1>0, <1>4 DEF FlushWrite, SinkTypeOK
      <3> QED
        BY <1>0, <2>1, <2>4, <2>6, <3>1 DEF SinkTypeOK
    <2> QED
      BY <2>5, <2>7 DEF TInv
  <1>5. CASE FlushReset(w)
    <2>1. /\ UNCHANGED <<diskVars, mem, lines, raced, stream, mainVars, hupVars>>
          /\ writing' = [writing EXCEPT ![w] = Quiet] /\ writing[w].at = "reset" /\ pptr' = 0
          /\ logged' = logged \cup {writing[w].line}
      BY <1>5 DEF FlushReset, At
    <2>2. writing' \in [Worker -> [at : {"quiet", "store", "flush", "reset"},
                                   line : 0 .. MaxLine, loaded : 0 .. MaxLine]]
      BY <1>1, <2>1 DEF Quiet, None
    <2>3. logged' \subseteq 1 .. MaxLine
      <3>1. writing[w].line # None /\ writing[w].line \in 0 .. MaxLine
        BY <1>0, <1>1, <2>1 DEF Buffered
      <3>2. writing[w].line \in 1 .. MaxLine
        BY <3>1 DEF None
      <3> QED
        BY <1>1, <2>1, <3>2
    <2>4. SinkTypeOK'
      BY <1>0, <2>1, <2>2, <2>3 DEF SinkTypeOK
    <2>5. \A v \in Worker : writing'[v] = writing[v] \/ writing'[v].at = "quiet"
      BY <1>1, <2>1 DEF Quiet
    <2>6. Buffered'
      BY <1>0, <1>1, <2>1, <2>5 DEF Buffered
    <2> QED
      BY <2>4, <2>6 DEF TInv
  <1> QED
    BY <1>2, <1>3, <1>4, <1>5 DEF WriteLine

\* The types are kept.
LEMMA TypesStep == IInv /\ IInv' /\ TInv /\ [Next]_vars => TInv'
  <1> SUFFICES ASSUME IInv, IInv', TInv, [Next]_vars PROVE TInv'
    OBVIOUS
  <1>1. CASE Outside
    BY <1>1, OutsideTypes
  <1>2. CASE \E t \in Thread : Line(t)
    BY <1>2, LineTypes, ThreadAssumption DEF Line
  <1>3. CASE UNCHANGED sinkVars
    BY <1>3 DEF TInv, SinkTypeOK, Buffered, sinkVars, mainVars, diskVars, bufVars, lineVars,
       hupVars
  <1> QED
    BY <1>1, <1>2, <1>3 DEF Next, Request, vars

\* Every variable of the process has its type, for any number of threads, signals,
\* descriptors and files.
THEOREM TypeCorrect == Spec => []TypeOK
  <1>1. IInv /\ TInv => TypeOK
    BY DEF IInv, TInv, Shape, TypeOK, HandleTypeOK, Handle, Call
  <1>2. Spec => []IInv
    BY Invariance
  <1> QED
    BY <1>1, <1>2, TypesInit, TypesStep, PTL DEF Spec
-----------------------------------------------------------------------------
(* The account of the descriptors.                                         *)

\* Somebody holds d.
Holder(d) ==
    \/ d \in {newfd, savefd} \/ (LogIsOpen /\ d = filebuf.fd)
    \/ \E s \in Signal : hup[s].fd = d
    \/ \E t \in Thread : doing[t].fd = d
    \/ \E h \in handles : h.fh = d

\* What is open is held, so nothing is left behind: what the next step of main, or
\* the next handler, assigns is empty before.
AInv ==
    /\ \A d \in Fd : Used(d) => Holder(d)
    /\ \A r, s \in Signal : hup[r].fd = hup[s].fd /\ hup[r].fd # NoFd => r = s
    /\ \A s \in Signal : hup[s].at = "unsent" => hup[s].fd = NoFd
    /\ phase \notin {"swap", "dangling"} => newfd = NoFd
    /\ phase \in {"args", "swap", "dangling", "chdir"} => savefd = NoFd
    /\ phase = "dangling" => ~ LogIsOpen

\* Nothing is open in the beginning.
LEMMA AccountInit == Init => AInv
  BY DEF Init, HandleInit, SinkInit, AInv, Used, Free

\* What is in use after a descriptor was taken, and after one was closed.
LEMMA UsedAfter ==
    ASSUME fdt \in [Fd -> Entry], NEW d \in Fd, NEW e \in Fd
    PROVE  /\ \A x : Occupy(d, x) /\ Used(e)' => Used(e) \/ e = d
           /\ Close(d) /\ Used(e)' => Used(e) /\ e # d
  BY DEF Used, Occupy, Close, Closed, Free

\* A handler of a request holds what it takes, and what it closes it held alone.
LEMMA RequestAccount ==
    ASSUME IInv, IInv', AInv, NEW t \in Thread, Request(t)
    PROVE  AInv'
  <1>1. UNCHANGED <<newfd, savefd, filebuf, hup, phase>>
    BY DEF Request, sinkVars, mainVars, hupVars
  <1>2. \A d \in Fd : Used(d) => Holder(d)
    BY DEF AInv
  <1>3. fdt \in [Fd -> Entry] /\ doing \in [Thread -> Call] /\ \A h \in handles : h.fh \in Fd
    BY DEF IInv, Shape
  <1>4. ASSUME NEW d \in Fd, Used(d)' PROVE Holder(d)'
    <2>1. ASSUME NEW f \in File, NEW a \in Asked, Open(t, f, a) \/ Create(t, f, a)
          PROVE  Holder(d)'
      <3>1. Used(d) \/ d = Lowest
        BY <1>3, <1>4, <2>1, LowestIsFree, UsedAfter DEF Open, Create
      <3>2. handles \subseteq handles' /\ doing' = doing /\ \E h \in handles' : h.fh = Lowest
        <4> DEFINE g == [file |-> f, fh |-> Lowest, asked |-> a]
        <4>1. handles' = handles \cup {g} /\ doing' = doing /\ g.fh = Lowest
          BY <2>1 DEF Open, Create
        <4> HIDE DEF g
        <4> QED
          BY <4>1
      <3> QED
        BY <1>1, <1>2, <3>1, <3>2 DEF Holder, LogIsOpen
    <2>2. ASSUME NEW f \in File, MknodOpen(t, f) PROVE Holder(d)'
      <3>1. Used(d) \/ d = Lowest
        BY <1>3, <1>4, <2>2, LowestIsFree, UsedAfter DEF MknodOpen
      <3>2. doing'[t].fd = Lowest /\ \A u \in Thread \ {t} : doing'[u] = doing[u]
        BY <1>3, <2>2 DEF MknodOpen
      <3>3. doing[t].fd = NoFd /\ NoFd \notin Fd
        BY <2>2, FdAssumption DEF MknodOpen, Rests, Resting, NoFd
      <3> QED
        BY <1>1, <1>2, <2>2, <3>1, <3>2, <3>3 DEF MknodOpen, Holder, LogIsOpen
    <2>3. ASSUME NEW h \in handles, FlushDup(t, h) PROVE Holder(d)'
      <3>1. Used(d) \/ d = Lowest
        BY <1>3, <1>4, <2>3, LowestIsFree, UsedAfter DEF FlushDup, Used
      <3>2. doing'[t].fd = Lowest /\ \A u \in Thread \ {t} : doing'[u] = doing[u]
        BY <1>3, <2>3 DEF FlushDup
      <3>3. doing[t].fd = NoFd /\ NoFd \notin Fd
        BY <2>3, FdAssumption DEF FlushDup, Rests, Resting, NoFd
      <3> QED
        BY <1>1, <1>2, <2>3, <3>1, <3>2, <3>3 DEF FlushDup, Holder, LogIsOpen
    <2>4. ASSUME NEW h \in handles, Release(t, h) PROVE Holder(d)'
      <3>1. Used(d) /\ d # h.fh
        BY <1>3, <1>4, <2>4, UsedAfter DEF Release
      <3> QED
        BY <1>1, <1>2, <2>4, <3>1 DEF Release, Holder, LogIsOpen
    <2>5. ASSUME CloseTaken(t) PROVE Holder(d)'
      <3>1. Used(d) /\ d # doing[t].fd
        BY <1>3, <1>4, <2>5 DEF CloseTaken, Used, Close, Closed, Free
      <3>2. \A u \in Thread \ {t} : doing'[u] = doing[u]
        BY <1>3, <2>5 DEF CloseTaken
      <3> QED
        BY <1>1, <1>2, <2>5, <3>1, <3>2 DEF CloseTaken, Holder, LogIsOpen
    <2> QED
      BY <2>1, <2>2, <2>3, <2>4, <2>5 DEF Request, HandleRequest
  <1> QED
    BY <1>1, <1>4 DEF AInv, LogIsOpen

\* So do main and the handlers of SIGHUP, but for what a handler has opened.
LEMMA OutsideAccount ==
    ASSUME IInv, IInv', AInv, Outside
    PROVE  AInv'
  <1>1. UNCHANGED <<handles, doing>>
    BY DEF Outside, handleVars
  <1>2. \A d \in Fd : Used(d) => Holder(d)
    BY DEF AInv
  <1>3. /\ fdt \in [Fd -> Entry] /\ filebuf.fd \in Fd \cup {NoFd}
        /\ {newfd, savefd} \subseteq Fd \cup {NoFd} /\ NoFd \notin Fd
        /\ hup \in [Signal -> [at : {"unsent", "opened", "done", "wild"}, fd : Fd \cup {NoFd}]]
        /\ filebuf \in [fd : Fd \cup {NoFd}, is : {"null", "open", "closed", "freed"}]
    BY FdAssumption DEF IInv, Shape, NoFd
  <1>4. /\ LogIsOpen => filebuf.fd \in Fd
        /\ \A s \in Signal : hup[s].at = "opened" => LogIsOpen /\ hup[s].fd \in Fd
    BY DEF IInv, InUse, Used, MainHolds
  <1> USE DEF hupVars, mainVars
  <1>5. CASE OptionLog
    <2>1. ASSUME NEW d \in Fd, Used(d)' PROVE Holder(d)'
      <3>1. Used(d) \/ (d = Lowest /\ d = newfd')
        BY <1>3, <1>5, <2>1, LowestIsFree, UsedAfter DEF OptionLog, OpenLog, Used
      <3>2. newfd = NoFd
        BY <1>5 DEF OptionLog, AInv
      <3> QED
        BY <1>1, <1>2, <1>3, <1>5, <3>1, <3>2 DEF OptionLog, Holder, LogIsOpen
    <2> QED
      BY <1>5, <2>1 DEF OptionLog, AInv, LogIsOpen
  <1>6. CASE DeleteOld
    <2>1. ASSUME NEW d \in Fd, Used(d)' PROVE Holder(d)'
      <3>1. Used(d) /\ (LogIsOpen => d # filebuf.fd)
        BY <1>3, <1>4, <1>6, <2>1, UsedAfter DEF DeleteOld, LogIsOpen, Used
      <3> QED
        BY <1>1, <1>2, <1>6, <3>1 DEF DeleteOld, Holder, LogIsOpen
    <2>2. ~ LogIsOpen'
      BY <1>3, <1>6 DEF DeleteOld, LogIsOpen
    <2> QED
      BY <1>6, <2>1, <2>2 DEF DeleteOld, AInv
  <1>7. CASE StoreNew
    <2>1. ASSUME NEW d \in Fd, Used(d)' PROVE Holder(d)'
      <3>1. Used(d) /\ ~ LogIsOpen
        BY <1>7, <2>1 DEF StoreNew, Used, AInv
      <3> QED
        BY <1>1, <1>2, <1>3, <1>7, <3>1 DEF StoreNew, Holder, LogIsOpen
    <2> QED
      BY <1>7, <2>1 DEF StoreNew, AInv
  <1>8. CASE Chdir \/ Mounts \/ Unmount \/ FreeLog \/ End
    <2>1. /\ UNCHANGED <<fdt, newfd, savefd, hup>> /\ LogIsOpen' = LogIsOpen
          /\ LogIsOpen => filebuf' = filebuf
      BY <1>3, <1>8 DEF Chdir, Mounts, Unmount, FreeLog, End, LogIsOpen
    <2>2. \A d \in Fd : Used(d)' => Holder(d)'
      BY <1>1, <1>2, <2>1 DEF Used, Holder
    <2>3. /\ phase \notin {"swap", "dangling"} /\ phase' \notin {"swap", "dangling", "args"}
          /\ phase' = "chdir" => phase = "args"
      BY <1>8 DEF Chdir, Mounts, Unmount, FreeLog, End
    <2> QED
      BY <2>1, <2>2, <2>3 DEF AInv
  <1>9. CASE OpenDot
    <2>1. ASSUME NEW d \in Fd, Used(d)' PROVE Holder(d)'
      <3>1. Used(d) \/ d = savefd'
        BY <1>3, <1>9, <2>1, LowestIsFree, UsedAfter DEF OpenDot, Used
      <3>2. savefd = NoFd
        BY <1>9 DEF OpenDot, AInv
      <3> QED
        BY <1>1, <1>2, <1>3, <1>9, <3>1, <3>2 DEF OpenDot, Holder, LogIsOpen
    <2> QED
      BY <1>9, <2>1 DEF OpenDot, AInv, LogIsOpen
  <1>10. CASE FsInit
    <2>1. ASSUME NEW d \in Fd, Used(d)' PROVE Holder(d)'
      <3>1. Used(d) /\ d # savefd
        BY <1>3, <1>10, <2>1, UsedAfter DEF FsInit, Used
      <3> QED
        BY <1>1, <1>2, <1>10, <3>1 DEF FsInit, Holder, LogIsOpen
    <2> QED
      BY <1>10, <2>1 DEF FsInit, AInv, LogIsOpen
  <1>11. CASE CloseLog
    <2>1. ASSUME NEW d \in Fd, Used(d)' PROVE Holder(d)'
      <3>1. Used(d) /\ (LogIsOpen => d # filebuf.fd)
        BY <1>3, <1>4, <1>11, <2>1, UsedAfter DEF CloseLog, LogIsOpen, Used
      <3> QED
        BY <1>1, <1>2, <1>11, <3>1 DEF CloseLog, Holder, LogIsOpen
    <2> QED
      BY <1>11, <2>1 DEF CloseLog, AInv
  <1>12. CASE LogRotate
    BY <1>1, <1>2, <1>12 DEF LogRotate, AInv, Holder, Used, LogIsOpen
  <1>13. ASSUME NEW s \in Signal, Reopen(s) PROVE AInv'
    <2>1. UNCHANGED <<newfd, savefd, filebuf, phase>> /\ hup[s].at = "unsent" /\ hup[s].fd = NoFd
      BY <1>13 DEF Reopen, AInv
    <2>2. \A r \in Signal \ {s} : hup'[r] = hup[r]
      BY <1>3, <1>13 DEF Reopen
    <2>3. /\ hup'[s].at # "unsent" /\ hup'[s].fd \in {NoFd, Lowest}
          /\ \/ UNCHANGED fdt
             \/ /\ hup'[s].fd = Lowest /\ Lowest # NoFd
                /\ \E x : Occupy(Lowest, x)
      <3>1. CASE \E at \in {"done", "wild"} : hup' = [hup EXCEPT ![s].at = at] /\ UNCHANGED fdt
        BY <1>3, <2>1, <3>1
      <3>2. CASE /\ hup' = [hup EXCEPT ![s] = [at |-> "opened", fd |-> Lowest]]
                 /\ \E file \in 1 .. MaxFile : OpenLog(file)
        <4>1. hup'[s] = [at |-> "opened", fd |-> Lowest]
          BY <1>3, <3>2
        <4> QED
          BY <3>2, <4>1 DEF OpenLog
      <3> QED
        BY <1>13, <3>1, <3>2 DEF Reopen
    <2>4. Lowest # NoFd => /\ Lowest \in Fd
                           /\ \A r \in Signal : hup[r].fd # Lowest
      BY LowestIsNobodys DEF OutsideLog
    <2>5. ASSUME NEW d \in Fd, Used(d)' PROVE Holder(d)'
      <3>1. Used(d) \/ d = hup'[s].fd
        BY <1>3, <2>3, <2>4, <2>5, UsedAfter DEF Used
      <3> QED
        BY <1>1, <1>2, <1>3, <2>1, <2>2, <3>1 DEF Holder, LogIsOpen
    <2>6. \A r, q \in Signal : hup'[r].fd = hup'[q].fd /\ hup'[r].fd # NoFd => r = q
      BY <2>2, <2>3, <2>4 DEF AInv
    <2> QED
      BY <2>1, <2>2, <2>3, <2>5, <2>6 DEF AInv, LogIsOpen
  <1>14. ASSUME NEW s \in Signal, Dup2(s) PROVE AInv'
    <2>1. /\ UNCHANGED <<newfd, savefd, filebuf, phase>>
          /\ \E x : Occupy(filebuf.fd, x)
          /\ hup' = [hup EXCEPT ![s].at = "done"]
          /\ LogIsOpen /\ filebuf.fd \in Fd
      BY <1>4, <1>14 DEF Dup2
    <2>2. \A r \in Signal :
             hup'[r].fd = hup[r].fd /\ (hup'[r].at = "unsent" => hup[r].at = "unsent")
      BY <1>3, <2>1
    <2>3. ASSUME NEW d \in Fd, Used(d)' PROVE Holder(d)'
      <3>1. Used(d) \/ d = filebuf.fd
        BY <1>3, <2>1, <2>3, UsedAfter
      <3> QED
        BY <1>1, <1>2, <2>1, <2>2, <3>1 DEF Holder, LogIsOpen
    <2> QED
      BY <2>1, <2>2, <2>3 DEF AInv, LogIsOpen
  <1> QED
    BY <1>5, <1>6, <1>7, <1>8, <1>9, <1>10, <1>11, <1>12, <1>13, <1>14
    DEF Outside, SinkNext, Main

\* Lines take no descriptor.
LEMMA AccountStep == IInv /\ IInv' /\ AInv /\ [Next]_vars => AInv'
  <1> SUFFICES ASSUME IInv, IInv', AInv, [Next]_vars PROVE AInv'
    OBVIOUS
  <1>1. CASE Outside
    BY <1>1, OutsideAccount
  <1>2. CASE \E t \in Thread : Request(t)
    BY <1>2, RequestAccount
  <1>3. ASSUME UNCHANGED <<fdt, handleVars, mainVars, hupVars>> PROVE AInv'
    BY <1>3 DEF AInv, Holder, Used, LogIsOpen, handleVars, mainVars, hupVars
  <1>4. CASE \E t \in Thread : Line(t)
    BY <1>3, <1>4 DEF Line, WriteLine, WriteLoad, WriteStore, FlushWrite, FlushReset
  <1>5. CASE UNCHANGED vars
    BY <1>3, <1>5 DEF vars, sinkVars
  <1> QED
    BY <1>1, <1>2, <1>4, <1>5 DEF Next

\* A finite set is as large as any set it is in one-to-one relation to.
LEMMA SameSize ==
    ASSUME NEW S, NEW T, IsFiniteSet(T), NEW f \in [S -> T],
           \A x, y \in S : f[x] = f[y] => x = y, \A z \in T : \E x \in S : f[x] = z
    PROVE  Cardinality(S) = Cardinality(T)
  <1>1. f \in Injection(S, T) /\ f \in Surjection(S, T)
    BY DEF Injection, Surjection, IsInjective
  <1> QED
    BY <1>1, FS_Injection

\* Sets without a common member, counted together.
LEMMA CountApart ==
    ASSUME NEW S, IsFiniteSet(S), NEW T, IsFiniteSet(T), S \cap T = {}
    PROVE  /\ IsFiniteSet(S \cup T)
           /\ Cardinality(S \cup T) = Cardinality(S) + Cardinality(T)
  <1>1. Cardinality(S \cap T) = 0
    BY FS_EmptySet
  <1>2. Cardinality(S) \in Nat /\ Cardinality(T) \in Nat
    BY FS_CardinalityType
  <1>3. /\ IsFiniteSet(S \cup T)
        /\ Cardinality(S \cup T) = Cardinality(S) + Cardinality(T) - Cardinality(S \cap T)
    BY FS_Union
  <1> QED
    BY <1>1, <1>2, <1>3

\* Every descriptor in use has one user and every user its own, and the numbers
\* agree: nothing leaks but what each SIGHUP leaves open, for any number of
\* threads, handles, signals and descriptors.
THEOREM AccountCorrect == Spec => []DescriptorAccount
  <1> DEFINE A == LogFds \ {NoFd}
             B == LeakedFds \ {NoFd}
             C == Taken
             D == {h.fh : h \in handles}
             S == {s \in Signal : hup[s].fd # NoFd}
             T == {t \in Thread : doing[t].fd # NoFd}
  <1>1. ASSUME IInv, AInv PROVE DescriptorAccount
    <2>1. /\ fdt \in [Fd -> Entry] /\ filebuf.fd \in Fd \cup {NoFd} /\ NoFd \notin Fd
          /\ doing \in [Thread -> Call] /\ \A h \in handles : h.fh \in Fd
          /\ \A s \in Signal : hup[s].fd \in Fd \cup {NoFd}
          /\ newfd \in Fd \cup {NoFd} /\ savefd \in Fd \cup {NoFd}
      BY <1>1, FdAssumption DEF IInv, Shape, NoFd
    <2>2. \A t \in Thread : doing[t].fd \in Fd \cup {NoFd}
      BY <2>1 DEF Call
    <2>3. A \subseteq Fd /\ B \subseteq Fd /\ C \subseteq Fd /\ D \subseteq Fd
      BY <2>1 DEF LogFds, LeakedFds, Taken
    <2>4. \A d \in Fd : Holder(d) <=> d \in A \cup B \cup C \cup D
      BY <2>1 DEF Holder, LogFds, LeakedFds, Taken, LogIsOpen
    <2>5. \A d \in Fd : Holder(d) => Used(d)
      BY <1>1, <2>1 DEF IInv, InUse, Holder
    <2>6. Fd \ Unused = A \cup B \cup C \cup D
      <3>1. \A d \in Fd : d \in Unused <=> ~ Used(d)
        BY DEF Unused, Used
      <3> QED
        BY <1>1, <2>3, <2>4, <2>5, <3>1 DEF AInv
    <2>7. (LogFds \cup LeakedFds \cup Taken \cup D) \ {NoFd} = A \cup B \cup C \cup D
      BY <2>1, <2>3
    <2>8. A \cap B = {}
      BY <1>1, <2>3 DEF IInv, LogApart, LogFds, LeakedFds, LogIsOpen
    <2>9. (A \cup B) \cap C = {}
      BY <1>1, <2>3, <2>1 DEF IInv, TakenApart, OutsideLog, LogFds, LeakedFds, Taken, LogIsOpen
    <2>10. (A \cup B \cup C) \cap D = {}
      BY <1>1, <2>3, <2>1 DEF IInv, HandlesApart, OutsideLog, LogFds, LeakedFds, Taken, LogIsOpen
    <2>11. IsFiniteSet(A) /\ IsFiniteSet(B) /\ IsFiniteSet(C) /\ IsFiniteSet(D)
      <3> HIDE DEF A, B, C, D
      <3> QED
        BY <2>3, FdAssumption, FS_Subset
    <2>12. Cardinality(B) = Cardinality(S)
      <3> DEFINE f == [s \in S |-> hup[s].fd]
      <3>1. f \in [S -> B]
        BY DEF LeakedFds
      <3>2. \A x, y \in S : f[x] = f[y] => x = y
        BY <1>1 DEF AInv
      <3>3. \A z \in B : \E x \in S : f[x] = z
        BY DEF LeakedFds
      <3> HIDE DEF f, S, B
      <3> QED
        BY <2>11, <3>1, <3>2, <3>3, SameSize
    <2>13. Cardinality(C) = Cardinality(T)
      <3> DEFINE f == [t \in T |-> doing[t].fd]
      <3>1. f \in [T -> C]
        BY <2>2 DEF Taken
      <3>2. \A x, y \in T : f[x] = f[y] => x = y
        BY <1>1 DEF IInv, TakenApart
      <3>3. \A z \in C : \E x \in T : f[x] = z
        BY <2>1 DEF Taken
      <3> HIDE DEF f, T, C
      <3> QED
        BY <2>11, <3>1, <3>2, <3>3, SameSize
    <2>14. Cardinality(D) = Cardinality(handles)
      <3> DEFINE f == [h \in handles |-> h.fh]
      <3>1. f \in [handles -> D]
        OBVIOUS
      <3>2. \A x, y \in handles : f[x] = f[y] => x = y
        BY <1>1 DEF IInv, HandlesApart
      <3>3. \A z \in D : \E x \in handles : f[x] = z
        OBVIOUS
      <3> HIDE DEF f, D
      <3> QED
        BY <2>11, <3>1, <3>2, <3>3, SameSize
    <2>15. Cardinality(A \cup B \cup C \cup D)
             = Cardinality(A) + Cardinality(B) + Cardinality(C) + Cardinality(D)
      <3> HIDE DEF A, B, C, D
      <3>1. /\ IsFiniteSet(A \cup B)
            /\ Cardinality(A \cup B) = Cardinality(A) + Cardinality(B)
        BY <2>8, <2>11, CountApart
      <3>2. /\ IsFiniteSet(A \cup B \cup C)
            /\ Cardinality(A \cup B \cup C) = Cardinality(A \cup B) + Cardinality(C)
        BY <2>9, <2>11, <3>1, CountApart
      <3>3. Cardinality(A \cup B \cup C \cup D) = Cardinality(A \cup B \cup C) + Cardinality(D)
        BY <2>10, <2>11, <3>2, CountApart
      <3> QED
        BY <3>1, <3>2, <3>3
    <2>16. Cardinality(Fd \ Unused)
             = Cardinality(A) + Cardinality(S) + Cardinality(T) + Cardinality(handles)
      BY <2>6, <2>12, <2>13, <2>14, <2>15
    <2> QED
      BY <2>6, <2>7, <2>16 DEF DescriptorAccount
  <1>2. Spec => []IInv
    BY Invariance
  <1>3. IInv /\ AInv => DescriptorAccount
    BY <1>1
  <1> QED
    BY <1>2, <1>3, AccountInit, AccountStep, PTL DEF Spec

-----------------------------------------------------------------------------
(* The lines.                                                              *)

\* What the log writes to, or is about to, is a log file.
FileInv ==
    /\ newfd # NoFd => fdt[newfd].obj \in 1 .. MaxFile
    /\ LogIsOpen => fdt[filebuf.fd].obj \in 1 .. MaxFile
    /\ \A s \in Signal : hup[s].at = "opened" => fdt[hup[s].fd].obj \in 1 .. MaxFile

\* A descriptor none of the log's is written to or closed by a handler.
LEMMA RequestFiles ==
    ASSUME IInv, FileInv, NEW t \in Thread, Request(t)
    PROVE  FileInv'
  <1>1. UNCHANGED <<newfd, filebuf, hup>>
    BY DEF Request, sinkVars, mainVars, hupVars
  <1>2. fdt \in [Fd -> Entry] /\ \A s \in Signal : hup[s].at = "opened" => hup[s].fd # NoFd
    BY DEF IInv, Shape, MainHolds
  <1>3. ASSUME NEW d \in Fd, ~ OutsideLog(d), Used(d) PROVE fdt'[d] = fdt[d]
    <2>1. Lowest # NoFd => d # Lowest
      BY <1>3, LowestIsFree
    <2>2. d # doing[t].fd \/ doing[t].fd = NoFd
      BY <1>3 DEF IInv, TakenApart
    <2>3. \A h \in handles : d # h.fh
      BY <1>3 DEF IInv, HandlesApart
    <2>4. NoFd \notin Fd
      BY FdAssumption DEF NoFd
    <2> QED
      BY <1>2, <2>1, <2>2, <2>3, <2>4 DEF Request, HandleRequest, Open, Create, MknodOpen,
         FlushDup, Release, CloseTaken, Occupy, Close, Closed
  <1>4. /\ newfd # NoFd => Used(newfd) /\ ~ OutsideLog(newfd)
        /\ LogIsOpen => Used(filebuf.fd) /\ ~ OutsideLog(filebuf.fd)
        /\ \A s \in Signal : hup[s].at = "opened" => Used(hup[s].fd) /\ ~ OutsideLog(hup[s].fd)
    BY <1>2 DEF IInv, InUse, OutsideLog
  <1> QED
    BY <1>1, <1>3, <1>4 DEF FileInv, LogIsOpen, Used

\* main and the handlers of SIGHUP move log files between their descriptors.
LEMMA OutsideFiles ==
    ASSUME IInv, IInv', AInv, FileInv, Outside
    PROVE  FileInv'
  <1> USE DEF hupVars, mainVars
  <1>1. /\ fdt \in [Fd -> Entry] /\ NoFd \notin Fd
        /\ filebuf \in [fd : Fd \cup {NoFd}, is : {"null", "open", "closed", "freed"}]
        /\ hup \in [Signal -> [at : {"unsent", "opened", "done", "wild"}, fd : Fd \cup {NoFd}]]
        /\ {newfd, savefd} \subseteq Fd \cup {NoFd}
    BY FdAssumption DEF IInv, Shape, NoFd
  <1>2. /\ newfd # NoFd => Used(newfd)
        /\ LogIsOpen => Used(filebuf.fd)
        /\ \A s \in Signal :
             hup[s].at = "opened" => LogIsOpen /\ hup[s].fd # NoFd /\ Used(hup[s].fd)
    BY DEF IInv, InUse, MainHolds
  <1>3. ASSUME UNCHANGED <<newfd, hup>>, filebuf' = filebuf \/ ~ LogIsOpen',
               \A d \in Fd : Used(d) /\ ~ OutsideLog(d) => fdt'[d] = fdt[d]
                              \/ (LogIsOpen /\ d = filebuf.fd /\ ~ LogIsOpen')
                              \/ d = savefd,
               \A s \in Signal : hup[s].at # "opened" \/ LogIsOpen'
        PROVE  FileInv'
    <2>1. newfd # NoFd =>
             newfd # savefd /\ ~ (LogIsOpen /\ newfd = filebuf.fd) /\ ~ OutsideLog(newfd)
      BY DEF IInv, LogApart, OutsideLog
    <2>2. LogIsOpen /\ savefd = filebuf.fd => savefd = NoFd
      BY DEF IInv, LogApart
    <2>3. LogIsOpen => ~ OutsideLog(filebuf.fd)
      BY DEF OutsideLog
    <2>4. \A s \in Signal : hup[s].at = "opened" =>
             /\ ~ OutsideLog(hup[s].fd) /\ hup[s].fd # savefd /\ hup[s].fd # filebuf.fd
      BY <1>2 DEF IInv, LogApart, OutsideLog
    <2>5. LogIsOpen' => LogIsOpen /\ filebuf' = filebuf
      BY <1>3 DEF LogIsOpen
    <2> QED
      BY <1>1, <1>2, <1>3, <2>1, <2>2, <2>3, <2>4, <2>5 DEF FileInv, Used
  <1>4. CASE OptionLog
    <2>1. UNCHANGED <<filebuf, hup>>
      BY <1>4 DEF OptionLog
    <2>2. CASE UNCHANGED <<fdt, newfd>>
      BY <2>1, <2>2 DEF FileInv, LogIsOpen
    <2>3. ASSUME NEW file \in 1 .. MaxFile, OpenLog(file), newfd' = Lowest
          PROVE  FileInv'
      <3>1. /\ Lowest \in Fd /\ ~ Used(Lowest)
            /\ fdt' = [fdt EXCEPT ![Lowest] = [obj |-> file, access |-> "write"]]
        BY <2>3, LowestIsFree DEF OpenLog, Occupy
      <3>2. fdt'[Lowest].obj = file /\ \A d \in Fd : Used(d) => fdt'[d] = fdt[d]
        BY <1>1, <3>1
      <3> QED
        BY <1>2, <2>1, <2>3, <3>2 DEF FileInv, LogIsOpen, Used
    <2> QED
      BY <1>4, <2>2, <2>3 DEF OptionLog
  <1>5. CASE DeleteOld \/ CloseLog
    <2>1. /\ UNCHANGED <<newfd, hup>> /\ ~ LogIsOpen' /\ Alone
          /\ IF LogIsOpen THEN Close(filebuf.fd) ELSE UNCHANGED fdt
      BY <1>1, <1>5 DEF DeleteOld, CloseLog, LogIsOpen
    <2>2. \A d \in Fd : fdt'[d] = fdt[d] \/ (LogIsOpen /\ d = filebuf.fd /\ ~ LogIsOpen')
      BY <1>1, <2>1 DEF Close, Closed
    <2> QED
      BY <1>3, <2>1, <2>2 DEF Alone
  <1>6. CASE StoreNew
    <2>1. /\ UNCHANGED <<fdt, hup>> /\ newfd' = NoFd /\ filebuf'.fd = newfd /\ newfd # NoFd
          /\ Alone
      BY <1>6 DEF StoreNew, IInv, MainHolds
    <2> QED
      BY <2>1 DEF FileInv, Alone
  <1>7. CASE Chdir \/ Mounts \/ Unmount \/ FreeLog \/ End \/ LogRotate
    <2>1. /\ UNCHANGED <<fdt, newfd, hup>> /\ (filebuf' = filebuf \/ ~ LogIsOpen')
          /\ LogIsOpen' = LogIsOpen
      BY <1>1, <1>7 DEF Chdir, Mounts, Unmount, FreeLog, End, LogRotate, LogIsOpen
    <2> QED
      BY <1>2, <1>3, <2>1
  <1>8. CASE OpenDot
    <2>1. UNCHANGED <<newfd, hup, filebuf>>
      BY <1>8 DEF OpenDot
    <2>2. \A d \in Fd : Used(d) => fdt'[d] = fdt[d]
      BY <1>1, <1>8, LowestIsFree DEF OpenDot, Occupy
    <2> QED
      BY <1>2, <1>3, <2>1, <2>2 DEF LogIsOpen
  <1>9. CASE FsInit
    <2>1. UNCHANGED <<newfd, hup, filebuf>>
      BY <1>9 DEF FsInit
    <2>2. \A d \in Fd : fdt'[d] = fdt[d] \/ d = savefd
      BY <1>1, <1>9 DEF FsInit, Close, Closed
    <2> QED
      BY <1>2, <1>3, <2>1, <2>2 DEF LogIsOpen
  <1>10. ASSUME NEW s \in Signal, Reopen(s) PROVE FileInv'
    <2>1. UNCHANGED <<newfd, filebuf>>
      BY <1>10 DEF Reopen
    <2>2. CASE \E at \in {"done", "wild"} : hup' = [hup EXCEPT ![s].at = at] /\ UNCHANGED fdt
      <3>1. \A r \in Signal : hup'[r].at = "opened" => hup'[r] = hup[r]
        BY <1>1, <2>2
      <3> QED
        BY <2>1, <2>2, <3>1 DEF FileInv, LogIsOpen
    <2>3. ASSUME hup' = [hup EXCEPT ![s] = [at |-> "opened", fd |-> Lowest]],
                 NEW file \in 1 .. MaxFile, OpenLog(file)
          PROVE  FileInv'
      <3>1. /\ Lowest \in Fd /\ ~ Used(Lowest)
            /\ fdt' = [fdt EXCEPT ![Lowest] = [obj |-> file, access |-> "write"]]
        BY <2>3, LowestIsFree DEF OpenLog, Occupy
      <3>2. fdt'[Lowest].obj = file /\ \A d \in Fd : Used(d) => fdt'[d] = fdt[d]
        BY <1>1, <3>1
      <3>3. hup'[s].fd = Lowest /\ \A r \in Signal \ {s} : hup'[r] = hup[r]
        BY <1>1, <2>3
      <3> QED
        BY <1>2, <2>1, <3>2, <3>3 DEF FileInv, LogIsOpen, Used
    <2> QED
      BY <1>10, <2>2, <2>3 DEF Reopen
  <1>11. ASSUME NEW s \in Signal, Dup2(s) PROVE FileInv'
    <2>1. /\ UNCHANGED <<newfd, filebuf>> /\ LogIsOpen /\ filebuf.fd \in Fd
          /\ fdt' = [fdt EXCEPT ![filebuf.fd] = fdt[hup[s].fd]]
          /\ hup' = [hup EXCEPT ![s].at = "done"]
          /\ fdt[hup[s].fd].obj \in 1 .. MaxFile
      BY <1>2, <1>11 DEF Dup2, Occupy, FileInv, Used
    <2>2. /\ fdt'[filebuf.fd] = fdt[hup[s].fd]
          /\ \A d \in Fd \ {filebuf.fd} : fdt'[d] = fdt[d]
      BY <1>1, <2>1
    <2>3. \A r \in Signal : hup'[r].at = "opened" => hup'[r] = hup[r]
      BY <1>1, <2>1
    <2>4. /\ newfd # NoFd => newfd # filebuf.fd
          /\ \A r \in Signal : hup[r].at = "opened" => hup[r].fd # filebuf.fd
      BY <2>1 DEF IInv, LogApart
    <2> QED
      BY <1>1, <1>2, <2>1, <2>2, <2>3, <2>4 DEF FileInv, LogIsOpen, Used
  <1> QED
    BY <1>4, <1>5, <1>6, <1>7, <1>8, <1>9, <1>10, <1>11 DEF Outside, SinkNext, Main

\* Where the lines go stays a log file.
LEMMA FilesStep == IInv /\ IInv' /\ AInv /\ FileInv /\ [Next]_vars => FileInv'
  <1> SUFFICES ASSUME IInv, IInv', AInv, FileInv, [Next]_vars PROVE FileInv'
    OBVIOUS
  <1>1. ASSUME UNCHANGED <<fdt, mainVars, hupVars>> PROVE FileInv'
    BY <1>1 DEF FileInv, LogIsOpen, mainVars, hupVars
  <1>2. CASE \E t \in Thread : Line(t)
    BY <1>1, <1>2 DEF Line, WriteLine, WriteLoad, WriteStore, FlushWrite, FlushReset
  <1>3. CASE UNCHANGED vars
    BY <1>1, <1>3 DEF vars, sinkVars
  <1> QED
    BY <1>2, <1>3, RequestFiles, OutsideFiles DEF Next

\* No log, no lines.
LEMMA FilesInit == Init => FileInv
  BY DEF Init, SinkInit, FileInv, LogIsOpen

\* Where line m stands in the files c.
PlacesIn(c, m) ==
    UNION {{<<i, k>> : k \in {j \in DOMAIN c[i] : c[i][j] = m}} : i \in 1 .. MaxFile}

\* Membership, spelled out.
LEMMA PlaceIs ==
    ASSUME NEW c, NEW m, NEW p
    PROVE  p \in PlacesIn(c, m)
             <=> \E i \in 1 .. MaxFile : \E k \in DOMAIN c[i] : p = <<i, k>> /\ c[i][k] = m
  BY DEF PlacesIn

\* A line that was appended to others is the last, and they are as before.
LEMMA Appended ==
    ASSUME NEW S, NEW s \in Seq(S), NEW l \in S
    PROVE  LET t == s \o <<l>>
               n == Len(s) + 1
           IN  /\ n \in DOMAIN t /\ t[n] = l
               /\ \A k \in DOMAIN s : k \in DOMAIN t /\ t[k] = s[k]
               /\ \A k \in DOMAIN t : k \in DOMAIN s \/ k = n
  <1> DEFINE t == s \o <<l>>
  <1>1. <<l>> \in Seq(S) /\ Len(<<l>>) = 1 /\ <<l>>[1] = l
    OBVIOUS
  <1>2. /\ DOMAIN s = 1 .. Len(s) /\ Len(s) \in Nat
        /\ t \in Seq(S) /\ Len(t) = Len(s) + 1
        /\ \A k \in 1 .. Len(s) + 1 : t[k] = IF k =< Len(s) THEN s[k] ELSE <<l>>[k - Len(s)]
    BY <1>1, ConcatProperties
  <1> HIDE DEF t
  <1>3. DOMAIN t = 1 .. Len(s) + 1
    BY <1>2
  <1>4. /\ Len(s) + 1 \in DOMAIN t /\ t[Len(s) + 1] = l
        /\ \A k \in DOMAIN s : k \in DOMAIN t /\ t[k] = s[k]
        /\ \A k \in DOMAIN t : k \in DOMAIN s \/ k = Len(s) + 1
    BY <1>1, <1>2, <1>3
  <1> QED
    BY <1>4 DEF t

\* A sequence of one element is written as that.
LEMMA OneElement ==
    ASSUME NEW S, NEW s \in Seq(S), Len(s) = 1, NEW l \in S, s[1] = l
    PROVE  s = <<l>>
  <1>1. <<l>> \in Seq(S) /\ Len(<<l>>) = 1 /\ <<l>>[1] = l
    OBVIOUS
  <1>2. \A i \in 1 .. 1 : i = 1
    OBVIOUS
  <1> QED
    BY <1>1, <1>2, SeqEqual

\* A buffer that holds one line holds that.
LEMMA FrontOfOne ==
    ASSUME NEW b \in [1 .. MaxLine -> 0 .. MaxLine], NEW l \in 1 .. MaxLine, b[1] = l
    PROVE  SubSeq(b, 1, 1) = <<l>>
  <1>1. /\ SubSeq(b, 1, 1) \in Seq(1 .. MaxLine) /\ Len(SubSeq(b, 1, 1)) = 1
        /\ SubSeq(b, 1, 1)[1] = b[1]
    <2>1. \A i \in 1 .. 1 : b[i] \in 1 .. MaxLine
      OBVIOUS
    <2>2. 1 \in Int /\ 1 - 1 + 1 = 1 /\ 1 + 1 - 1 = 1
      OBVIOUS
    <2> QED
      BY <2>1, <2>2, SubSeqProperties
  <1>2. PICK s : s = SubSeq(b, 1, 1)
    OBVIOUS
  <1>3. s \in Seq(1 .. MaxLine) /\ Len(s) = 1 /\ s[1] = l
    BY <1>1, <1>2
  <1>4. s = <<l>>
    BY ONLY <1>3, OneElement
  <1> QED
    BY <1>2, <1>4

\* So a line that is appended to a file stands there in addition.
LEMMA Appending ==
    ASSUME NEW l \in 1 .. MaxLine, NEW f \in 1 .. MaxFile, content[f] \in Seq(1 .. MaxLine),
           content'[f] = content[f] \o <<l>>,
           \A i \in (1 .. MaxFile) \ {f} : content'[i] = content[i]
    PROVE  \E p : /\ \A m : m # l => Places(m)' = Places(m)
                  /\ Places(l)' = Places(l) \cup {p}
  <1>1. PICK c, d : c = content /\ d = content'
    OBVIOUS
  <1>2. PICK n : /\ n \in DOMAIN d[f] /\ d[f][n] = l
                 /\ \A k \in DOMAIN c[f] : k \in DOMAIN d[f] /\ d[f][k] = c[f][k]
                 /\ \A k \in DOMAIN d[f] : k \in DOMAIN c[f] \/ k = n
    <2>1. PICK s : s = content[f]
      OBVIOUS
    <2>2. s \in Seq(1 .. MaxLine) /\ l \in 1 .. MaxLine
      BY <2>1
    <2>3. LET t == s \o <<l>>
              n == Len(s) + 1
          IN  /\ n \in DOMAIN t /\ t[n] = l
              /\ \A k \in DOMAIN s : k \in DOMAIN t /\ t[k] = s[k]
              /\ \A k \in DOMAIN t : k \in DOMAIN s \/ k = n
      BY ONLY <2>2, Appended
    <2>4. d[f] = s \o <<l>> /\ c[f] = s
      BY <1>1, <2>1
    <2> QED
      BY ONLY <2>3, <2>4
  <1>3. f \in 1 .. MaxFile /\ \A i \in (1 .. MaxFile) \ {f} : d[i] = c[i]
    BY <1>1
  <1>4. ASSUME NEW m, NEW p, p \in PlacesIn(d, m)
        PROVE  p \in PlacesIn(c, m) \/ (m = l /\ p = <<f, n>>)
    <2>1. PICK i \in 1 .. MaxFile : \E k \in DOMAIN d[i] : p = <<i, k>> /\ d[i][k] = m
      BY ONLY <1>4, PlaceIs
    <2>2. PICK k \in DOMAIN d[i] : p = <<i, k>> /\ d[i][k] = m
      BY ONLY <2>1
    <2>3. (i = f /\ k = n) \/ (k \in DOMAIN c[i] /\ c[i][k] = m)
      BY ONLY <1>2, <1>3, <2>2
    <2>4. i = f /\ k = n => m = l /\ p = <<f, n>>
      BY ONLY <1>2, <2>2
    <2>5. k \in DOMAIN c[i] /\ c[i][k] = m => p \in PlacesIn(c, m)
      BY ONLY <2>2, PlaceIs
    <2> QED
      BY ONLY <2>3, <2>4, <2>5
  <1>5. ASSUME NEW m, NEW p, p \in PlacesIn(c, m) PROVE p \in PlacesIn(d, m)
    <2>1. PICK i \in 1 .. MaxFile : \E k \in DOMAIN c[i] : p = <<i, k>> /\ c[i][k] = m
      BY ONLY <1>5, PlaceIs
    <2>2. PICK k \in DOMAIN c[i] : p = <<i, k>> /\ c[i][k] = m
      BY ONLY <2>1
    <2>3. k \in DOMAIN d[i] /\ d[i][k] = m
      BY ONLY <1>2, <1>3, <2>2
    <2> QED
      BY ONLY <2>2, <2>3, PlaceIs
  <1>6. <<f, n>> \in PlacesIn(d, l)
    BY ONLY <1>2, <1>3, PlaceIs
  <1>7. /\ \A m : m # l => PlacesIn(d, m) = PlacesIn(c, m)
        /\ PlacesIn(d, l) = PlacesIn(c, l) \cup {<<f, n>>}
    <2>1. \A m : \A p \in PlacesIn(d, m) : p \in PlacesIn(c, m) \/ (m = l /\ p = <<f, n>>)
      BY ONLY <1>4
    <2>2. \A m : \A p \in PlacesIn(c, m) : p \in PlacesIn(d, m)
      BY ONLY <1>5
    <2>3. \A m : m # l => PlacesIn(d, m) = PlacesIn(c, m)
      BY ONLY <2>1, <2>2
    <2>4. PlacesIn(d, l) = PlacesIn(c, l) \cup {<<f, n>>}
      BY ONLY <2>1, <2>2, <1>6
    <2> QED
      BY ONLY <2>3, <2>4
  <1>8. \A m : Places(m) = PlacesIn(c, m) /\ Places(m)' = PlacesIn(d, m)
    BY <1>1 DEF Places, PlacesIn
  <1> QED
    BY ONLY <1>7, <1>8

\* Line m stands nowhere, or in one place.
Nowhere(m) == Places(m) = {}
Once(m)    == \E p : Places(m) = {p}

\* With no thread in the stream, the buffer is empty or holds the line of a flush
\* that failed.
LeftOver ==
    (\A w \in Worker : writing[w].at = "quiet") =>
        \/ pptr = 0
        \/ pptr = 1 /\ stream = "bad" /\ mem[1] \in (1 .. lines) \ logged /\ Nowhere(mem[1])

\* While no two threads have been in the stream at once, the buffer holds the line
\* of the one that is in it; a line stands in a file from its write on, and before
\* that nowhere.
LInv ==
    /\ \A w \in Worker : writing[w].at # "quiet" => phase = "serving" /\ LogIsOpen
    /\ raced = "no" =>
         /\ \A v, w \in Worker : writing[v].at # "quiet" /\ writing[w].at # "quiet" => v = w
         /\ LeftOver
         /\ \A w \in Worker :
              /\ writing[w].at # "quiet" => writing[w].line \in (1 .. lines) \ logged
              /\ writing[w].at = "store" => writing[w].loaded = 0
              /\ writing[w].at = "flush" => pptr = 1 /\ mem[1] = writing[w].line
              /\ writing[w].at \in {"store", "flush"} => Nowhere(writing[w].line)
              /\ writing[w].at = "reset" => Once(writing[w].line)
         /\ logged \subseteq 1 .. lines /\ \A m \in logged : Once(m)
         /\ \A m \in 1 .. MaxLine : m > lines => Nowhere(m)
         /\ \A m \in 1 .. MaxLine : Nowhere(m) \/ Once(m)

\* There are no lines in the beginning.
LEMMA LinesInit == Init => LInv
  <1> SUFFICES ASSUME Init PROVE LInv
    OBVIOUS
  <1>1. \A m : Nowhere(m)
    BY DEF Init, SinkInit, Nowhere, Places
  <1> QED
    BY <1>1 DEF Init, SinkInit, LInv, LeftOver, Quiet

\* Who does not write leaves the lines where they are.
LEMMA OutsideLines ==
    ASSUME IInv, TInv, LInv,
           UNCHANGED <<writing, lines, logged, raced, content, mem, pptr, stream>>,
           \A w \in Worker : writing[w].at # "quiet" /\ phase = "serving" /\ LogIsOpen
                             => phase' = "serving" /\ LogIsOpen'
    PROVE  LInv'
  <1>1. \A m : Nowhere(m)' = Nowhere(m) /\ Once(m)' = Once(m)
    BY DEF Nowhere, Once, Places
  <1>2. \A w \in Worker : writing'[w].at # "quiet" => phase' = "serving" /\ LogIsOpen'
    BY DEF LInv
  <1> QED
    BY <1>1, <1>2 DEF LInv, LeftOver

\* A line is begun: the buffer is empty when it is.
LEMMA LoadLines ==
    ASSUME TInv, LInv, NEW w \in Worker, WriteLoad(w)
    PROVE  LInv'
  <1>1. /\ mem \in [1 .. MaxLine -> 0 .. MaxLine] /\ pptr \in 0 .. MaxLine
        /\ lines \in 0 .. MaxLine /\ logged \subseteq 1 .. MaxLine
        /\ writing \in [Worker -> [at : {"quiet", "store", "flush", "reset"}, line : 0 .. MaxLine,
                                   loaded : 0 .. MaxLine]]
        /\ stream \in {"good", "bad"}
    BY DEF TInv, SinkTypeOK
  <1>2. /\ UNCHANGED <<content, mem, pptr, stream, logged, phase>> /\ LogIsOpen' = LogIsOpen
        /\ phase = "serving" /\ LogIsOpen /\ lines' = lines + 1 /\ lines < MaxLine
        /\ writing[w].at = "quiet"
        /\ raced' = IF \A v \in Worker : writing[v].at = "quiet" THEN raced ELSE "yes"
    BY DEF WriteLoad, At, mainVars, diskVars, bufVars, LogIsOpen
  <1>3. \A m : Nowhere(m)' = Nowhere(m) /\ Once(m)' = Once(m)
    BY <1>2 DEF Nowhere, Once, Places
  <1>4. lines + 1 \in 1 .. MaxLine
    BY <1>1, <1>2, BoundAssumption
  <1>5. CASE stream = "bad"
    <2>1. writing' = writing
      BY <1>5 DEF WriteLoad
    <2> QED
      <3>1. raced = "no" => LeftOver'
        BY <1>1, <1>2, <1>3, <1>5, <2>1 DEF LInv, LeftOver
      <3>2. raced' = "no" => raced = "no"
        BY <1>2
      <3> QED
        BY <1>1, <1>2, <1>3, <1>4, <1>5, <2>1, <3>1, <3>2 DEF LInv
  <1>6. CASE stream = "good"
    <2>1. /\ writing'[w] = [at |-> "store", line |-> lines + 1, loaded |-> pptr]
          /\ \A v \in Worker \ {w} : writing'[v] = writing[v]
      BY <1>1, <1>6 DEF WriteLoad
    <2>2. \A v \in Worker : writing'[v].at # "quiet" => phase' = "serving" /\ LogIsOpen'
      BY <1>2
    <2>3. ASSUME raced' = "no" PROVE raced = "no" /\ pptr = 0
                                      /\ \A v \in Worker : writing[v].at = "quiet"
      BY <1>2, <1>6, <2>3 DEF LInv, LeftOver
    <2>4. ASSUME raced' = "no"
          PROVE  /\ \A v, u \in Worker :
                      writing'[v].at # "quiet" /\ writing'[u].at # "quiet" => v = u
                 /\ writing'[w].at = "store" /\ writing'[w].line = lines + 1
                 /\ writing'[w].loaded = 0 /\ Nowhere(lines + 1)
                 /\ lines + 1 \in (1 .. lines') \ logged'
                 /\ logged' \subseteq 1 .. lines' /\ \A m \in logged' : Once(m)'
                 /\ \A m \in 1 .. MaxLine : m > lines' => Nowhere(m)'
                 /\ \A m \in 1 .. MaxLine : Nowhere(m)' \/ Once(m)'
      <3>1. logged \subseteq 1 .. lines /\ \A m \in logged : Once(m)
        BY <2>3, <2>4 DEF LInv
      <3>2. /\ \A m \in 1 .. MaxLine : m > lines => Nowhere(m)
            /\ \A m \in 1 .. MaxLine : Nowhere(m) \/ Once(m)
        BY <2>3, <2>4 DEF LInv
      <3>3. /\ \A v, u \in Worker : writing'[v].at # "quiet" /\ writing'[u].at # "quiet" => v = u
            /\ writing'[w].at = "store" /\ writing'[w].line = lines + 1
            /\ writing'[w].loaded = 0
        BY <2>1, <2>3, <2>4
      <3>4. Nowhere(lines + 1)
        BY <1>1, <1>4, <3>2
      <3>5. lines + 1 \in (1 .. lines') \ logged' /\ logged' \subseteq 1 .. lines'
        BY <1>1, <1>2, <3>1
      <3>6. \A m \in logged' : Once(m)'
        BY <1>2, <1>3, <3>1
      <3>7. \A m \in 1 .. MaxLine : m > lines' => Nowhere(m)'
        BY <1>1, <1>2, <1>3, <3>2
      <3>8. \A m \in 1 .. MaxLine : Nowhere(m)' \/ Once(m)'
        BY <1>3, <3>2
      <3> QED
        BY <3>3, <3>4, <3>5, <3>6, <3>7, <3>8
    <2> QED
      <3>1. LeftOver'
        BY <2>1 DEF LeftOver
      <3> QED
        BY <1>2, <1>3, <2>1, <2>2, <2>3, <2>4, <3>1 DEF LInv
  <1> QED
    BY <1>1, <1>5, <1>6

\* Its characters are copied to the front of the buffer.
LEMMA StoreLines ==
    ASSUME TInv, LInv, NEW w \in Worker, WriteStore(w)
    PROVE  LInv'
  <1>1. /\ mem \in [1 .. MaxLine -> 0 .. MaxLine]
        /\ lines \in 0 .. MaxLine
        /\ writing \in [Worker -> [at : {"quiet", "store", "flush", "reset"}, line : 0 .. MaxLine,
                                   loaded : 0 .. MaxLine]]
    BY DEF TInv, SinkTypeOK
  <1>2. /\ UNCHANGED <<content, stream, logged, phase, lines, raced>> /\ LogIsOpen' = LogIsOpen
        /\ writing[w].at = "store" /\ writing' = [writing EXCEPT ![w].at = "flush"]
        /\ mem' = [mem EXCEPT ![writing[w].loaded + 1] = writing[w].line]
        /\ pptr' = writing[w].loaded + 1
    BY DEF WriteStore, At, Go, mainVars, diskVars, LogIsOpen
  <1>3. \A m : Nowhere(m)' = Nowhere(m) /\ Once(m)' = Once(m)
    BY <1>2 DEF Nowhere, Once, Places
  <1>4. /\ writing'[w].at = "flush" /\ writing'[w].line = writing[w].line
        /\ \A v \in Worker \ {w} : writing'[v] = writing[v]
    BY <1>1, <1>2
  <1>5. ASSUME raced = "no"
        PROVE  /\ \A v \in Worker \ {w} : writing[v].at = "quiet"
               /\ pptr' = 1 /\ mem'[1] = writing[w].line
    <2>1. writing[w].loaded = 0 /\ \A v \in Worker \ {w} : writing[v].at = "quiet"
      BY <1>2, <1>5 DEF LInv
    <2>2. 1 \in 1 .. MaxLine
      BY <1>1, <1>2, BoundAssumption DEF TInv, Buffered
    <2> QED
      BY <1>1, <1>2, <2>1, <2>2
  <1>6. LeftOver'
    BY <1>4 DEF LeftOver
  <1> QED
    BY <1>2, <1>3, <1>4, <1>5, <1>6 DEF LInv

\* It is written to the log file, or left in the buffer of a stream gone bad.
LEMMA FlushLines ==
    ASSUME IInv, TInv, LInv, FileInv, NEW w \in Worker, FlushWrite(w)
    PROVE  LInv'
  <1>1. /\ mem \in [1 .. MaxLine -> 0 .. MaxLine] /\ lines \in 0 .. MaxLine
        /\ writing \in [Worker -> [at : {"quiet", "store", "flush", "reset"}, line : 0 .. MaxLine,
                                   loaded : 0 .. MaxLine]]
        /\ content \in [1 .. MaxFile -> Seq(1 .. MaxLine)]
    BY DEF TInv, SinkTypeOK
  <1>2. /\ UNCHANGED <<mem, pptr, logged, phase, lines, raced>> /\ LogIsOpen' = LogIsOpen
        /\ writing[w].at = "flush"
    BY DEF FlushWrite, At, mainVars, LogIsOpen
  <1>3. CASE stream' = "bad" /\ writing' = [writing EXCEPT ![w] = Quiet] /\ UNCHANGED content
    <2>1. \A m : Nowhere(m)' = Nowhere(m) /\ Once(m)' = Once(m)
      BY <1>3 DEF Nowhere, Once, Places
    <2>2. writing'[w].at = "quiet" /\ \A v \in Worker \ {w} : writing'[v] = writing[v]
      BY <1>1, <1>3 DEF Quiet
    <2>3. raced = "no" => LeftOver'
      BY <1>2, <1>3, <2>1 DEF LInv, LeftOver
    <2> QED
      BY <1>2, <1>3, <2>1, <2>2, <2>3 DEF LInv
  <1>4. CASE /\ content' = [content EXCEPT ![fdt[filebuf.fd].obj] = @ \o SubSeq(mem, 1, pptr)]
             /\ Go(w, "reset") /\ UNCHANGED stream
    <2>0. PICK f, l : f = fdt[filebuf.fd].obj /\ l = writing[w].line
      OBVIOUS
    <2>1. f \in 1 .. MaxFile
      BY <1>2, <2>0 DEF LInv, FileInv
    <2>2. /\ writing'[w].at = "reset" /\ writing'[w].line = l
          /\ \A v \in Worker \ {w} : writing'[v] = writing[v]
      BY <1>1, <1>4, <2>0 DEF Go
    <2>3. ASSUME raced = "no"
          PROVE  /\ \A v \in Worker \ {w} : writing[v].at = "quiet"
                 /\ pptr = 1 /\ mem[1] = l /\ l \in (1 .. lines) \ logged /\ Nowhere(l)
      BY <1>2, <2>0, <2>3 DEF LInv
    <2>4. ASSUME raced = "no"
          PROVE  /\ \A m : m # l => Nowhere(m)' = Nowhere(m) /\ Once(m)' = Once(m)
                 /\ Once(l)'
      <3>1. l \in 1 .. MaxLine
        <4>1. lines \in 0 .. MaxLine /\ l \in 1 .. lines
          BY <1>1, <2>3, <2>4
        <4> QED
          BY ONLY <4>1, BoundAssumption
      <3>2. SubSeq(mem, 1, pptr) = <<l>>
        BY <1>1, <2>3, <2>4, <3>1, FrontOfOne
      <3>3. /\ content[f] \in Seq(1 .. MaxLine) /\ content'[f] = content[f] \o <<l>>
            /\ \A i \in (1 .. MaxFile) \ {f} : content'[i] = content[i]
        BY <1>1, <1>4, <2>0, <2>1, <3>2
      <3>4. PICK p : /\ \A m : m # l => Places(m)' = Places(m)
                     /\ Places(l)' = Places(l) \cup {p}
        BY ONLY <2>1, <3>1, <3>3, Appending
      <3>5. Places(l)' = {p}
        BY <2>3, <2>4, <3>4 DEF Nowhere
      <3> QED
        BY <3>4, <3>5 DEF Nowhere, Once
    <2> QED
      <3>1. ASSUME raced = "no" PROVE LInv'
        <4>1. /\ \A v \in Worker \ {w} : writing'[v].at = "quiet"
              /\ l \in (1 .. lines) \ logged /\ Once(l)'
          BY <2>2, <2>3, <2>4, <3>1
        <4>2. \A m \in logged : Once(m)'
          BY <2>3, <2>4, <3>1 DEF LInv
        <4>3. \A m \in 1 .. MaxLine : m > lines => Nowhere(m)'
          <5>1. l =< lines
            BY <1>1, <4>1
          <5>2. \A m \in 1 .. MaxLine : m > lines => m # l
            BY <1>1, <4>1, <5>1
          <5> QED
            BY <2>4, <3>1, <5>2 DEF LInv
        <4>4. logged \subseteq 1 .. lines /\ phase = "serving" /\ LogIsOpen
          BY <1>2, <3>1 DEF LInv
        <4>5. LeftOver'
          BY <2>2 DEF LeftOver
        <4>6. \A m \in 1 .. MaxLine : Nowhere(m)' \/ Once(m)'
          BY <2>4, <3>1 DEF LInv
        <4> QED
          BY <1>2, <1>4, <2>2, <4>1, <4>2, <4>3, <4>4, <4>5, <4>6 DEF LInv
      <3>2. ASSUME raced # "no" PROVE LInv'
        BY <1>1, <1>2, <2>2, <3>2 DEF LInv
      <3> QED
        BY <3>1, <3>2
  <1> QED
    BY <1>3, <1>4 DEF FlushWrite, WriteOut

\* The buffer is emptied.
LEMMA ResetLines ==
    ASSUME TInv, LInv, NEW w \in Worker, FlushReset(w)
    PROVE  LInv'
  <1>1. writing \in [Worker -> [at : {"quiet", "store", "flush", "reset"}, line : 0 .. MaxLine,
                                loaded : 0 .. MaxLine]]
    BY DEF TInv, SinkTypeOK
  <1>2. /\ UNCHANGED <<content, mem, stream, phase, lines, raced>> /\ LogIsOpen' = LogIsOpen
        /\ writing[w].at = "reset" /\ pptr' = 0 /\ logged' = logged \cup {writing[w].line}
        /\ writing' = [writing EXCEPT ![w] = Quiet]
    BY DEF FlushReset, At, mainVars, diskVars, LogIsOpen
  <1>3. \A m : Nowhere(m)' = Nowhere(m) /\ Once(m)' = Once(m)
    BY <1>2 DEF Nowhere, Once, Places
  <1>4. writing'[w].at = "quiet" /\ \A v \in Worker \ {w} : writing'[v] = writing[v]
    BY <1>1, <1>2 DEF Quiet
  <1>5. LeftOver'
    BY <1>2 DEF LeftOver
  <1> QED
    BY <1>2, <1>3, <1>4, <1>5 DEF LInv

\* What a failed flush left is written when the log is closed, or lost.
LEMMA CloseLines ==
    ASSUME TInv, LInv, FileInv, CloseLog
    PROVE  LInv'
  <1>1. /\ mem \in [1 .. MaxLine -> 0 .. MaxLine] /\ pptr \in 0 .. MaxLine
        /\ lines \in 0 .. MaxLine /\ content \in [1 .. MaxFile -> Seq(1 .. MaxLine)]
    BY DEF TInv, SinkTypeOK
  <1>2. /\ UNCHANGED <<writing, lines, logged, raced, mem, stream>>
        /\ \A w \in Worker : writing[w].at = "quiet"
    BY DEF CloseLog, LInv, lineVars
  <1>3. CASE UNCHANGED <<content, pptr>> \/ (LogIsOpen /\ UNCHANGED content /\ pptr' = 0)
    <2>1. \A m : Nowhere(m)' = Nowhere(m) /\ Once(m)' = Once(m)
      <3>1. content' = content
        BY <1>3
      <3> QED
        BY <3>1 DEF Nowhere, Once, Places
    <2>2. raced = "no" => LeftOver'
      BY <1>2, <1>3, <2>1 DEF LInv, LeftOver
    <2> QED
      BY <1>2, <2>1, <2>2 DEF LInv
  <1>4. CASE LogIsOpen /\ WriteOut /\ pptr' = 0
    <2>1. PICK f, l : f = fdt[filebuf.fd].obj /\ l = mem[1]
      OBVIOUS
    <2>2. f \in 1 .. MaxFile
      BY <1>4, <2>1 DEF FileInv
    <2>3. LeftOver'
      BY <1>4 DEF LeftOver
    <2>4. CASE raced # "no"
      BY <1>2, <2>4 DEF LInv
    <2>5. CASE raced = "no" /\ pptr = 0
      <3>1. content' = content
        <4>1. SubSeq(mem, 1, pptr) = <<>>
          <5>1. SubSeq(mem, 1, 0) \in Seq(1 .. MaxLine) /\ Len(SubSeq(mem, 1, 0)) = 0
            <6>1. \A i \in 1 .. 0 : mem[i] \in 1 .. MaxLine
              OBVIOUS
            <6> QED
              BY <6>1, SubSeqProperties
          <5> QED
            BY <2>5, <5>1, EmptySeq
        <4>2. \A i \in 1 .. MaxFile : content[i] \o <<>> = content[i]
          BY <1>1
        <4> QED
          BY <1>1, <1>4, <2>1, <2>2, <4>1, <4>2 DEF WriteOut
      <3>2. \A m : Nowhere(m)' = Nowhere(m) /\ Once(m)' = Once(m)
        BY <3>1 DEF Nowhere, Once, Places
      <3> QED
        BY <1>2, <2>3, <3>2 DEF LInv
    <2>6. CASE raced = "no" /\ pptr # 0
      <3>1. pptr = 1 /\ l \in (1 .. lines) \ logged /\ Nowhere(l)
        BY <1>2, <2>1, <2>6 DEF LInv, LeftOver
      <3>2. l \in 1 .. MaxLine
        <4>1. lines \in 0 .. MaxLine /\ l \in 1 .. lines
          BY <1>1, <3>1
        <4> QED
          BY ONLY <4>1, BoundAssumption
      <3>3. SubSeq(mem, 1, pptr) = <<l>>
        BY <1>1, <2>1, <3>1, <3>2, FrontOfOne
      <3>4. /\ content[f] \in Seq(1 .. MaxLine) /\ content'[f] = content[f] \o <<l>>
            /\ \A i \in (1 .. MaxFile) \ {f} : content'[i] = content[i]
        BY <1>1, <1>4, <2>1, <2>2, <3>3 DEF WriteOut
      <3>5. PICK p : /\ \A m : m # l => Places(m)' = Places(m)
                     /\ Places(l)' = Places(l) \cup {p}
        BY ONLY <2>2, <3>2, <3>4, Appending
      <3>6. /\ \A m : m # l => Nowhere(m)' = Nowhere(m) /\ Once(m)' = Once(m)
            /\ Once(l)'
        BY <3>1, <3>5 DEF Nowhere, Once
      <3>7. \A m \in 1 .. MaxLine : m > lines => m # l
        BY <1>1, <3>1
      <3>8. /\ \A m \in logged : Once(m)'
            /\ \A m \in 1 .. MaxLine : m > lines => Nowhere(m)'
            /\ \A m \in 1 .. MaxLine : Nowhere(m)' \/ Once(m)'
        BY <2>6, <3>1, <3>6, <3>7 DEF LInv
      <3>9. logged \subseteq 1 .. lines
        BY <2>6 DEF LInv
      <3> QED
        BY <1>2, <2>3, <3>8, <3>9 DEF LInv
    <2> QED
      BY <2>4, <2>5, <2>6
  <1> QED
    BY <1>3, <1>4 DEF CloseLog, LogIsOpen

\* The lines stay where they are, and where they should be.
LEMMA LinesStep == IInv /\ TInv /\ FileInv /\ LInv /\ [Next]_vars => LInv'
  <1> SUFFICES ASSUME IInv, TInv, FileInv, LInv, [Next]_vars PROVE LInv'
    OBVIOUS
  <1>1. CASE \E t \in Thread : Line(t)
    BY <1>1, LoadLines, StoreLines, FlushLines, ResetLines, ThreadAssumption DEF Line, WriteLine
  <1>2. CASE Outside
    <2>1. CloseLog \/ UNCHANGED <<writing, lines, logged, raced, content, mem, pptr, stream>>
      BY <1>2 DEF Outside, SinkNext, Main, OptionLog, DeleteOld, StoreNew, Chdir, OpenDot, Mounts,
         FsInit, Unmount, FreeLog, End, LogRotate, Reopen, Dup2, OpenLog, diskVars,
         bufVars, lineVars
    <2>2. phase = "serving" /\ LogIsOpen /\ (\E w \in Worker : writing[w].at # "quiet")
            => phase' = "serving" /\ LogIsOpen'
      BY <1>2 DEF Outside, SinkNext, Main, OptionLog, DeleteOld, StoreNew, Chdir, OpenDot, Mounts,
         FsInit, Unmount, CloseLog, FreeLog, End, LogRotate, Reopen, Dup2, LogIsOpen, Quiet,
         mainVars
    <2> QED
      BY <2>1, <2>2, OutsideLines, CloseLines
  <1>3. CASE UNCHANGED sinkVars
    BY <1>3, OutsideLines DEF sinkVars, mainVars, diskVars, bufVars, lineVars, LogIsOpen
  <1> QED
    BY <1>1, <1>2, <1>3 DEF Next, Request, vars

\* A line that was logged stands in one log file, once, and any other in one place at
\* most, for any number of threads, SIGHUPs, log files and lines, and wherever the log
\* is reopened or rotated between a line's steps: as long as no two threads have been
\* in the stream at once.
THEOREM LinesCorrect == Spec => []LinesOnce
  <1>1. LInv => LinesOnce
    <2> SUFFICES ASSUME LInv, raced = "no", NEW m \in 1 .. MaxLine
                 PROVE  /\ Cardinality(Places(m)) <= 1
                        /\ m \in logged => Places(m) # {}
      BY DEF LinesOnce
    <2>1. Places(m) = {} \/ \E p : Places(m) = {p}
      BY DEF LInv, Nowhere, Once
    <2>2. m \in logged => \E p : Places(m) = {p}
      BY DEF LInv, Once
    <2>3. Cardinality(Places(m)) \in {0, 1}
      BY <2>1, FS_Singleton, FS_EmptySet
    <2> QED
      BY <2>2, <2>3
  <1>2. Spec => []IInv
    BY Invariance
  <1> QED
    BY <1>1, <1>2, TypesInit, TypesStep, AccountInit, AccountStep, FilesInit, FilesStep,
       LinesInit, LinesStep, PTL DEF Spec
=============================================================================
