------------------------------ MODULE LogSink ------------------------------
(***************************************************************************)
(* The log file: main from its arguments to its end, the lines of the      *)
(* worker threads, and reopenLogFile, the handler of SIGHUP.               *)
(*                                                                         *)
(* All lines go through one ostream and one filebuf, whose descriptor the  *)
(* handler replaces with dup2; nothing is locked.  Log files are numbered  *)
(* as they are created.  A name is the directory a relative one is looked  *)
(* up in, or "/" for an absolute one.                                      *)
(***************************************************************************)
EXTENDS Descriptors, Sequences

CONSTANTS Worker,              \* libfuse's threads
          Signal,              \* deliveries of SIGHUP
          MaxFile, MaxLine     \* bounds of the model

ASSUME BoundAssumption == MaxFile \in Nat /\ MaxLine \in Nat

VARIABLES
    phase,      \* main: "args", "swap", "dangling", "chdir", "ready", "mounted",
                \* "serving", "closing", "closed", "freed", "ended"
    relative,   \* the -l name is relative: "yes" or "no"
    cwd, prepared,      \* the directory; whether chdir and open(".") succeeded
    filebuf,    \* Globals::filebuf: its descriptor, "null", "open", "closed" or "freed"
    newfd, savefd,      \* processArgs' fd, Globals::savefd
    named,      \* the log file each name stands for, or None
    made,       \* log files created so far
    content,    \* their lines
    mem, pptr,  \* the filebuf's characters, a line each, and how many are in use
    stream,     \* the ostream's state: "good", "bad"
    writing,    \* per worker: where it is in a line, the line, the pptr it has loaded
    lines,      \* lines begun so far
    hup,        \* per signal: where its handler is, and the descriptor it opened
    logged, raced,      \* ghosts: lines finished; two workers wrote at once
    reopened            \* ghost: the file and name of the last handler

mainVars == <<phase, relative, cwd, prepared, filebuf, newfd, savefd>>
diskVars == <<named, made, content>>
bufVars  == <<mem, pptr, stream>>
lineVars == <<writing, lines, logged, raced>>
hupVars  == <<hup, reopened>>
sinkVars == <<mainVars, diskVars, bufVars, lineVars, hupVars>>

Names  == {"start", "mount", "root", "/"}
Mount  == -1      \* the object of a descriptor of the directory to serve
Quiet  == [at |-> "quiet", line |-> None, loaded |-> 0]
NoName == [file |-> None, name |-> "/"]

SinkInit ==
    /\ phase = "args" /\ relative \in {"yes", "no"}
    /\ cwd = "start" /\ prepared = "no"
    /\ filebuf = [fd |-> NoFd, is |-> "null"] /\ newfd = NoFd /\ savefd = NoFd
    /\ named = [d \in Names |-> None] /\ made = 0
    /\ content = [i \in 1 .. MaxFile |-> <<>>]
    /\ mem = [i \in 1 .. MaxLine |-> None] /\ pptr = 0 /\ stream = "good"
    /\ writing = [w \in Worker |-> Quiet] /\ lines = 0 /\ logged = {} /\ raced = "no"
    /\ hup = [s \in Signal |-> [at |-> "unsent", fd |-> NoFd]]
    /\ reopened = NoName

\* No handler is at work.  One runs on main's thread and to its end before main
\* goes on.
Alone == \A s \in Signal : hup[s].at # "opened"

Name == IF relative = "yes" THEN cwd ELSE "/"

\* open(logfilename, O_WRONLY | O_CREAT | O_APPEND): the file the name stands for
\* now, made if need be.
OpenLog(file) ==
    /\ Lowest # NoFd
    /\ \/ named[Name] = file /\ file # None /\ UNCHANGED <<named, made>>
       \/ /\ named[Name] = None /\ file = made + 1
          /\ made' = file /\ named' = [named EXCEPT ![Name] = file]
    /\ Occupy(Lowest, [obj |-> file, access |-> "write"])
    /\ UNCHANGED content

\* write(fd, pbase, pptr - pbase): what the buffer holds goes to the log.
WriteOut ==
    content' = [content EXCEPT ![fdt[filebuf.fd].obj] = @ \o SubSeq(mem, 1, pptr)]

-----------------------------------------------------------------------------
(* main                                                                    *)

\* -l, possibly again: open the file; when that fails, the program ends.
OptionLog ==
    /\ phase = "args" /\ Alone
    /\ \/ /\ \E file \in 1 .. MaxFile : OpenLog(file)
          /\ newfd' = Lowest /\ phase' = "swap"
       \/ phase' = "ended" /\ UNCHANGED <<fdt, newfd, diskVars>>
    /\ UNCHANGED <<relative, cwd, prepared, filebuf, savefd, bufVars, lineVars, hupVars>>

\* delete filebuf, if there is one: that closes its descriptor.
DeleteOld ==
    /\ phase = "swap" /\ Alone /\ phase' = "dangling"
    /\ IF filebuf.is = "open"
       THEN filebuf' = [filebuf EXCEPT !.is = "freed"] /\ Close(filebuf.fd)
       ELSE UNCHANGED <<filebuf, fdt>>
    /\ UNCHANGED <<relative, cwd, prepared, newfd, savefd, diskVars, bufVars, lineVars,
                   hupVars>>

\* Mutant: the new filebuf is not stored over a deleted one.
KeepOld ==
    /\ phase = "dangling" /\ Alone /\ phase' = "args"
    /\ filebuf' = IF filebuf.is = "freed" THEN filebuf ELSE [fd |-> newfd, is |-> "open"]
    /\ newfd' = NoFd
    /\ UNCHANGED <<relative, cwd, prepared, savefd, fdt, diskVars, bufVars, lineVars,
                   hupVars>>

\* filebuf = fb, and a new ostream on it.
StoreNew ==
    /\ phase = "dangling" /\ Alone /\ phase' = "args"
    /\ filebuf' = [fd |-> newfd, is |-> "open"] /\ newfd' = NoFd
    /\ UNCHANGED <<relative, cwd, prepared, savefd, fdt, diskVars, bufVars, lineVars,
                   hupVars>>

\* chdir(mountPoint), unchecked.
Chdir ==
    /\ phase = "args" /\ Alone /\ phase' = "chdir"
    /\ \/ cwd' = "mount" /\ prepared' = "yes"
       \/ UNCHANGED <<cwd, prepared>>
    /\ UNCHANGED <<relative, filebuf, newfd, savefd, fdt, diskVars, bufVars, lineVars,
                   hupVars>>

\* savefd = open(".", 0), unchecked.  Its object is the directory.
OpenDot ==
    /\ phase = "chdir" /\ Alone /\ phase' = "ready"
    /\ \/ /\ Lowest # NoFd /\ savefd' = Lowest /\ UNCHANGED prepared
          /\ Occupy(Lowest, [obj |-> IF cwd = "mount" THEN Mount ELSE None, access |-> "read"])
       \/ savefd' = NoFd /\ prepared' = "no" /\ UNCHANGED fdt
    /\ UNCHANGED <<relative, cwd, filebuf, newfd, diskVars, bufVars, lineVars, hupVars>>

\* fuse_main mounts, and goes to "/" unless -f was given; or it fails and returns.
Mounts ==
    /\ phase = "ready" /\ Alone
    /\ \/ phase' = "mounted" /\ cwd' \in {"root", cwd}
       \/ phase' = "closing" /\ UNCHANGED cwd
    /\ UNCHANGED <<relative, prepared, filebuf, newfd, savefd, fdt, diskVars, bufVars,
                   lineVars, hupVars>>

\* Mutant: savefd is closed and not used.
InitWithoutFchdir ==
    /\ phase = "mounted" /\ phase' = "serving"
    /\ IF savefd = NoFd THEN UNCHANGED fdt ELSE Close(savefd)
    /\ savefd' = NoFd
    /\ UNCHANGED <<relative, cwd, prepared, filebuf, newfd, diskVars, bufVars, lineVars,
                   hupVars>>

\* Mutant: savefd is not closed.
InitKeepsFd ==
    /\ phase = "mounted" /\ phase' = "serving"
    /\ IF savefd = NoFd THEN UNCHANGED cwd
       ELSE cwd' = IF fdt[savefd].obj = Mount THEN "mount" ELSE "start"
    /\ UNCHANGED <<relative, prepared, filebuf, newfd, savefd, fdt, diskVars, bufVars, lineVars,
                   hupVars>>

\* FSOperations::init, on a worker: fchdir(savefd) and close(savefd), unchecked.
\* (The number stays in savefd and is not used again.)
FsInit ==
    /\ phase = "mounted" /\ phase' = "serving"
    /\ IF savefd = NoFd THEN UNCHANGED <<cwd, fdt>>
       ELSE /\ cwd' = IF fdt[savefd].obj = Mount THEN "mount" ELSE "start"
            /\ Close(savefd)
    /\ savefd' = NoFd
    /\ UNCHANGED <<relative, prepared, filebuf, newfd, diskVars, bufVars, lineVars, hupVars>>

\* fuse_main returns when its threads are done.
Unmount ==
    /\ phase = "serving" /\ Alone /\ \A w \in Worker : writing[w] = Quiet
    /\ phase' = "closing"
    /\ UNCHANGED <<relative, cwd, prepared, filebuf, newfd, savefd, fdt, diskVars, bufVars,
                   lineVars, hupVars>>

\* filebuf->close(), which tries once more to write what a failed flush left.
CloseLog ==
    /\ phase = "closing" /\ Alone /\ phase' = "closed"
    /\ IF filebuf.is = "open"
       THEN /\ filebuf' = [filebuf EXCEPT !.is = "closed"] /\ Close(filebuf.fd)
            /\ WriteOut \/ (pptr # 0 /\ UNCHANGED content)
            /\ pptr' = 0
       ELSE UNCHANGED <<filebuf, fdt, content, pptr>>
    /\ UNCHANGED <<relative, cwd, prepared, newfd, savefd, named, made, mem, stream,
                   lineVars, hupVars>>

\* delete filebuf; the pointer keeps its value.
FreeLog ==
    /\ phase = "closed" /\ Alone /\ phase' = "freed"
    /\ filebuf' = IF filebuf.is = "closed" THEN [filebuf EXCEPT !.is = "freed"] ELSE filebuf
    /\ UNCHANGED <<relative, cwd, prepared, newfd, savefd, fdt, diskVars, bufVars,
                   lineVars, hupVars>>

\* The logger is deleted and main returns.
End ==
    /\ phase = "freed" /\ Alone /\ phase' = "ended"
    /\ UNCHANGED <<relative, cwd, prepared, filebuf, newfd, savefd, fdt, diskVars, bufVars,
                   lineVars, hupVars>>

Main == \/ OptionLog \/ DeleteOld \/ StoreNew \/ Chdir \/ OpenDot \/ Mounts \/ FsInit
        \/ Unmount \/ CloseLog \/ FreeLog \/ End

-----------------------------------------------------------------------------
(* reopenLogFile                                                           *)

\* The handler starts: the three tests, on what filebuf points to; then the
\* open, which may fail.  A deleted filebuf answers anything: "wild".  Handlers
\* do not overlap: signal() blocks SIGHUP in its handler, libfuse in its threads.
Reopen(s) ==
    /\ hup[s].at = "unsent" /\ phase # "ended" /\ Alone
    /\ \/ /\ filebuf.is \in {"null", "closed"}
          /\ hup' = [hup EXCEPT ![s].at = "done"]
          /\ UNCHANGED <<reopened, fdt, diskVars>>
       \/ /\ filebuf.is = "freed"
          /\ hup' = [hup EXCEPT ![s].at = "wild"]
          /\ UNCHANGED <<reopened, fdt, diskVars>>
       \/ /\ filebuf.is = "open"
          /\ \E file \in 1 .. MaxFile :
               OpenLog(file) /\ reopened' = [file |-> file, name |-> Name]
          /\ hup' = [hup EXCEPT ![s] = [at |-> "opened", fd |-> Lowest]]
       \/ /\ filebuf.is = "open"
          /\ hup' = [hup EXCEPT ![s].at = "done"]
          /\ UNCHANGED <<reopened, fdt, diskVars>>
    /\ UNCHANGED <<mainVars, bufVars, lineVars>>

\* Mutant: the descriptors are swapped.
Dup2Reversed(s) ==
    /\ hup[s].at = "opened"
    /\ Occupy(hup[s].fd, fdt[filebuf.fd])
    /\ hup' = [hup EXCEPT ![s].at = "done"]
    /\ UNCHANGED <<mainVars, diskVars, bufVars, lineVars, reopened>>

\* dup2(reopenfd, filebuf->fd()); reopenfd stays open.
Dup2(s) ==
    /\ hup[s].at = "opened"
    /\ Occupy(filebuf.fd, fdt[hup[s].fd])
    /\ hup' = [hup EXCEPT ![s].at = "done"]
    /\ UNCHANGED <<mainVars, diskVars, bufVars, lineVars, reopened>>

\* logrotate moves the file away.
LogRotate ==
    /\ phase = "serving" /\ made < MaxFile
    /\ \E d \in Names : /\ named[d] # None
                        /\ named' = [named EXCEPT ![d] = None]
                        /\ reopened' = IF reopened.name = d THEN NoName ELSE reopened
    /\ UNCHANGED <<mainVars, made, content, bufVars, lineVars, hup, fdt>>

-----------------------------------------------------------------------------
(* OstreamLogger::sendLogMessage on the worker threads: write into the      *)
(* buffer, flush it.                                                        *)

At(w, step) == writing[w].at = step
Go(w, step) == writing' = [writing EXCEPT ![w].at = step]

\* write: the stream must be good; load pptr.
WriteLoad(w) ==
    /\ phase = "serving" /\ filebuf.is = "open" /\ At(w, "quiet") /\ lines < MaxLine
    /\ lines' = lines + 1
    /\ writing' = IF stream = "bad" THEN writing
                  ELSE [writing EXCEPT ![w] = [at |-> "store", line |-> lines + 1, loaded |-> pptr]]
    /\ raced' = IF \A v \in Worker : At(v, "quiet") THEN raced ELSE "yes"
    /\ UNCHANGED <<mainVars, diskVars, bufVars, hupVars, logged, fdt>>

\* Mutant: no flush follows the line.
WriteUnflushed(w) ==
    /\ At(w, "store") /\ writing' = [writing EXCEPT ![w] = Quiet]
    /\ mem' = [mem EXCEPT ![writing[w].loaded + 1] = writing[w].line]
    /\ pptr' = writing[w].loaded + 1
    /\ logged' = logged \cup {writing[w].line}
    /\ UNCHANGED <<mainVars, diskVars, hupVars, stream, lines, raced, fdt>>

\* Copy the characters, store pptr.
WriteStore(w) ==
    /\ At(w, "store") /\ Go(w, "flush")
    /\ mem' = [mem EXCEPT ![writing[w].loaded + 1] = writing[w].line]
    /\ pptr' = writing[w].loaded + 1
    /\ UNCHANGED <<mainVars, diskVars, hupVars, stream, lines, logged, raced, fdt>>

\* flush.  A failure makes the stream bad, and nothing ever clears it; the line
\* stays in the buffer.
FlushWrite(w) ==
    /\ At(w, "flush")
    /\ \/ WriteOut /\ Go(w, "reset") /\ UNCHANGED stream
       \/ stream' = "bad" /\ writing' = [writing EXCEPT ![w] = Quiet] /\ UNCHANGED content
    /\ UNCHANGED <<mainVars, named, made, mem, pptr, hupVars, lines, logged, raced, fdt>>

\* pptr goes back to pbase.
FlushReset(w) ==
    /\ At(w, "reset") /\ writing' = [writing EXCEPT ![w] = Quiet]
    /\ pptr' = 0 /\ logged' = logged \cup {writing[w].line}
    /\ UNCHANGED <<mainVars, diskVars, hupVars, mem, stream, lines, raced, fdt>>

WriteLine(w) == WriteLoad(w) \/ WriteStore(w) \/ FlushWrite(w) \/ FlushReset(w)

SinkNext == Main \/ LogRotate \/ \E s \in Signal : Reopen(s) \/ Dup2(s)

-----------------------------------------------------------------------------
(* Properties.                                                             *)

\* Also: init has let go of savefd before the first request.
SinkTypeOK ==
    /\ phase \in {"args", "swap", "dangling", "chdir", "ready", "mounted", "serving", "closing",
                  "closed", "freed", "ended"}
    /\ {relative, prepared, raced} \subseteq {"yes", "no"}
    /\ cwd \in Names \ {"/"}
    /\ filebuf \in [fd : Fd \cup {NoFd}, is : {"null", "open", "closed", "freed"}]
    /\ {newfd, savefd} \subseteq Fd \cup {NoFd}
    /\ phase = "serving" => savefd = NoFd
    /\ named \in [Names -> 0 .. MaxFile] /\ made \in 0 .. MaxFile
    /\ content \in [1 .. MaxFile -> Seq(1 .. MaxLine)]
    /\ mem \in [1 .. MaxLine -> 0 .. MaxLine] /\ pptr \in 0 .. MaxLine
    /\ stream \in {"good", "bad"}
    /\ writing \in [Worker -> [at : {"quiet", "store", "flush", "reset"}, line : 0 .. MaxLine,
                               loaded : 0 .. MaxLine]]
    /\ lines \in 0 .. MaxLine /\ logged \subseteq 1 .. MaxLine
    /\ hup \in [Signal -> [at : {"unsent", "opened", "done", "wild"}, fd : Fd \cup {NoFd}]]
    /\ reopened \in [file : 0 .. MaxFile, name : Names]

Places(line) ==
    UNION {{<<i, k>> : k \in {j \in DOMAIN content[i] : content[i][j] = line}} : i \in 1 .. MaxFile}

\* A line that was logged stands in one log file, once, wherever SIGHUP and
\* logrotate came between its steps, and one whose flush failed stands in one at
\* most, from the end of main on - as long as no two threads have been in the
\* stream at once, which nothing prevents.
LinesOnce ==
    raced = "no" =>
        \A line \in 1 .. MaxLine :
            /\ Cardinality(Places(line)) <= 1
            /\ line \in logged => Places(line) # {}

\* After a SIGHUP, once its handler is done, the log goes to the file its name stood
\* for then, and until it is moved again that is the file under the name.
ReopenFollowsName ==
    reopened # NoName /\ Alone /\ filebuf.is = "open" =>
        fdt[filebuf.fd].obj = reopened.file /\ named[reopened.name] = reopened.file

\* Requests are served relative to the directory that was mounted over, as a daemon
\* or not, if chdir and open(".") did not fail unnoticed.
CwdIsBacking == phase = "serving" /\ prepared = "yes" => cwd = "mount"

\* The handler uses a deleted filebuf only between the deletes and the next
\* assignment or the end: on a second -l, and while main returns.
HandlerSound ==
    [][\A s \in Signal :
         hup[s].at = "unsent" /\ hup'[s].at = "wild" => phase \in {"dangling", "freed"}]_sinkVars
=============================================================================
