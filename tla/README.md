# LoggedFS in TLA+

LoggedFS mounts itself over a directory with FUSE, passes every operation on to
the directory underneath and writes a line about it. These modules model the
program as its code stands (`src/src/`), check the models with TLC on small
instances, and prove theorems about them with TLAPS for every instance. Paths
below are relative to the repository.

## The system

| Part | State | Operations | Works with |
|---|---|---|---|
| Request proxy, `FSOperations::proxy<N>` | per call: `LogMap lm`, `result`; per thread: `errno` | one callback per FUSE operation: ask the filters, call the handler, log, answer | libfuse's worker threads call it; it calls Config, the handlers and `Util::log` |
| Handlers, `FSOperations.cpp:496-867` | none of their own; the backing directory | one or two system calls each, answer 0, a count or `-errno` | the kernel, the process-wide current directory set in `init` |
| Directory handles, `loggedfs_dirp` | stream, offset, refused entry | `opendir`, `readdir`, `releasedir` | libfuse's `filler` |
| File handles, `fi->fh` | a descriptor | `open`, `create`, `read`, `write`, `read_buf`, `write_buf`, `flush`, `fsync`, `release` | the kernel |
| Configuration, `Config`, `Filter` | `enabled`, include and exclude lists, default format, the static bitset of `fuzzyShouldLog`, compiled patterns | loading from XML and options, `fuzzyShouldLog`, `shouldLog` | written by `main`, read by all threads |
| Log records, `Util::log`, `Format` | per call | choose the fields, render the line | Config, the logger |
| Start-up and shutdown, `loggedfs.cpp` | `Globals`: file name, `filebuf`, `logger`, `savefd` | `processArgs`, `main` | everything |
| Log sink | the `filebuf` and its descriptor | a line from each thread; `reopenLogFile` on SIGHUP | all threads and a signal handler, with no lock |
| cpplog | message buffers; queue; file numbers and times | `LogMessage`, stream loggers, Tee, Multiplex, Filtering, Background, Size/TimeRotate | LoggedFS uses `OstreamLogger` and `StdErrLogger`; the rest is the bundled library |

What is hard in it:

* `errno` is the only carrier of failure. It belongs to a thread that serves one
  request after another, is never cleared, is multiplied into replies (`return
  ::lstat(...)*errno`) and is read again, later, for the log line.
* Objects are made by the daemon's user and given to the caller in a second
  system call on the same path, while other threads work in the same directory.
* `readdir` keeps the entry that did not fit for the next call, which may
  continue, rewind or jump.
* All threads change one bitset without a lock, write one stream without a lock,
  and are interrupted by a signal handler that swaps its descriptor.
* `Filter`, copied member by member, shares patterns that were freed.
* File handles and the log take descriptors from one table, in which a
  descriptor closed too early is the next one given out.
* Whether a cpplog message may be deleted is an answer passed up a tree of
  loggers while another thread may already be deleting it.

What each part owes: the proxy, that a request is answered with the outcome of
its own system calls and logged as what it was answered; the make handlers, that
the caller owns what was made; the directory handle, that each listing depends
on the asked offset alone; the configuration, that lines appear exactly for the
requests the filters describe; the sink, that a line is written whole, once, to
the file the name stands for; a file handle, that it reaches its file until
`release`; a log record, that each specifier shows its own value; the background
logger, that every message is forwarded in order, once, before `Stop` returns,
and deleted once; the rotating loggers, that no rotation loses lines.

## The modules

    Operations <- Passthrough <- Proxy <- ProxyProofs
                                   \
                       Config ----- LoggedFS <- LoggedFSProofs   (composition)
                          \-- ConfigProofs
    DirListing <- DirStream <- DirStreamProofs
    Descriptors <- Handles, LogSink <- Process <- ProcessProofs   (composition)
    AsyncLog <- Background <- BackgroundProofs
    Rotate <- RotateProofs
    LogRecord <- LogRecordProofs

An arrow points to the module that is used. Each `MC...` module gives the
constants of the module of its name their values for TLC.

**Operations** - the operations sorted by the shape of their handlers.

**Proxy** - `FSOperations::proxy` and every callback of `getFuseOperations`. A thread goes
`idle`, `call` (in the handler), `lchown` (between the two system calls of a
make), `log` (the handler has returned, `Util::log` has not), `reply`.
`Dispatch` is the prologue; there is one action per shape of handler
(`Attribute` for `call(path)*errno`, `Descriptor` for `call(fd)*errno`,
`MakeNode`, `MakeLink`, `Rename`, `Readlink`, `Count`, ...), each a success or a
failure of the system call; `Log` is `Util::log` up to the decision; `Reply`
ends the call. `errno[t]` survives from request to request. `failed` and `made`
are ghosts: the errno of this request's own failing call, and the inode it made.
The directory maps names to inodes, and an inode has an owner; a failing system
call may fail with any errno in any state. Whether a line is wanted is a free
choice here: Config decides it.

**Passthrough** - the filesystem LoggedFS promises: a request takes effect at
one instant, or is refused without one. Three clauses are there because the code
does otherwise than a transparent filesystem would, and are marked: a make that
is refused may leave its object, `link` gives the inode away, and what `create`
makes is the daemon's. `Proxy!Seen` is the refinement mapping: a name that a
make has bound is hidden until its `lchown` has returned, so that the two system
calls appear as one effect, and the effect of every request appears when its
handler returns.

**Config** - `Config`, `Filter` and the two questions the proxy asks. Actions
before `Serve` load the lists; then each thread runs `fuzzyShouldLog` step by
step, with the load and the store of the bitset's word as separate actions, and
`shouldLog` as one (it writes nothing shared). A pattern is the set of strings
it matches, or `Null` if it did not compile. `intact` says whether the freed
blocks still hold the patterns: if not, any match may answer anything. The crash
that freeing twice can also cause is not modelled. The `Format*` of `Util::log` is
a format, `Unset` (nothing assigned, `PickDefault` with excludes alone) or
`Dangling` (`PickInclude`: the address of the format of the loop's own copy of
the filter, `Config.cpp:241-243`); what is read through the last two is not
followed.

**LoggedFS** - Proxy and Config together, with INSTANCE: the answer of
`fuzzyShouldLog` is what `Dispatch` begins the LogMap by, and `Log` asks
`shouldLog` with the return name that `errno` gives at that moment. The `pc` of
Config is `stage` here.

**DirListing** and **DirStream** - `DirListing` says what a directory handle
promises: an answer that is a function of the asked offset and the buffer's
room, cut short only when the backing directory cannot be read. `DirStream` is
`struct loggedfs_dirp` and the loop of `readdir` with `Fetch`
(`::readdir(d->dp)`) and `Offer` (`filler`). `DirStream!Listing` is the
refinement mapping: the call in progress is `asked`, and its answer appears when
the loop ends.

**Descriptors**, **Handles**, **LogSink**, **Process** - the process and its
descriptors. `Descriptors` is the kernel's table, which gives out the lowest
free number. `Handles` is `fi->fh`: `Open` (also `opendir`), `Create`,
`Release`, and the two handlers that hold a descriptor between two system calls,
`flush` (`FlushDup`, `CloseTaken`) and `mknod` (`MknodOpen`, `CloseTaken`).
`LogSink` is `loggedfs.cpp`: `main` step by step (`OptionLog`, `DeleteOld`,
`StoreNew` for -l, `Chdir`, `OpenDot`, `Mounts`, then `FSOperations::init` as
`FsInit`, and the end: `CloseLog`, `FreeLog`, `End`), `reopenLogFile` (`Reopen`
up to its `open`, `Dup2`) between any two steps, and a line's way through the
shared `filebuf`: `WriteLoad` and `WriteStore` (copy the characters, with `pptr`
read before and written after), `FlushWrite` (`write(2)`), `FlushReset`. What a
failed flush left in the buffer, `CloseLog` tries to write again, as libstdc++'s
`close` does. `logrotate` moves the file away. `Process` lets the worker threads do both, a
request and then its line. A deleted `filebuf` is `"freed"`; a handler that then
asks it is `"wild"` and not followed further.

**LogRecord** - one line: `Prologue` and `Handle` fill the LogMap (`operator<<`
inserts, and does not overwrite), `Log` adds what the format asks for, `Render`
is one round of `Format::render`'s loop, which takes the least of the places
still `Ahead` (`positionsformat` is a map ordered by place), and `Send` puts the
text through the fixed buffer of a LogMessage. Values are named by what they are,
their unit included, so that a value under a wrong specifier shows. It is about
lines rendered through a `Format` that is alive; by Config these are the ones
of the default format, without filters. A symlink's path is the text of the
link, as the handler names its arguments.

**AsyncLog** and **Background** - what background loggers promise, and
`concurrent_queue`, `BackgroundLogger`, Tee, Multiplex and the filtering loggers
in any arrangement (`logger`, a graph). A thread carries a message (`Entry`)
through the loggers it has yet to call (`todo`) and the answer so far (`del`);
`Enqueue` answers false, and `Rest` is what `deleteMessage && ...` still calls
after that: nothing. `Pending` is the refinement mapping of the queue, up to the
dummy item.

**Rotate** - `SizeRotateFileLogger` and `TimeRotateFileLogger`. `buildFunc` is
the caller's name function, one of those of the library's own tests:
`SizeNameFunc` makes the name of the log number, `TimeNameFunc(local)` of the
local time alone, where `local`, one of `Zones`, is what `localtime_r` makes of
the clock. It need not be one-to-one: when summer time ends it repeats. `Reopen`
is close and open, which empties the file; opens and writes may fail; the clock
may be set back; the program may end and start again between any two steps. The
ghosts `opened` and `wrote` list the files of this run as they were opened and
what has been written since each opening.

The modules named **...Proofs** hold the theorems.

## What the runs check

| Run | Result | Shows |
|---|---|---|
| `proxy` | holds | `ReplyIsOwnOutcome`, `ErrorLoggedAsFailure`, `MadeOwnedByCaller` over every interleaving of two threads, and that Proxy implements Passthrough (`Atomic`) |
| `proxy_stale_errno` | violated | a success is logged as FAILURE with an earlier request's errno (`Util.h:101`) |
| `proxy_readlink` | violated | a readlink that succeeds is answered with length times a stale errno (`FSOperations.cpp:515`) |
| `config` | holds | `DecisionExact`, `DecisionBounded`, `FormatChosen` for every loading order and every race on the bitset |
| `config_fuzzy` | violated | `fuzzyShouldLog` rejects what an include asks for (`Config.cpp:224`) |
| `loggedfs` | holds | `LoggedAsConfigured`: handler, errno and the two questions add up to the decision the configuration describes |
| `dirstream` | holds | `HandleCoherent`, that calls return, and that DirStream implements DirListing |
| `process` | holds | handles keep their file, every descriptor has one user, lines are written once, SIGHUP changes to the named file, requests are served from the directory that was mounted over, and where the handler may meet a deleted `filebuf` |
| `record` | holds | the value under each specifier, `render` against a definition place by place, and the cut of a long line |
| `background` | holds | messages are deleted once and never used afterwards, the order on the streams, and that every background logger implements AsyncLog, its `Stop` returning |
| `background_dummy` | violated | the dummy item is not always freed (`cpplog.hpp:995`, against `:1030`) |
| `rotate` | holds | no rotation of a run loses its lines unless two of its files get one name, the size and time limits, and that a size logger never recovers from a failed open or write |

Read the positive properties with what they leave out.

* `MadeOwnedByCaller` is about the makes that are followed by an `lchown`. `create`
  has none (`FSOperations.cpp:681`): its files are the daemon's, which Passthrough
  says in a clause of its own.
* `ReplyIsOwnOutcome` is not about the four handlers that drop errors, and
  allows `readlink` any value that is not negative. `ErrorLoggedAsFailure`
  excludes `fallocate` with a mode, which is refused without touching `errno`;
  it is about errors, because for successes the log is wrong.
* `DecisionExact` and `LoggedAsConfigured` state what the code does with
  includes alone: nothing is ever logged. That, and the empty filter that `-i` and
  `-x` add, are consequences of the code a user would call defects.
* `FormatChosen` says when a line has a `Format` to be rendered through at all:
  without filters, and only then. With excludes alone the pointer is one nobody
  assigned, with includes it dangles, and the format a filter has been given, as
  the usage text offers, is used by no line (`Config.cpp:241-243`): a defect.
* `HandleKeepsFile` lets a handle from `create` have a descriptor that only
  writes: the code calls `creat` whatever `fi->flags` ask for.
* `LinesOnce` holds until two threads are in the stream at once (`raced`). After
  that lines may be lost, doubled or replaced: `OstreamLogger` has no lock.
* `ReopenFollowsName` is about the name as it is looked up: a relative log name
  follows the directory that is served, not the one it was first opened in.
* `CwdIsBacking` leaves out that `chdir` or `open(".")` failed unnoticed
  (`prepared`).
* `DescriptorAccount` counts one descriptor left open per SIGHUP.
* `HandlerSound` names the two moments when a signal meets a deleted `filebuf`:
  a second `-l`, and the end of `main`.
* `FieldIsItsOwn` has exactly three exceptions (`Due`): a format with `[tid]`
  shows the thread where it asks for `[reqpid]`; `getxattr` and `listxattr` log
  the whole buffer of the caller; `utimens` files nanoseconds under
  `[modmicroseconds]` and `[acmicroseconds]`, where `FSOperations::utimens` itself
  divides by 1000 (`FSOperations.cpp:672`). All three are defects. (`utime` files
  0, right in every unit.)
  `RenderExact` says that only the first place of a specifier is filled in.
* `HeldOnce` counts the queue of a stopped logger as a holder: a message that is
  sent to it after `Stop` is never deleted, and lies there.
* `background_dummy` contradicts "The loop will free the dummy item for us"
  (`cpplog.hpp:1030`). When it is freed is a theorem, `DummyCorrect`: exactly
  unless the last message was kept by a background logger below. The loggers of
  a Tee or Multiplex behind one that keeps the message get nothing, though
  `cpplog.hpp:788` and `:838` say both, and all.
* `RunKept` says that a file holds what was written since it was opened, with one
  exception: the name function repeats itself (`Distinct` fails) and the name was
  opened again. A function of the number never does; one of the local time does
  when the clock is set back, and also, with a steady clock, when summer time
  ends. `TimeSpread` is about the clock and needs only that it is not set back.
  A restart empties the files of the run before.

Bounds. `MCProxy`: two threads, two names, two inodes, two users, errnos 2 and
95, lengths up to 1, and 20 requests that contain every shape of handler; any
two of them that the kernel lets run together do, in every order of steps. A
third thread adds no new kind of step, since all shared state is the directory
and pairs of requests already collide on it; two inodes are the fewest that let
a name be removed and rebound to another. `Residue` is what `errno` may be left
at between requests; leftovers of failed requests come on top. The two
violation runs of `MCProxy` take it empty, so that their counterexamples need nothing but a
failed request. Threads and inodes are symmetric, being told apart only by
equality. `MCConfig`: up to two filters in every order, enough for an include
and an exclude, two includes, or two excludes; two threads for the race on a
word; two actions so that a stale word can carry the other's bit; four requests
that differ in user, action or result. `MCLoggedFS`: one request that can
succeed or fail (`rename`) and one that always fails (`ioctl`), of two users,
with a filter that tells return names apart and the one of the command line.
`MCDirStream`: six entries and buffers of one to three, so that a directory
takes several calls, ends inside a buffer and at its edge, and every offset can
be asked for at any time. `MCProcess`: three descriptors, so that every `open`
and `dup` can find the table full, and one closed too early is given out again;
two workers, the fewest that overlap, and two signals, of which the second finds
what the first left open; two log files, one to be moved away; two lines.
`MCLogRecord`: every format of up to three tokens out of
eight, which has repeated specifiers, ones without a value before, between and
after others, and text at every place; a buffer of four tokens, so that lines
end before, at and past its capacity. `MCBackground`: five loggers in three
graphs - a Tee with a stream before a background logger, two background loggers
behind one Tee, two in a row - and two messages of different levels. `MCRotate`:
sizes below and above the limit, three messages, a clock up to 3 with an
interval of 1, two runs; a zone without summer time and one whose clocks go back
by two, so that a rotation between finds the name of an open file again. `ULong`
only has to exceed what the clock can reach.

Fairness. `DirStream` assumes weak fairness of `Fetch \/ Offer`: the loop waits
for nobody, so a call that libfuse has started goes on; `Call` and `Return` are
the kernel's and libfuse's, and are not assumed to happen. `Background` assumes
weak fairness of each background thread's work and of the return of `join` from
a thread that has ended; both are what the scheduler owes a runnable thread. The
threads that log, and the owners who call `Stop`, are not assumed to go on. The
loggers a background thread forwards to answer without waiting. No other
specification assumes any.

## What is assumed

* A system call sets `errno` when it fails and leaves it alone when it succeeds,
  except `posix_fallocate`, whose result the handler stores.
* In `call(...)*errno` the call comes first: so the compiler the Makefile names
  (`g++`) translates it, though the language leaves it open. `Product` reads
  `errno` after the call.
* `Compatible`: the kernel holds a directory's inode lock during an operation
  that changes its names, and libfuse's path lock keeps other requests off those
  names until the answer. Both are outside the repository. Nobody changes the
  backing directory behind the mount.
* A directory does not change while a handle lists it; `telldir`'s cookies stand
  for positions.
* The `init` callback has run before any request is served; the kernel sends
  `release` once, when no other call on the handle is in progress.
* The unsynchronised `filebuf` is a load of `pptr`, a copy, a store, a `write`
  and a reset, each atomic; a `write` takes all of the buffer or nothing. A failed
  one makes the stream bad for good, since nothing clears it, and leaves the line
  in the buffer for `close`.
* Handlers of SIGHUP do not overlap: `signal` blocks the signal while its handler
  runs, and libfuse blocks SIGHUP in its worker threads, so that only main's
  thread takes it. Before the workers start, and after they have ended, that is
  the one thread there is, and the handler runs to its end.
* libstdc++'s `open` clears a stream's state when it succeeds, as C++11 asks; a
  negative `double` cast to `unsigned long` wraps, as the x86-64 build does.
* Loggers are built before the loggers that forward to them and destroyed in the
  opposite order, when no message is under way.

## What is proved

All of it for arbitrary constants under the named assumptions below, which TLC
evaluates in the runs. They say what kind of thing a constant is, with few
exceptions: `Daemon` is a user, `Residue` holds numbers; `ConfigAssumption` has
root (user 0) among the users; `GraphAssumption` has each logger forward only to
loggers built before it; `RotateAssumption` has the
clock stay below the width of `unsigned long`; `RecordAssumption` has a buffer
of at least one place and formats made of texts and known specifiers. The others
are `LoggedFSAssumption`, `DirAssumption`, `FdAssumption`, `AskedAssumption` and
`BoundAssumption` (`MaxFile` and `MaxLine` are numbers).

*Proxy* (`ProxyProofs`). `TypeCorrect`, then `Invariance` for

    IInv == TypeOK /\ Exclusion /\ OutcomeInv /\ LogInv /\ ErrorLoggedAsFailure /\ MakeInv

The properties speak of the moment of the answer and are not inductive.
`OutcomeInv` carries the reply from the handler's return to the answer; it holds
because each handler's factor is 0 after a success, so the stale `errno`
vanishes, and -1 after a failure, when `errno` is fresh. `LogInv` says that
nothing touches `errno` between a failing call and `Util::log`, and that there
is no record earlier. `MakeInv` follows the inode a make has bound: its target
name leads to it and no other name does, up to the answer, and after the
`lchown` the caller owns it. That is stable because of `Exclusion`: any step of
another thread that could rebind the name, link the inode or change its owner
belongs to a request that is not compatible with the make. `ReplyCorrect`,
`ErrorLogCorrect` and `OwnershipCorrect` are the three properties.

*Atomicity* (`ProxyProofs`, second part). `Spec => Atomic`: Proxy implements
Passthrough. On top of `IInv` it needs `HalfInv`, what a make has done between
its two system calls. The first call of a make maps to no step, because the name it binds is
hidden; the `lchown` maps to the effect, granted or refused; every other handler
step maps to the effect of its request; `Log` maps to no step, `Dispatch` and
`Reply` to arrival and departure. The lemmas show one by one that a handler's
success is a `Grant` and its failure a `Deny` of the visible directory, for
which `Exclusion` says that no other thread's hidden name is involved.
Passthrough states no fairness, so the theorem is the whole refinement.

*Config* (`ConfigProofs`). `Invariance` for

    IInv == TypeOK /\ LoadedInv /\ BitInv /\ UndecidedInv
              /\ DecisionExact /\ DecisionBounded /\ FormatChosen

`BitInv` is why the race on the bitset cannot spoil a decision that could come
out otherwise: only configurations of includes alone ever set a bit or load a
word, and they log nothing. `UndecidedInv` carries from `fuzzyShouldLog` to
`shouldLog` that the configuration is enabled and, with includes alone, that no
include names the action, so that `shouldLog` finds none. `LoadedInv` says that
an include holds a format and that no bit is set before requests are served.
`OneThread` reduces a step to the thread that takes it.
`TypeCorrect`, `DecisionCorrect`, `BoundCorrect` and `FormatCorrect` are the
four properties.

*LoggedFS* (`LoggedFSProofs`). `LogAgrees` is `LoggedAsConfigured` for any
filters, requests and threads. Proxy and Config each have a program counter per
thread here, and the invariant is mostly about how the two go together:

    IInv == Types /\ Bits /\ \A t \in Threads : Own(t)
    Own(t) == Question(t) /\ Rejected(t) /\ InFlight(t) /\ OwnError(t) /\ Answer(t)

`Question` is how far `fuzzyShouldLog` has come and what it has found out;
`InFlight` says that a request beyond its prologue has been asked about under its
own action, and holds the keys of a line exactly when it is still to be judged;
`Rejected`, that a request that was told no early has a configuration that logs
nothing; `OwnError`, that between handler and answer `errno` is the error that is
answered; `Answer`, the property with what it needs. `ProxySimulated` says that
every behaviour of the two together is one of Proxy alone: what is proved of
Proxy, where the answers of the filters are free, holds with any configuration.

*DirStream* (`DirStreamProofs`). `TypeCorrect`; `HandleCorrect` from `TypeOK /\
HandleCoherent /\ ReplyInv`, where `ReplyInv` says that the answer so far is the
entries from `asked` up to `offset`; and `Refinement`: the initial state and
every step of the handle are an initial state and a step, or no step, of
DirListing. The one step with an argument is the end of the loop, where
`ReplyInv` turns the collected entries into DirListing's `Answer`.

*Process* (`ProcessProofs`). `Invariance` for

    IInv == Shape /\ InUse /\ LogApart /\ TakenApart /\ HandlesApart /\ Reaches
              /\ MainHolds /\ Backing /\ Stands /\ Relogs /\ Follows

`HandleKeepsFile` alone is not inductive: if `savefd` and a handle had the same
number, `init` would close the handle's. So the invariant says of every holder -
`newfd`, `savefd`, the open `filebuf`, each handler of SIGHUP, each `flush` and
`mknod` under way, each handle - that its descriptor is in use (`InUse`) and
that no other holder has it (`LogApart`, `TakenApart`, `HandlesApart`).
`LowestIsNobodys` then gives the step that matters: what `open` and `dup` return
belonged to nobody. Its base is `Least`, that a nonempty set of numbers has a
least one, which follows from the library's theorem on inclusion among finite
sets, applied to initial segments. `MainHolds` ties the descriptors to main's
progress, and with it where a deleted `filebuf` can be met. `Backing` follows
the directory through `savefd`. `Stands`, `Relogs` and `Follows` say who has the
file that the last SIGHUP opened: its handler alone, of which there is one at a
time, then the log, and that a second `-l` opens the same one. `HandlesCorrect`, `ReopenCorrect`,
`BackingCorrect` and `HandlerCorrect` are the properties of it alone.

Three more have an invariant of their own on top of `IInv`. `TypeCorrect`:
`TInv`, the types with `Buffered` - the buffer holds no more lines than were
begun and no gap, and a worker that has loaded `pptr` has a line of its own
beyond it, so that storing stays inside. `AccountCorrect`: `IInv` says that what
is held is open, `AInv` the converse, that what is open is held, and that what
main's next step or the next handler assigns is empty before; so the table is
the disjoint union of the holders' descriptors, and the cardinalities add up.
`LinesCorrect`: `FileInv`, that the log never writes to anything but a log file,
and `LInv`: until two threads have been in the stream at once, at most one
worker has a line under way, the buffer holds that line and nothing else, and it
stands in no file before its `write` and in one place from then on. With no line
under way the buffer is empty, or holds the one line of a flush that failed,
which stands nowhere (`LeftOver`): so what `close` writes is no second copy. A
`logrotate`, a SIGHUP between the steps, a failed `write` and a full table all
keep that.

*Background* (`BackgroundProofs`). `Invariance` for `Shape /\ Travel /\ Held`,
for every graph of loggers. `Held` is the accounting: before its statement runs
and after its deletion a message is nowhere, and in between it is with exactly
one thread that has not been told no, or at exactly one place of one queue.
`Travel` is why the answers of `sendLogMessage` keep it so: a thread that was
told no has no logger left to call, and dummies are never sent. `HeldCorrect`
and `UseCorrect` are the first two properties.

`DInv == Logged /\ Dummies` follows the dummy item: it is in the queue or in the
thread's hands from the push in `Stop` on, nothing ends without it, and only the
thread's end deletes it. With it `TypeCorrect`, and `LogSafety`, that every
background logger is an AsyncLog: what is pending is what the thread holds and
has not forwarded, followed by the queue up to the dummy. The lemmas are one for
each step: `Enqueue` appends to the pending messages or, behind the dummy, to
nothing; the thread's forward takes the first; all else leaves them alone.

`DummyCorrect` says what `background_dummy` shows one case of, when the dummy item
is freed (`DummyFreedUnlessKept`, which no run checks: it is stated and proved
here only). The question is what the dummy's own `deleteMessage` is, which the
thread left over from the last message. `KInv == Below /\ Settled /\
Untouched /\ Told`: a thread calls only loggers below its own; a message that is
still on its way has been taken over by no logger it has yet to reach; so the
flag says exactly whether a background logger below has taken the last one over.

`OrderCorrect` is `Spec /\ Tree(To) => []StreamsInOrder`: where no logger is
forwarded to from two places. Some hypothesis is needed: a background logger
over a filter and two more background loggers that end in one stream would see
its order change there. Of the graphs of `MCBackground` two are such trees; in the
third both background loggers end in one stream, but the first takes every
message over. `OrderInv` says that the
loggers a thread has yet to call lead to disjoint parts of the graph (`Ahead`),
where its message has not been (`Fresh`), that no line holds a message twice
(`Single`), that what has reached a logger was popped by every background logger
above (`Thru`), and that what stands in some order in a line or on a stream
stands so in every line above (`Ord`). Which loggers a logger leads to is a
recursive function over the graph; what is needed of it is shown by `Climb`,
induction on the number of the logger, which follows from the library's theorem
that inclusion among finite sets is well founded.

*Rotate* (`RotateProofs`). `Invariance` for `Shape /\ Fresh /\ Spread`; the
argument of `SpreadCorrect` is that the stamp is not older than any file opened
(`Spread`), so that the unsigned difference does not wrap (`NoWrap`) and bounds
the distance to all of them. `DeadCorrect` needs that only a size logger
measures, and that a run starts with a stream that has not failed. `TypeCorrect`
needs that a log number is used up by a message at least (`Counted`) and that
each opening has its record of what was written (`Recorded`).
`KeptCorrect` and `SizeCorrect` are from `KeptInv == Numbered /\ Latest /\ Clean
/\ RunKept /\ Filled`: the log numbers of the files opened rise (`Numbered`), and
the times of a time logger do by `Spread`, so a name function that is `Distinct`
gives the next file a name that no file of this run has (`NamesApart`; that of
the size logger is always so, `SizeDistinct`); the stream writes to the file
opened last (`Latest`), so file and record grow together; a file is over the
limit by its last message at most (`Filled`). Whether it is
distinct changes only when the clock is set back or a new run starts
(`DistinctStays`). The size
of a file is a sum, which takes one more message at the end by induction on the
length (`Sums`).

*LogRecord* (`LogRecordProofs`). `Invariance` for `VInv /\ RInv /\ LineWhole`.
`VInv` carries that each specifier has the value that is `Due` to it: a chain
of `operator<<` gives each key its first value, for a chain of any length
(`Gathered`, by induction on it), and the prologue comes before the handler and
`Util::log`. `RInv` is the loop of `render`: the text is right up to the last
place that was filled in, and none of the specifiers passed since has a value;
at the end of the loop that makes every place right (`RenderCorrect`). For
`LineCorrect` the text goes through `Streamed` and `Flush`: if the buffer had
room for the newline it is in it already, and if not `Flush` appends it or
overwrites the last place. `TypeCorrect` and `FieldCorrect` are the other two.

So every invariant and every action property of a run that holds is a theorem
(`StreamsInOrder` for graphs that are trees).
Only model-checked: that `readdir` and `Stop` return, which is liveness, and with
it the fairness halves of the refinements of DirListing and AsyncLog (the
safety halves are `Refinement` and `LogSafety`; `Atomic` has no other half); the
prover handles neither fairness nor ENABLED. The runs that end in a violation
are counterexamples and need no proof.

## What is not modelled

File contents, modes, times, extended attributes' values, and the text a symlink
stores (the code prefixes it with a dot, `FSOperations.cpp:626`); `lock`
requests have no case in the switch and are answered with 0, which is a step of
Proxy, but who then holds which lock is not followed. `read_buf` and `write_buf`
only describe or copy contents. A log file that lies under the mount itself,
whose every line would be a request that is logged. Several `-l` options that
name different files: in `LogSink` all of a command line name one. What is read
through a `Format*` that is unset or dangles, and a flush that writes part of its
buffer before it fails. The insertion into the
shared `actions` map by `operator[]` (`FSOperations.cpp:112`). The exit after a
fatal cpplog message, the prefix of cpplog's default format, and loggers owned
and deleted by a composite. The Scribe and debugger streams are wrappers of
other people's calls and stay out, as do the test programs and build files.

## Plan

What could follow, in the order of what it would tell:

1. LogRecord inside LoggedFS, so that a line's values are those of the request
   it is written for.
2. The nonatomic insertion into the shared `actions` map, which a request for an
   action that no filter names makes while other threads look names up.
3. Process with the contents of the records, so that a torn line shows which two
   requests it mixes.
