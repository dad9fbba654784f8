------------------------------- MODULE Rotate -------------------------------
(***************************************************************************)
(* cpplog's SizeRotateFileLogger and TimeRotateFileLogger.  Both open the  *)
(* next file with ios::out, which empties a file of that name, and start   *)
(* at log number 0 when they are constructed.  The size logger asks for    *)
(* the stream's position after each message, the time logger for the clock *)
(* before it.  A name is what the caller's function makes of the log number*)
(* or of the local time, which repeats when summer time ends.  Opening and *)
(* writing may fail; the clock may be set back; the program may end between*)
(* any two steps and start again.                                          *)
(***************************************************************************)
EXTENDS Integers, SequencesExt

CONSTANTS MaxSize,    \* m_maxSize
          Interval,   \* m_rotateInterval
          Sizes,      \* sizes of a message
          ULong,      \* number of values of an unsigned long
          Zones,      \* what localtime_r makes of the clock, by time zone
          MaxMsg, MaxClock, MaxRun   \* bounds of the model

ASSUME RotateAssumption ==
    /\ MaxSize \in Nat /\ Interval \in Nat /\ Sizes \subseteq Nat \ {0}
    /\ MaxMsg \in Nat /\ MaxClock \in Nat /\ MaxRun \in Nat \ {0}
    /\ ULong \in Nat /\ ULong > MaxClock + Interval
    /\ Zones \subseteq [0 .. MaxClock -> Nat]

None  == -1
NoMsg == [id |-> 0, size |-> 0]

VARIABLES
    kind,      \* "size", "time": the logger
    buildFunc, \* m_buildFunc: the name it makes of a log number and a time
    clock,
    pc,        \* "construct", "stamp", "idle", "write", "measure"
    msg,       \* the message being sent
    logNumber, lastRotateTime,   \* m_logNumber, m_lastRotateTime
    out,       \* m_outStream: the name of its file, None when none is open
    state,     \* m_outStream's state: "good", "failed" (failbit or badbit)
    files,     \* the files by name, empty where there is none
    sent,      \* messages logged so far, in all runs
    run, opened, wrote, steady
    \* ghosts: the number of this run of the program; the log number and the
    \* time of each file it has opened; what it has written since each; whether
    \* its clock never went back

logger == <<logNumber, lastRotateTime, out, state>>
vars == <<kind, buildFunc, clock, pc, msg, logger, files, sent, run, opened, wrote, steady>>

Names == (0 .. MaxMsg) \cup {local[c] : local \in Zones, c \in 0 .. MaxClock}
Message == [id : 1 .. MaxMsg, size : Sizes]
Size(file) ==
    LET upTo[i \in 0 .. Len(file)] == IF i = 0 THEN 0 ELSE upTo[i - 1] + file[i].size
    IN  upTo[Len(file)]

\* The number makes the name.
SizeNameFunc == [number \in 0 .. MaxMsg |-> [time \in 0 .. MaxClock |-> number]]

\* The local time makes the name, to the second and without its tm_isdst.
TimeNameFunc(local) == [number \in 0 .. MaxMsg |-> [time \in 0 .. MaxClock |-> local[time]]]

NameFuncs == {SizeNameFunc} \cup {TimeNameFunc(local) : local \in Zones}

\* The size logger's function is given no time.
Init ==
    /\ kind \in {"size", "time"} /\ buildFunc \in NameFuncs
    /\ kind = "size" => buildFunc = SizeNameFunc
    /\ clock = 0 /\ pc = "construct" /\ msg = NoMsg
    /\ logNumber = 0 /\ lastRotateTime = 0 /\ out = None /\ state = "good"
    /\ files = [n \in Names |-> <<>>]
    /\ sent = 0 /\ run = 1 /\ wrote = <<>> /\ opened = <<>> /\ steady = TRUE

-----------------------------------------------------------------------------
(* Opening the next file                                                   *)

FileName(number) == buildFunc[number][clock]

\* Mutant: the state is cleared whether or not the file could be opened.
ReopenCleared(number) ==
    /\ \/ /\ out' = FileName(number) /\ files' = [files EXCEPT ![FileName(number)] = <<>>]
          /\ opened' = Append(opened, [number |-> number, at |-> clock])
          /\ wrote' = Append(wrote, <<>>)
       \/ out' = None /\ UNCHANGED <<files, opened, wrote>>
    /\ state' = "good"

\* close, which flushes and sets failbit when no file is open; open, which
\* empties the file and clears the state, or sets failbit.
Reopen(number) ==
    \/ /\ out' = FileName(number) /\ files' = [files EXCEPT ![FileName(number)] = <<>>]
       /\ state' = "good"
       /\ opened' = Append(opened, [number |-> number, at |-> clock])
       /\ wrote' = Append(wrote, <<>>)
    \/ /\ out' = None /\ state' = "failed"
       /\ UNCHANGED <<files, opened, wrote>>

\* RotateLog; the time logger then reads the clock again.
RotateLog(number) == Reopen(number) /\ logNumber' = number

\* Mutant: the log number is used before it is incremented.
NextNumberLate == logNumber

\* m_logNumber++
NextNumber == logNumber + 1

\* The constructor "rotates" to the initial log.
Construct ==
    /\ pc = "construct"
    /\ RotateLog(0)
    /\ pc' = IF kind = "time" THEN "stamp" ELSE "idle"
    /\ UNCHANGED <<kind, buildFunc, clock, msg, lastRotateTime, sent, run, steady>>

\* ::time(&m_lastRotateTime), at the end of the time logger's RotateLog.
Stamp ==
    /\ pc = "stamp"
    /\ lastRotateTime' = clock
    /\ pc' = IF msg = NoMsg THEN "idle" ELSE "write"
    /\ UNCHANGED <<kind, buildFunc, clock, msg, logNumber, out, state, files, sent, run,
                   opened, wrote, steady>>

-----------------------------------------------------------------------------
(* sendLogMessage                                                          *)

\* The difference is converted to an unsigned long: negative, it is huge.
Elapsed == (clock - lastRotateTime) % ULong

\* Mutant: rotate also when the interval has just been reached.
DueAtOnce == Elapsed >= Interval

Due == Elapsed > Interval

Send ==
    /\ pc = "idle" /\ sent < MaxMsg
    /\ \E size \in Sizes : msg' = [id |-> sent + 1, size |-> size]
    /\ sent' = sent + 1
    /\ IF kind = "time" /\ Due
       THEN RotateLog(NextNumber) /\ pc' = "stamp"
       ELSE pc' = "write" /\ UNCHANGED <<logNumber, out, state, files, opened, wrote>>
    /\ UNCHANGED <<kind, buildFunc, clock, lastRotateTime, run, steady>>

\* OstreamLogger: write and flush.  A stream that is not good takes nothing;
\* a write that fails sets badbit.
Write ==
    /\ pc = "write"
    /\ \/ /\ state = "good"
          /\ files' = [files EXCEPT ![out] = Append(@, msg)]
          /\ wrote' = [wrote EXCEPT ![Len(wrote)] = Append(@, msg)] /\ UNCHANGED state
       \/ state' = "failed" /\ UNCHANGED <<files, wrote>>
    /\ pc' = IF kind = "size" THEN "measure" ELSE "idle"
    /\ msg' = NoMsg
    /\ UNCHANGED <<kind, buildFunc, clock, logNumber, lastRotateTime, out, sent, run, opened,
                   steady>>

\* Mutant: the file is measured without the last message.
TellpEarly == IF state = "failed" THEN -1 ELSE Size(Front(<<[size |-> 0]>> \o files[out]))

\* Mutant: a stream that has failed counts as full.
TellpUnsigned == IF state = "failed" THEN MaxSize + 1 ELSE Size(files[out])

\* m_outStream.tellp()
Tellp == IF state = "failed" THEN -1 ELSE Size(files[out])

\* The size logger rotates when the position is past the limit.
Measure ==
    /\ pc = "measure" /\ pc' = "idle"
    /\ IF Tellp > MaxSize THEN RotateLog(NextNumber)
                          ELSE UNCHANGED <<logNumber, out, state, files, opened, wrote>>
    /\ UNCHANGED <<kind, buildFunc, clock, msg, lastRotateTime, sent, run, steady>>

-----------------------------------------------------------------------------
(* The world                                                               *)

\* Only the time logger looks at the clock.
Tick == /\ kind = "time" /\ clock < MaxClock /\ clock' = clock + 1
        /\ UNCHANGED <<kind, buildFunc, pc, msg, logger, files, sent, run, opened, wrote, steady>>

SetBack == /\ kind = "time" /\ clock > 0 /\ clock' = clock - 1
           /\ steady' = FALSE
           /\ UNCHANGED <<kind, buildFunc, pc, msg, logger, files, sent, run, opened, wrote>>

\* The program ends, anywhere, and is started again; what was written was
\* flushed.
Restart ==
    /\ run < MaxRun /\ run' = run + 1
    /\ pc' = "construct" /\ msg' = NoMsg
    /\ logNumber' = 0 /\ lastRotateTime' = 0 /\ out' = None /\ state' = "good"
    /\ opened' = <<>> /\ wrote' = <<>> /\ steady' = TRUE
    /\ UNCHANGED <<kind, buildFunc, clock, files, sent>>

Next == Construct \/ Stamp \/ Send \/ Write \/ Measure \/ Tick \/ SetBack \/ Restart

Spec == Init /\ [][Next]_vars

-----------------------------------------------------------------------------
(* Properties.                                                             *)

\* Also: a stream that is good has a file.
TypeOK ==
    /\ kind \in {"size", "time"} /\ buildFunc \in NameFuncs
    /\ clock \in 0 .. MaxClock /\ pc \in {"construct", "stamp", "idle", "write", "measure"}
    /\ msg \in Message \cup {NoMsg}
    /\ logNumber \in 0 .. MaxMsg /\ lastRotateTime \in 0 .. MaxClock
    /\ out \in Names \cup {None} /\ state \in {"good", "failed"}
    /\ files \in [Names -> Seq(Message)]
    /\ sent \in 0 .. MaxMsg /\ run \in 1 .. MaxRun
    /\ opened \in Seq([number : 0 .. MaxMsg, at : 0 .. MaxClock])
    /\ wrote \in Seq(Seq(Message)) /\ steady \in BOOLEAN
    /\ pc # "construct" /\ state = "good" => out # None

\* The file an opening gave.
NameOf(opening) == buildFunc[opening.number][opening.at]

\* The name function gives no name twice to log numbers that rise and, for a time
\* logger whose clock is not set back, times that rise.  SizeNameFunc does so
\* always, TimeNameFunc where the local time does not repeat and only then.
Distinct ==
    \A m, n \in 0 .. MaxMsg, c, d \in 0 .. MaxClock :
        m < n /\ (kind = "time" /\ steady => c < d) => buildFunc[m][c] # buildFunc[n][d]

\* Rotating destroys nothing of this run, unless the name function is at fault:
\* each file holds what was written since it was opened, in order, each message
\* once, unless the name function repeats itself and the same name was opened
\* again.  The files of an earlier run are not safe.
RunKept ==
    \A i \in 1 .. Len(opened) :
        \/ files[NameOf(opened[i])] = wrote[i]
        \/ ~Distinct /\ \E j \in i + 1 .. Len(opened) : NameOf(opened[j]) = NameOf(opened[i])

\* The size logger exceeds its limit by no more than the last message of a
\* file, failures included, and leaves no full file open between messages.
SizeBounded ==
    kind = "size" =>
        \A i \in 1 .. Len(opened) :
            LET file == files[NameOf(opened[i])] IN
            /\ file # <<>> => Size(Front(file)) <= MaxSize
            /\ pc = "idle" /\ out = NameOf(opened[i]) /\ state = "good" => Size(file) <= MaxSize

\* The time logger opens a file only when the interval since the last has
\* passed, as long as the clock is not set back.  Set back, it makes the
\* difference huge and the logger rotates at once.
TimeSpread ==
    kind = "time" /\ steady =>
        \A i, j \in 1 .. Len(opened) : i < j => opened[j].at - opened[i].at > Interval

\* A size logger that could not open or write a file has no position to compare
\* any more: it never rotates, so it writes nothing until the program's next
\* start.  (The time logger tries again with the next interval.)
SizeStaysDead ==
    [][kind = "size" /\ state = "failed" /\ run' = run => state' = "failed" /\ UNCHANGED files]_vars
=============================================================================
