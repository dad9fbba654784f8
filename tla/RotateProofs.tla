---------------------------- MODULE RotateProofs ----------------------------
(***************************************************************************)
(* Proofs about Rotate, for every limit, interval, size of message, and    *)
(* any number of messages, seconds and runs: rotating keeps what was       *)
(* written, a file exceeds the limit by one message at most, a size logger *)
(* that failed stays dead, and a time logger spreads its files.            *)
(***************************************************************************)
EXTENDS Rotate, FiniteSetTheorems, SequenceTheorems, WellFoundedInduction, TLAPS

(* Dead and Spread                                                         *)

\* An opening of a file.
Opening == [number : Nat, at : Nat]

\* What the steps need to know of the types.
Shape ==
    /\ clock \in 0 .. MaxClock /\ lastRotateTime \in 0 .. MaxClock
    /\ pc \in {"construct", "stamp", "idle", "write", "measure"}
    /\ opened \in Seq(Opening) /\ logNumber \in Nat /\ sent \in Nat /\ run \in Nat

\* A run begins with a stream that has not failed, before its first file; only the
\* size logger measures.
Fresh == /\ pc = "construct" => state = "good" /\ opened = <<>> /\ lastRotateTime = 0
         /\ pc = "measure" => kind = "size"

\* A clock that is looked at and goes forward.
ByTime == kind = "time" /\ steady

\* The files of a time logger are more than an interval apart, and none is newer
\* than the last stamp; the newest is not yet stamped when the logger has just
\* opened it.
Spread ==
    ByTime =>
        /\ lastRotateTime =< clock
        /\ \A i, j \in 1 .. Len(opened) : i < j => opened[j].at - opened[i].at > Interval
        /\ \A i \in 1 .. Len(opened) :
              opened[i].at =< IF pc = "stamp" THEN clock ELSE lastRotateTime

\* The inductive invariant of the spread.
IInv == Shape /\ Fresh /\ Spread

\* The first run starts fresh.
LEMMA InitInv == Init => IInv
BY RotateAssumption DEF Init, IInv, Shape, Fresh, Spread, ByTime

\* The difference of the times wraps only when the clock has gone back.
LEMMA NoWrap ==
    ASSUME Shape, lastRotateTime =< clock
    PROVE  Elapsed = clock - lastRotateTime
<1>1. clock - lastRotateTime \in 0 .. ULong - 1 BY RotateAssumption DEF Shape
<1> QED BY <1>1, RotateAssumption DEF Elapsed

\* A file opened when its interval has passed is far from all others.
LEMMA Spreads ==
    ASSUME IInv, ByTime, pc # "stamp",
           opened = <<>> \/ Due, NEW number \in Nat,
           opened' = Append(opened, [number |-> number, at |-> clock])
    PROVE  /\ \A i, j \in 1 .. Len(opened') : i < j => opened'[j].at - opened'[i].at > Interval
           /\ \A i \in 1 .. Len(opened') : opened'[i].at =< clock
<1> DEFINE new == [number |-> number, at |-> clock]
<1>0. clock \in Nat /\ lastRotateTime \in Int /\ Interval \in Int
    BY RotateAssumption DEF IInv, Shape
<1>1. new \in Opening /\ new.at = clock BY <1>0 DEF Opening
<1>2. opened \in Seq(Opening) /\ opened' = Append(opened, new) BY DEF IInv, Shape
<1> HIDE DEF new
<1>3. /\ Len(opened') = Len(opened) + 1 /\ Len(opened) \in Nat
      /\ opened'[Len(opened) + 1] = new
      /\ \A i \in 1 .. Len(opened) : opened'[i] = opened[i] /\ opened[i] \in Opening
    BY <1>1, <1>2
<1>4. \A i \in 1 .. Len(opened) : opened[i].at \in Int BY <1>3 DEF Opening
<1>5. \A i \in 1 .. Len(opened) : opened[i].at =< lastRotateTime /\ opened[i].at =< clock
    BY <1>0, <1>4 DEF IInv, Spread
<1>6. \A i \in 1 .. Len(opened) : clock - opened[i].at > Interval
    <2>1. CASE opened = <<>> BY <2>1
    <2>2. CASE Due BY <1>0, <1>4, <1>5, <2>2, NoWrap DEF IInv, Spread, Due
    <2> QED BY <2>1, <2>2
<1>7. \A i, j \in 1 .. Len(opened) : i < j => opened[j].at - opened[i].at > Interval
    BY DEF IInv, Spread
<1>8. ASSUME NEW i \in 1 .. Len(opened'), NEW j \in 1 .. Len(opened'), i < j
      PROVE  opened'[j].at - opened'[i].at > Interval
    <2>1. i \in 1 .. Len(opened) BY <1>3, <1>8
    <2>2. CASE j = Len(opened) + 1 BY <1>1, <1>3, <1>6, <2>1, <2>2
    <2>3. CASE j \in 1 .. Len(opened) BY <1>3, <1>7, <1>8, <2>1, <2>3
    <2> QED BY <1>3, <2>2, <2>3
<1>9. \A i \in 1 .. Len(opened') : opened'[i].at =< clock BY <1>0, <1>1, <1>3, <1>5
<1> QED BY <1>8, <1>9

\* The times of the openings are numbers.
LEMMA AtIsInt ==
    ASSUME Shape
    PROVE  \A i \in 1 .. Len(opened) : opened[i].number \in Int /\ opened[i].at \in Int
<1>1. \A i \in 1 .. Len(opened) : opened[i] \in Opening BY DEF Shape
<1> QED BY <1>1 DEF Opening

\* Opening keeps the shape.
LEMMA ReopenShape ==
    ASSUME Shape, NEW number \in Nat, RotateLog(number)
    PROVE  opened' \in Seq(Opening) /\ logNumber' \in Nat
<1> DEFINE new == [number |-> number, at |-> clock]
<1>1. new \in Opening /\ opened \in Seq(Opening)
    BY RotateAssumption DEF Shape, Opening
<1>2. opened' = Append(opened, new) \/ opened' = opened BY DEF RotateLog, Reopen
<1>3. logNumber' = number BY DEF RotateLog
<1> HIDE DEF new
<1> QED BY <1>1, <1>2, <1>3

\* The inductive step.
LEMMA NextInv == IInv /\ [Next]_vars => IInv'
<1> SUFFICES ASSUME IInv, [Next]_vars PROVE IInv' OBVIOUS
<1> USE RotateAssumption
<1>0. NextNumber \in Nat BY DEF IInv, Shape, NextNumber
<1>1. CASE Construct
    <2>1. Shape' BY <1>1, ReopenShape DEF IInv, Shape, Construct
    <2>2. Fresh' BY <1>1 DEF Fresh, Construct
    <2>3. Spread'
        <3>1. CASE UNCHANGED opened
            BY <1>1, <3>1 DEF IInv, Shape, Fresh, Spread, ByTime, Construct
        <3>2. CASE opened' = Append(opened, [number |-> 0, at |-> clock])
            <4>1. SUFFICES ASSUME ByTime' PROVE Spread' BY DEF Spread
            <4>2. ByTime /\ opened = <<>> /\ pc # "stamp" /\ pc' = "stamp"
                BY <1>1, <4>1 DEF IInv, Fresh, Construct, ByTime
            <4>3. /\ \A i, j \in 1 .. Len(opened') : i < j => opened'[j].at - opened'[i].at > Interval
                  /\ \A i \in 1 .. Len(opened') : opened'[i].at =< clock
                BY <3>2, <4>2, Spreads
            <4>4. lastRotateTime = 0 /\ 0 =< clock BY <1>1 DEF IInv, Shape, Fresh, Construct
            <4>5. UNCHANGED <<clock, lastRotateTime>> BY <1>1 DEF Construct
            <4> QED BY <4>2, <4>3, <4>4, <4>5 DEF Spread
        <3> QED BY <1>1, <3>1, <3>2 DEF Construct, RotateLog, Reopen
    <2> QED BY <2>1, <2>2, <2>3 DEF IInv
<1>2. CASE Stamp
    BY <1>2 DEF IInv, Shape, Fresh, Spread, ByTime, Stamp
<1>3. CASE Send
    <2>1. Shape'
        BY <1>0, <1>3, ReopenShape DEF IInv, Shape, Send
    <2>2. Fresh' BY <1>3 DEF Send, IInv, Fresh
    <2>3. Spread'
        <3>1. CASE UNCHANGED opened
            <4>1. SUFFICES ASSUME ByTime PROVE Spread'
                BY <1>3 DEF Spread, ByTime, Send
            <4>2. \A i \in 1 .. Len(opened) : opened[i].at \in Int BY AtIsInt DEF IInv
            <4>3. \A i \in 1 .. Len(opened) :
                     opened[i].at =< lastRotateTime /\ opened[i].at =< clock
                BY <1>3, <4>1, <4>2 DEF IInv, Shape, Spread, Send
            <4>4. UNCHANGED <<clock, lastRotateTime>> BY <1>3 DEF Send
            <4> QED BY <3>1, <4>1, <4>3, <4>4 DEF IInv, Spread
        <3>2. CASE kind = "time" /\ Due /\ pc' = "stamp"
                   /\ opened' = Append(opened, [number |-> NextNumber, at |-> clock])
            <4>1. SUFFICES ASSUME ByTime' PROVE Spread' BY DEF Spread
            <4>2. ByTime /\ pc # "stamp" BY <1>3, <4>1 DEF Send, ByTime
            <4>3. /\ \A i, j \in 1 .. Len(opened') : i < j => opened'[j].at - opened'[i].at > Interval
                  /\ \A i \in 1 .. Len(opened') : opened'[i].at =< clock
                BY <1>0, <3>2, <4>2, Spreads
            <4> QED BY <1>3, <3>2, <4>2, <4>3 DEF Send, IInv, Spread
        <3> QED BY <1>3, <3>1, <3>2 DEF Send, RotateLog, Reopen
    <2> QED BY <2>1, <2>2, <2>3 DEF IInv
<1>4. CASE Write
    BY <1>4 DEF IInv, Shape, Fresh, Spread, ByTime, Write
<1>5. CASE Measure
    <2>1. Shape' BY <1>0, <1>5, ReopenShape DEF IInv, Shape, Measure
    <2>2. Fresh' BY <1>5 DEF IInv, Fresh, Measure
    <2>3. Spread' BY <1>5 DEF IInv, Fresh, Spread, ByTime, Measure
    <2> QED BY <2>1, <2>2, <2>3 DEF IInv
<1>6. CASE Tick
    <2>1. \A i \in 1 .. Len(opened) : opened[i].at \in Int BY AtIsInt DEF IInv
    <2> QED BY <1>6, <2>1 DEF IInv, Shape, Fresh, Spread, ByTime, Tick, logger
<1>7. CASE SetBack
    BY <1>7 DEF IInv, Shape, Fresh, Spread, ByTime, SetBack, logger
<1>8. CASE Restart
    BY <1>8 DEF IInv, Shape, Fresh, Spread, ByTime, Restart
<1>9. CASE UNCHANGED vars
    BY <1>9 DEF IInv, Shape, Fresh, Spread, ByTime, vars, logger
<1> QED BY <1>1, <1>2, <1>3, <1>4, <1>5, <1>6, <1>7, <1>8, <1>9 DEF Next

\* Types, the fresh start of a run, and the spread of the files, in every
\* reachable state.
THEOREM Invariance == Spec => []IInv
<1> QED BY InitInv, NextInv, PTL DEF Spec

\* A time logger whose clock is never set back opens no two files within an
\* interval, though an open may fail and the difference is an unsigned long.
THEOREM SpreadCorrect == Spec => []TimeSpread
<1>1. IInv => TimeSpread BY DEF IInv, Spread, ByTime, TimeSpread
<1> QED BY <1>1, Invariance, PTL

\* A size logger that could not open or write a file writes nothing more in its
\* run.
THEOREM DeadCorrect == Spec => SizeStaysDead
<1>1. ASSUME IInv, [Next]_vars, kind = "size", state = "failed", run' = run
      PROVE  state' = "failed" /\ UNCHANGED files
    <2>1. pc # "construct" BY <1>1 DEF IInv, Fresh
    <2>2. Tellp = -1 BY <1>1 DEF Tellp
    <2>3. CASE Measure BY <1>1, <2>2, <2>3, RotateAssumption DEF Measure
    <2>4. CASE Restart BY <1>1, <2>4 DEF Restart, IInv, Shape
    <2>5. CASE ~Measure /\ ~Restart
        BY <1>1, <2>1, <2>5 DEF Next, Construct, Stamp, Send, Write, Tick, SetBack, vars, logger
    <2> QED BY <2>3, <2>4, <2>5
<1>2. IInv /\ [Next]_vars =>
        [kind = "size" /\ state = "failed" /\ run' = run
            => state' = "failed" /\ UNCHANGED files]_vars
    BY <1>1
<1> QED BY <1>2, Invariance, PTL DEF Spec, SizeStaysDead

-----------------------------------------------------------------------------
(* Sizes                                                                   *)

\* A nonempty set of numbers has a least member.
LEMMA Least ==
    ASSUME NEW S \in SUBSET Nat, S # {}
    PROVE  \E x \in S : \A y \in S : x =< y
<1> DEFINE T == {0 .. k : k \in S}
<1>1. T \subseteq FiniteSubsetsOf(Nat)
    <2>1. ASSUME NEW k \in S PROVE 0 .. k \in SUBSET Nat /\ IsFiniteSet(0 .. k)
        <3>1. k \in Nat OBVIOUS
        <3>2. IsFiniteSet(0 .. k) BY <3>1, FS_Interval
        <3> QED BY <3>1, <3>2
    <2> QED BY <2>1 DEF FiniteSubsetsOf
<1>2. T # {} OBVIOUS
<1>3. IsWellFoundedOn(StrictSubsetOrdering(Nat), FiniteSubsetsOf(Nat))
    BY FS_StrictSubsetOrderingWellFounded
<1> HIDE DEF T
<1>4. PICK x \in T : \A y \in T : <<y, x>> \notin StrictSubsetOrdering(Nat)
    BY <1>1, <1>2, <1>3, WFMin
<1>5. PICK k \in S : x = 0 .. k BY DEF T
<1>6. ASSUME NEW y \in S PROVE k =< y
    <2>1. k \in Nat /\ y \in Nat OBVIOUS
    <2>2. SUFFICES ASSUME y < k PROVE FALSE BY <2>1
    <2>3. 0 .. y \in T BY DEF T
    <2>4. 0 .. y \subseteq 0 .. k /\ 0 .. y # 0 .. k
        <3>1. k \in 0 .. k /\ k \notin 0 .. y BY <2>1, <2>2
        <3>2. 0 .. y \subseteq 0 .. k BY <2>1, <2>2
        <3> QED BY <3>1, <3>2
    <2>5. 0 .. y \in SUBSET Nat /\ 0 .. k \in SUBSET Nat BY <2>1
    <2>6. <<0 .. y, 0 .. k>> \in StrictSubsetOrdering(Nat)
        BY <2>4, <2>5 DEF StrictSubsetOrdering
    <2> QED BY <1>4, <1>5, <2>3, <2>6
<1> QED BY <1>6

\* What holds of 0, and of i when it holds of i - 1, holds up to n.
LEMMA Climb ==
    ASSUME NEW n \in Nat, NEW P, 0 \in P,
           \A i \in 1 .. n : i - 1 \in P => i \in P
    PROVE  \A i \in 0 .. n : i \in P
<1> DEFINE S == {i \in 0 .. n : i \notin P}
<1>1. SUFFICES ASSUME S # {} PROVE FALSE OBVIOUS
<1>2. S \in SUBSET Nat OBVIOUS
<1>3. PICK x \in S : \A y \in S : x =< y BY <1>1, <1>2, Least
<1>4. x \in 1 .. n /\ x \notin P OBVIOUS
<1>5. x - 1 \in 0 .. n /\ x - 1 \notin S BY <1>3, <1>4
<1> QED BY <1>4, <1>5

\* f is the sum of the sizes of s up to each position, n the last.
Sums(s, n, f) == f = [i \in 0 .. n |-> IF i = 0 THEN 0 ELSE f[i - 1] + s[i].size]

\* There is such a function.
LEMMA SumsExist ==
    ASSUME NEW s \in Seq(Message)
    PROVE  \E f : Sums(s, Len(s), f)
<1> DEFINE P == {k \in 0 .. Len(s) : \E f : Sums(s, k, f)}
<1>0. Len(s) \in Nat OBVIOUS
<1>1. 0 \in P
    <2>1. Sums(s, 0, [i \in 0 .. 0 |-> 0]) BY DEF Sums
    <2> QED BY <1>0, <2>1
<1>2. ASSUME NEW k \in 1 .. Len(s), k - 1 \in P PROVE k \in P
    <2>1. PICK f : Sums(s, k - 1, f) BY <1>2
    <2> DEFINE g == [i \in 0 .. k |-> IF i = k THEN f[k - 1] + s[k].size ELSE f[i]]
    <2>2. Sums(s, k, g) BY <1>0, <2>1 DEF Sums
    <2> QED BY <2>2
<1> HIDE DEF P
<1>3. \A i \in 0 .. Len(s) : i \in P BY <1>0, <1>1, <1>2, Climb
<1>4. Len(s) \in 0 .. Len(s) BY <1>0
<1>5. Len(s) \in P BY <1>3, <1>4
<1> QED BY <1>0, <1>5 DEF P

\* The sums of two sequences agree as far as the sequences do.
LEMMA SumsAgree ==
    ASSUME NEW s \in Seq(Message), NEW t, NEW f, NEW g, NEW n \in Nat,
           Len(s) =< n, \A i \in 1 .. Len(s) : t[i] = s[i],
           Sums(s, Len(s), f), Sums(t, n, g)
    PROVE  f[Len(s)] \in Nat /\ f[Len(s)] = g[Len(s)]
<1> DEFINE P == {k \in 0 .. Len(s) : f[k] \in Nat /\ f[k] = g[k]}
<1>0. Len(s) \in Nat OBVIOUS
<1>1. 0 \in P BY <1>0 DEF Sums
<1>2. ASSUME NEW k \in 1 .. Len(s), k - 1 \in P PROVE k \in P
    <2>0. s[k] \in Message OBVIOUS
    <2>1. s[k].size \in Nat BY <2>0, RotateAssumption DEF Message
    <2>2. k \in 0 .. Len(s) /\ k \in 0 .. n /\ k # 0 BY <1>0
    <2>3. f[k] = f[k - 1] + s[k].size BY <2>2 DEF Sums
    <2>4. g[k] = g[k - 1] + t[k].size BY <2>2 DEF Sums
    <2> QED BY <1>2, <2>1, <2>2, <2>3, <2>4
<1> HIDE DEF P
<1>3. \A i \in 0 .. Len(s) : i \in P BY <1>0, <1>1, <1>2, Climb
<1>4. Len(s) \in 0 .. Len(s) BY <1>0
<1>5. Len(s) \in P BY <1>3, <1>4
<1> QED BY <1>0, <1>5 DEF P

\* The size of a file is the last of its sums.
LEMMA SizeSums ==
    ASSUME NEW s \in Seq(Message)
    PROVE  \E f : Sums(s, Len(s), f) /\ Size(s) = f[Len(s)]
<1> DEFINE f == CHOOSE h : Sums(s, Len(s), h)
<1>1. Sums(s, Len(s), f) BY SumsExist
<1>2. Size(s) = f[Len(s)] BY DEF Size, Sums
<1> QED BY <1>1, <1>2

\* A size is a number.
LEMMA SizeIsNat ==
    ASSUME NEW s \in Seq(Message)
    PROVE  Size(s) \in Nat
<1>1. PICK f : Sums(s, Len(s), f) /\ Size(s) = f[Len(s)] BY SizeSums
<1>2. Len(s) \in Nat OBVIOUS
<1>3. f[Len(s)] \in Nat BY <1>1, <1>2, SumsAgree
<1> QED BY <1>1, <1>3

\* An empty file has no size.
LEMMA SizeEmpty == Size(<<>>) = 0
<1>1. <<>> \in Seq(Message) /\ Len(<<>>) = 0 OBVIOUS
<1>2. PICK h : Sums(<<>>, 0, h) /\ Size(<<>>) = h[0] BY <1>1, SizeSums
<1> QED BY <1>2 DEF Sums

\* Appending to a sequence of a set.
LEMMA Appended ==
    ASSUME NEW T, NEW s \in Seq(T), NEW x \in T
    PROVE  /\ Append(s, x) \in Seq(T) /\ Append(s, x) # <<>>
           /\ Len(Append(s, x)) = Len(s) + 1 /\ Len(s) \in Nat
           /\ Append(s, x)[Len(s) + 1] = x
           /\ \A i \in 1 .. Len(s) : Append(s, x)[i] = s[i]
OBVIOUS

\* Replacing an item of a sequence of a set.
LEMMA Replaced ==
    ASSUME NEW T, NEW s \in Seq(T), NEW k \in 1 .. Len(s), NEW x \in T
    PROVE  [s EXCEPT ![k] = x] \in Seq(T) /\ Len([s EXCEPT ![k] = x]) = Len(s)
BY ExceptSeq

\* All but the last.
LEMMA SizeFront ==
    ASSUME NEW s \in Seq(Message), NEW m \in Message
    PROVE  Front(Append(s, m)) = s
BY DEF Front

-----------------------------------------------------------------------------
(* Types                                                                   *)

\* A log number is used up by a message at least; only the size logger measures,
\* only the time logger stamps, and a size logger's names are numbers.
Counted ==
    /\ kind = "size" => buildFunc = SizeNameFunc
    /\ logNumber =< sent
    /\ kind = "size" /\ pc \in {"write", "measure"} => logNumber < sent
    /\ pc = "write" => msg # NoMsg
    /\ pc = "stamp" => kind = "time"

\* There is a record of what was written for each opening, and an opening for a stream
\* that is good.
Recorded ==
    /\ Len(wrote) = Len(opened)
    /\ state = "good" /\ pc # "construct" => opened # <<>>

\* The types are inductive with the counts and the records.
TypeInv == TypeOK /\ Counted /\ Recorded

\* The first run starts well typed.
LEMMA InitTypes == Init => TypeInv
BY RotateAssumption DEF Init, TypeInv, TypeOK, Counted, Recorded, NoMsg, None, Names

\* The name function gives a name; the size logger's gives the number.
LEMMA NameIsName ==
    ASSUME TypeInv, NEW n \in 0 .. MaxMsg, NEW c \in 0 .. MaxClock
    PROVE  buildFunc[n][c] \in Names /\ (kind = "size" => buildFunc[n][c] = n)
<1>1. CASE buildFunc = SizeNameFunc BY <1>1 DEF SizeNameFunc, Names
<1>2. CASE \E local \in Zones : buildFunc = TimeNameFunc(local)
    <2>1. PICK local \in Zones : buildFunc = TimeNameFunc(local) BY <1>2
    <2>2. buildFunc[n][c] = local[c] BY <2>1 DEF TimeNameFunc
    <2>3. buildFunc[n][c] \in Names BY <2>2 DEF Names
    <2> QED BY <1>1, <2>3 DEF TypeInv, Counted
<1> QED BY <1>1, <1>2 DEF TypeInv, TypeOK, NameFuncs

\* No name is "no file".
LEMMA NoName == None \notin Names
BY RotateAssumption DEF None, Names

\* Opening keeps the types.
LEMMA ReopenTypes ==
    ASSUME TypeInv, NEW n \in 0 .. MaxMsg, Reopen(n)
    PROVE  /\ out' \in Names \cup {None} /\ state' \in {"good", "failed"}
           /\ files' \in [Names -> Seq(Message)]
           /\ opened' \in Seq([number : 0 .. MaxMsg, at : 0 .. MaxClock])
           /\ wrote' \in Seq(Seq(Message)) /\ Len(wrote') = Len(opened')
           /\ state' = "good" => out' # None /\ opened' # <<>>
<1> DEFINE T == [number : 0 .. MaxMsg, at : 0 .. MaxClock]
           F == Seq(Message)
           new == [number |-> n, at |-> clock]
<1>1. FileName(n) \in Names /\ FileName(n) # None
    BY NameIsName, NoName DEF FileName, TypeInv, TypeOK
<1>2. new \in T /\ <<>> \in F BY DEF TypeInv, TypeOK
<1>3. opened \in Seq(T) /\ files \in [Names -> F] /\ wrote \in Seq(F) /\ Len(wrote) = Len(opened)
    BY DEF TypeInv, TypeOK, Recorded
<1>4. CASE UNCHANGED <<files, opened, wrote>> /\ state' = "failed" /\ out' = None
    BY <1>3, <1>4
<1>5. CASE /\ out' = FileName(n) /\ files' = [files EXCEPT ![FileName(n)] = <<>>]
           /\ state' = "good" /\ opened' = Append(opened, new) /\ wrote' = Append(wrote, <<>>)
    <2> HIDE DEF T, F, new
    <2>1. opened' \in Seq(T) /\ opened' # <<>> /\ Len(opened') = Len(opened) + 1
        BY <1>2, <1>3, <1>5, Appended
    <2>2. wrote' \in Seq(F) /\ Len(wrote') = Len(wrote) + 1 BY <1>2, <1>3, <1>5, Appended
    <2>3. files' \in [Names -> F] BY <1>2, <1>3, <1>5
    <2> QED BY <1>1, <1>3, <1>5, <2>1, <2>2, <2>3 DEF T, F
<1> QED BY <1>4, <1>5 DEF Reopen

\* Every opening has a number, a time and a name.
LEMMA OpeningTypes ==
    ASSUME TypeInv, NEW i \in 1 .. Len(opened)
    PROVE  /\ opened[i].number \in 0 .. MaxMsg /\ opened[i].at \in 0 .. MaxClock
           /\ NameOf(opened[i]) \in Names
<1> DEFINE T == [number : 0 .. MaxMsg, at : 0 .. MaxClock]
<1>0. opened \in Seq(T) BY DEF TypeInv, TypeOK
<1> HIDE DEF T
<1>a. opened[i] \in T BY <1>0
<1>1. opened[i] \in [number : 0 .. MaxMsg, at : 0 .. MaxClock] BY <1>a DEF T
<1>2. opened[i].number \in 0 .. MaxMsg /\ opened[i].at \in 0 .. MaxClock BY <1>1
<1> QED BY <1>2, NameIsName DEF NameOf

\* Every step keeps the types.
LEMMA StepTypes ==
    ASSUME IInv, TypeInv, [Next]_vars
    PROVE  TypeInv'
<1> USE RotateAssumption
<1>0. NoMsg \notin Message BY DEF NoMsg, Message
<1>1. CASE Construct
    <2>1. 0 \in 0 .. MaxMsg OBVIOUS
    <2>2. Reopen(0) /\ logNumber' = 0 BY <1>1 DEF Construct, RotateLog
    <2>3. TypeOK' /\ Recorded'
        BY <1>1, <2>1, <2>2, ReopenTypes DEF TypeInv, TypeOK, Recorded, Construct
    <2> QED BY <1>1, <2>2, <2>3 DEF TypeInv, TypeOK, Counted, Construct
<1>2. CASE Stamp BY <1>2 DEF TypeInv, TypeOK, Counted, Recorded, Stamp
<1>3. CASE Send
    <2>1. msg' \in Message /\ sent' = sent + 1 /\ sent' \in 0 .. MaxMsg
        BY <1>3 DEF TypeInv, TypeOK, Send, Message
    <2>2. msg' # NoMsg BY <1>0, <2>1
    <2>3. CASE kind = "time" /\ RotateLog(NextNumber) /\ pc' = "stamp"
        <3>1. NextNumber \in 0 .. MaxMsg /\ NextNumber =< sent'
            BY <2>1 DEF TypeInv, TypeOK, Counted, NextNumber
        <3>2. Reopen(NextNumber) /\ logNumber' = NextNumber BY <2>3 DEF RotateLog
        <3>3. /\ out' \in Names \cup {None} /\ state' \in {"good", "failed"}
              /\ files' \in [Names -> Seq(Message)]
              /\ opened' \in Seq([number : 0 .. MaxMsg, at : 0 .. MaxClock])
              /\ wrote' \in Seq(Seq(Message)) /\ Len(wrote') = Len(opened')
              /\ state' = "good" => out' # None /\ opened' # <<>>
            BY <3>1, <3>2, ReopenTypes
        <3>4. TypeOK' BY <1>3, <2>1, <2>3, <3>1, <3>2, <3>3 DEF TypeInv, TypeOK, Send
        <3>5. Counted' BY <1>3, <2>1, <2>2, <2>3, <3>1, <3>2 DEF TypeInv, Counted, Send
        <3> QED BY <3>3, <3>4, <3>5 DEF TypeInv, Recorded
    <2>4. CASE pc' = "write" /\ UNCHANGED <<logNumber, out, state, files, opened, wrote>>
        BY <1>3, <2>1, <2>2, <2>4 DEF TypeInv, TypeOK, Counted, Recorded, Send
    <2> QED BY <1>3, <2>3, <2>4 DEF Send
<1>4. CASE Write
    <2>1. msg \in Message BY <1>4 DEF Write, TypeInv, TypeOK, Counted
    <2>2. wrote' \in Seq(Seq(Message)) /\ Len(wrote') = Len(wrote)
        <3>1. wrote \in Seq(Seq(Message)) BY DEF TypeInv, TypeOK
        <3>2. CASE UNCHANGED wrote BY <3>1, <3>2
        <3>3. CASE state = "good" /\ wrote' = [wrote EXCEPT ![Len(wrote)] = Append(@, msg)]
            <4> DEFINE F == Seq(Message)
            <4>1. opened # <<>> /\ Len(wrote) = Len(opened)
                BY <1>4, <3>3 DEF Write, TypeInv, Recorded
            <4>2. Len(wrote) \in 1 .. Len(wrote)
                BY <3>1, <4>1 DEF TypeInv, TypeOK
            <4>3. wrote[Len(wrote)] \in F BY <3>1, <4>2
            <4>4. Append(wrote[Len(wrote)], msg) \in F BY <2>1, <4>3, Appended
            <4>5. wrote \in Seq(F) BY <3>1
            <4> HIDE DEF F
            <4>6. wrote' \in Seq(F) /\ Len(wrote') = Len(wrote)
                BY <3>3, <4>2, <4>4, <4>5, Replaced
            <4> QED BY <4>6 DEF F
        <3> QED BY <1>4, <3>2, <3>3 DEF Write
    <2>3. files' \in [Names -> Seq(Message)]
        <3>1. CASE UNCHANGED files BY <3>1 DEF TypeInv, TypeOK
        <3>2. CASE state = "good" /\ files' = [files EXCEPT ![out] = Append(@, msg)]
            <4>1. out \in Names BY <1>4, <3>2 DEF Write, TypeInv, TypeOK
            <4>2. files[out] \in Seq(Message) BY <4>1 DEF TypeInv, TypeOK
            <4>3. Append(files[out], msg) \in Seq(Message) BY <2>1, <4>2, Appended
            <4> QED BY <3>2, <4>1, <4>3 DEF TypeInv, TypeOK
        <3> QED BY <1>4, <3>1, <3>2 DEF Write
    <2>4. TypeOK' BY <1>4, <2>1, <2>2, <2>3 DEF Write, TypeInv, TypeOK
    <2>5. Counted' /\ Recorded' BY <1>4, <2>2 DEF Write, TypeInv, Counted, Recorded
    <2> QED BY <2>4, <2>5 DEF TypeInv
<1>5. CASE Measure
    <2>1. CASE RotateLog(NextNumber)
        <3>1. NextNumber \in 0 .. MaxMsg /\ NextNumber =< sent
            BY <1>5 DEF TypeInv, TypeOK, Counted, NextNumber, Measure, IInv, Fresh
        <3>2. Reopen(NextNumber) /\ logNumber' = NextNumber BY <2>1 DEF RotateLog
        <3>3. TypeOK' /\ Recorded'
            BY <1>5, <3>1, <3>2, ReopenTypes DEF TypeInv, TypeOK, Recorded, Measure
        <3> QED BY <1>5, <3>1, <3>2, <3>3 DEF TypeInv, Counted, Measure
    <2>2. CASE UNCHANGED <<logNumber, out, state, files, opened, wrote>>
        BY <1>5, <2>2 DEF TypeInv, TypeOK, Counted, Recorded, Measure
    <2> QED BY <1>5, <2>1, <2>2 DEF Measure
<1>6. CASE Tick BY <1>6 DEF TypeInv, TypeOK, Counted, Recorded, Tick, logger
<1>7. CASE SetBack
    <2>1. clock' \in 0 .. MaxClock BY <1>7 DEF TypeInv, TypeOK, SetBack
    <2>2. steady' \in BOOLEAN BY <1>7 DEF SetBack
    <2>3. UNCHANGED <<kind, buildFunc, pc, msg, logNumber, lastRotateTime, out, state, files,
                      sent, run, opened, wrote>>
        BY <1>7 DEF SetBack, logger
    <2>4. TypeOK' BY <2>1, <2>2, <2>3 DEF TypeInv, TypeOK
    <2> QED BY <2>3, <2>4 DEF TypeInv, Counted, Recorded
<1>8. CASE Restart
    <2>1. /\ <<>> \in Seq(Seq(Message)) /\ <<>> \in Seq([number : 0 .. MaxMsg, at : 0 .. MaxClock])
        OBVIOUS
    <2> QED BY <1>8, <2>1 DEF TypeInv, TypeOK, Counted, Recorded, Restart
<1>9. CASE UNCHANGED vars BY <1>9 DEF TypeInv, TypeOK, Counted, Recorded, vars, logger
<1> QED BY <1>1, <1>2, <1>3, <1>4, <1>5, <1>6, <1>7, <1>8, <1>9 DEF Next

\* Types; a stream that is good has a file.
THEOREM TypeCorrect == Spec => []TypeOK
<1>1. IInv /\ TypeInv /\ [Next]_vars => TypeInv' BY StepTypes
<1>2. TypeInv => TypeOK BY DEF TypeInv
<1> QED BY InitTypes, <1>1, <1>2, Invariance, PTL DEF Spec

-----------------------------------------------------------------------------
(* What is kept                                                            *)

\* The log numbers of the files rise.
Numbered ==
    /\ \A i \in 1 .. Len(opened) : opened[i].number =< logNumber
    /\ \A i, j \in 1 .. Len(opened) : i < j => opened[i].number < opened[j].number
\* The file the stream writes is the one opened last.
Latest == state = "good" /\ pc # "construct" => out = NameOf(opened[Len(opened)])
\* A run has used no log number before it has opened its first file.
Clean == pc = "construct" => logNumber = 0
\* A file is over the limit by its last message at most, and the newest one is not
\* over it except when it waits to be measured.
Filled ==
    kind = "size" =>
        \A i \in 1 .. Len(opened) :
            LET file == files[NameOf(opened[i])] IN
            /\ file # <<>> => Size(Front(file)) =< MaxSize
            /\ i = Len(opened) /\ state = "good" /\ pc # "measure" => Size(file) =< MaxSize

\* Why the messages stay: numbers that rise, and times that do.
KeptInv == Numbered /\ Latest /\ Clean /\ RunKept /\ Filled

\* Nothing is written at the start.
LEMMA InitKept == Init => KeptInv
BY DEF Init, KeptInv, Numbered, Latest, Clean, RunKept, Filled

\* The size logger's names are distinct.
LEMMA SizeDistinct == TypeInv /\ kind = "size" => Distinct
<1> SUFFICES ASSUME TypeInv, kind = "size" PROVE Distinct OBVIOUS
<1>1. \A n \in 0 .. MaxMsg, c \in 0 .. MaxClock : buildFunc[n][c] = n BY NameIsName
<1> QED BY <1>1, RotateAssumption DEF Distinct

\* The files of a run have different names if the name function allows it.
LEMMA NamesApart ==
    ASSUME IInv, TypeInv, Numbered, Distinct,
           NEW i \in 1 .. Len(opened), NEW j \in 1 .. Len(opened), i < j
    PROVE  NameOf(opened[i]) # NameOf(opened[j])
<1>1. opened[i].number < opened[j].number BY DEF Numbered
<1>2. ByTime => opened[i].at < opened[j].at
    <2>1. opened[i].at \in Int /\ opened[j].at \in Int BY AtIsInt DEF IInv
    <2>2. ByTime => opened[j].at - opened[i].at > Interval BY DEF IInv, Spread
    <2> QED BY <2>1, <2>2, RotateAssumption
<1>3. /\ opened[i].number \in 0 .. MaxMsg /\ opened[j].number \in 0 .. MaxMsg
      /\ opened[i].at \in 0 .. MaxClock /\ opened[j].at \in 0 .. MaxClock
    BY OpeningTypes
<1> QED BY <1>1, <1>2, <1>3 DEF Distinct, ByTime, NameOf

\* Whether the names are distinct is decided by the name function and the clock.
LEMMA DistinctStays ==
    ASSUME UNCHANGED <<kind, buildFunc, steady>>
    PROVE  Distinct' <=> Distinct
BY DEF Distinct

\* So steps that open and write nothing keep what was written.
LEMMA KeptStays ==
    ASSUME KeptInv, UNCHANGED <<kind, buildFunc, steady, files, opened, wrote>>
    PROVE  RunKept'
<1>1. Distinct' <=> Distinct BY DistinctStays
<1>2. RunKept BY DEF KeptInv
<1> QED BY <1>1, <1>2 DEF RunKept, NameOf

\* Opening the next file keeps what is in the others.
LEMMA OpenKept ==
    ASSUME IInv, TypeInv, TypeInv', KeptInv, NEW n \in 0 .. MaxMsg, RotateLog(n),
           UNCHANGED <<kind, buildFunc, clock, steady>>, pc' \notin {"construct", "measure"},
           logNumber =< n, \A i \in 1 .. Len(opened) : opened[i].number < n,
           ByTime => \A i \in 1 .. Len(opened) : opened[i].at < clock
    PROVE  KeptInv'
<1> DEFINE name == FileName(n)
           new  == [number |-> n, at |-> clock]
<1>0. Len(opened) \in Nat /\ logNumber' = n /\ logNumber \in Nat
    BY DEF IInv, Shape, RotateLog
<1>a. Clean' BY DEF Clean
<1>b. Distinct' <=> Distinct BY DistinctStays
<1>c. name \in Names /\ clock \in 0 .. MaxClock /\ files \in [Names -> Seq(Message)]
    BY NameIsName DEF TypeInv, TypeOK, FileName
<1>1. CASE state' = "failed" /\ UNCHANGED <<files, opened, wrote>>
    <2>1. Numbered' BY <1>0, <1>1, AtIsInt DEF IInv, KeptInv, Numbered
    <2>2. Latest' BY <1>1 DEF Latest
    <2>3. RunKept' BY <1>1, <1>b DEF KeptInv, RunKept, NameOf
    <2>4. Filled' BY <1>1 DEF KeptInv, Filled, NameOf
    <2> QED BY <1>a, <2>1, <2>2, <2>3, <2>4 DEF KeptInv
<1>2. CASE /\ out' = name /\ files' = [files EXCEPT ![name] = <<>>] /\ state' = "good"
           /\ opened' = Append(opened, new) /\ wrote' = Append(wrote, <<>>)
    <2>0. new.number = n /\ new.at = clock /\ buildFunc[new.number][new.at] = name
        BY DEF FileName
    <2> HIDE DEF name, new
    <2>1. /\ Len(opened') = Len(opened) + 1 /\ opened'[Len(opened) + 1] = new
          /\ \A i \in 1 .. Len(opened) : opened'[i] = opened[i]
        <3>1. opened \in Seq(Opening) /\ new \in Opening
            <4>1. n \in Nat /\ clock \in Nat BY <1>c, RotateAssumption
            <4> QED BY <4>1 DEF IInv, Shape, Opening, new
        <3> QED BY <1>2, <3>1, Appended
    <2>2. /\ wrote'[Len(opened) + 1] = <<>>
          /\ \A i \in 1 .. Len(opened) : wrote'[i] = wrote[i]
        <3> DEFINE F == Seq(Message)
        <3>1. wrote \in Seq(F) /\ <<>> \in F /\ Len(wrote) = Len(opened)
            BY DEF TypeInv, TypeOK, Recorded
        <3> HIDE DEF F
        <3> QED BY <1>2, <3>1, Appended
    <2>3. Numbered'
        <3>1. \A i \in 1 .. Len(opened) : opened[i].number \in Int BY AtIsInt DEF IInv
        <3>2. n \in Int /\ \A i \in 1 .. Len(opened) : opened[i].number < n OBVIOUS
        <3>3. ASSUME NEW i \in 1 .. Len(opened') PROVE opened'[i].number =< n
            <4>1. CASE i = Len(opened) + 1 BY <2>0, <2>1, <3>2, <4>1
            <4>2. CASE i \in 1 .. Len(opened) BY <2>1, <3>1, <3>2, <4>2
            <4> QED BY <1>0, <2>1, <4>1, <4>2
        <3>4. ASSUME NEW i \in 1 .. Len(opened'), NEW j \in 1 .. Len(opened'), i < j
              PROVE  opened'[i].number < opened'[j].number
            <4>1. i \in 1 .. Len(opened) BY <1>0, <2>1, <3>4
            <4>2. CASE j = Len(opened) + 1 BY <2>0, <2>1, <3>2, <4>1, <4>2
            <4>3. CASE j \in 1 .. Len(opened)
                BY <2>1, <3>4, <4>1, <4>3 DEF KeptInv, Numbered
            <4> QED BY <1>0, <2>1, <4>2, <4>3
        <3> QED BY <1>0, <3>3, <3>4 DEF Numbered
    <2>4. ASSUME NEW i \in 1 .. Len(opened)
          PROVE  NameOf(opened'[i]) = NameOf(opened[i])
        BY <2>1 DEF NameOf
    <2>5. NameOf(opened'[Len(opened) + 1]) = name BY <2>0, <2>1 DEF NameOf
    <2>6. files'[name] = <<>> BY <1>2, <1>c
    <2>7. Latest' BY <1>2, <2>1, <2>5 DEF Latest, NameOf
    <2>8. ASSUME Distinct, NEW i \in 1 .. Len(opened)
          PROVE  NameOf(opened[i]) # name
        <3>1. opened[i].number \in 0 .. MaxMsg /\ opened[i].at \in 0 .. MaxClock
            BY OpeningTypes
        <3>2. opened[i].number < n /\ (ByTime => opened[i].at < clock) OBVIOUS
        <3> QED BY <1>c, <2>0, <2>8, <3>1, <3>2 DEF Distinct, ByTime, NameOf, name, FileName
    <2>9. RunKept'
        <3> SUFFICES ASSUME NEW i \in 1 .. Len(opened')
                     PROVE  \/ files'[NameOf(opened'[i])] = wrote'[i]
                            \/ ~Distinct /\ \E j \in i + 1 .. Len(opened') :
                                   NameOf(opened'[j]) = NameOf(opened'[i])
            BY <1>b DEF RunKept, NameOf
        <3>1. CASE i = Len(opened) + 1 BY <2>2, <2>5, <2>6, <3>1
        <3>2. CASE i \in 1 .. Len(opened) /\ NameOf(opened[i]) = name
            <4>1. ~Distinct BY <2>8, <3>2
            <4>2. Len(opened) + 1 \in i + 1 .. Len(opened') BY <1>0, <2>1, <3>2
            <4> QED BY <2>4, <2>5, <3>2, <4>1, <4>2
        <3>3. CASE i \in 1 .. Len(opened) /\ NameOf(opened[i]) # name
            <4>1. files'[NameOf(opened[i])] = files[NameOf(opened[i])]
                <5>1. NameOf(opened[i]) \in Names BY <3>3, OpeningTypes
                <5> QED BY <1>2, <1>c, <3>3, <5>1
            <4>2. \/ files[NameOf(opened[i])] = wrote[i]
                  \/ ~Distinct /\ \E j \in i + 1 .. Len(opened) :
                                     NameOf(opened[j]) = NameOf(opened[i])
                BY <3>3 DEF KeptInv, RunKept
            <4>3. CASE files[NameOf(opened[i])] = wrote[i] BY <2>2, <2>4, <3>3, <4>1, <4>3
            <4>4. CASE ~Distinct /\ \E j \in i + 1 .. Len(opened) :
                                       NameOf(opened[j]) = NameOf(opened[i])
                <5>1. PICK j \in i + 1 .. Len(opened) : NameOf(opened[j]) = NameOf(opened[i])
                    BY <4>4
                <5>2. j \in 1 .. Len(opened) /\ j \in i + 1 .. Len(opened')
                    BY <1>0, <2>1, <3>3
                <5> QED BY <2>4, <3>3, <4>4, <5>1, <5>2
            <4> QED BY <4>2, <4>3, <4>4
        <3> QED BY <1>0, <2>1, <3>1, <3>2, <3>3
    <2>10. Filled'
        <3> SUFFICES ASSUME kind = "size", NEW i \in 1 .. Len(opened'),
                            NEW file, file = files'[NameOf(opened'[i])]
                     PROVE  /\ file # <<>> => Size(Front(file)) =< MaxSize
                            /\ i = Len(opened') => Size(file) =< MaxSize
            BY DEF Filled, NameOf
        <3>1. Distinct BY SizeDistinct
        <3>2. CASE i = Len(opened) + 1
            <4>1. Size(<<>>) = 0 BY SizeEmpty
            <4> QED BY <2>5, <2>6, <3>2, <4>1, RotateAssumption
        <3>3. CASE i \in 1 .. Len(opened)
            <4>1. NameOf(opened[i]) \in Names /\ NameOf(opened[i]) # name
                BY <2>8, <3>1, <3>3, OpeningTypes
            <4>2. file = files[NameOf(opened[i])] BY <1>2, <1>c, <2>4, <3>3, <4>1
            <4> QED BY <1>0, <2>1, <3>3, <4>2 DEF KeptInv, Filled
        <3> QED BY <1>0, <2>1, <3>2, <3>3
    <2> QED BY <1>a, <2>3, <2>7, <2>9, <2>10 DEF KeptInv
<1> QED BY <1>1, <1>2 DEF RotateLog, Reopen

\* A message is written to the last file and to none before it.
LEMMA WriteKept ==
    ASSUME IInv, TypeInv, TypeInv', KeptInv, Write
    PROVE  KeptInv'
<1>0. pc = "write" /\ pc' # "construct" /\ (kind = "size" => pc' = "measure")
        /\ UNCHANGED <<kind, buildFunc, clock, steady, opened, logNumber, out>>
        /\ Len(opened) \in Nat
    BY DEF Write, IInv, Shape
<1>1. Numbered' BY <1>0 DEF KeptInv, Numbered
<1>2. Clean' BY <1>0 DEF Clean
<1>b. Distinct' <=> Distinct BY <1>0, DistinctStays
<1>3. CASE state' = "failed" /\ UNCHANGED <<files, wrote>>
    BY <1>0, <1>1, <1>2, <1>3, <1>b DEF KeptInv, Latest, RunKept, Filled, NameOf
<1>4. CASE /\ state = "good" /\ files' = [files EXCEPT ![out] = Append(@, msg)]
           /\ wrote' = [wrote EXCEPT ![Len(wrote)] = Append(@, msg)] /\ UNCHANGED state
    <2> DEFINE k == Len(opened)
    <2>1. Latest' BY <1>0, <1>4 DEF KeptInv, Latest, NameOf
    <2>2. out = NameOf(opened[k]) /\ opened # <<>> /\ Len(wrote) = k
        BY <1>0, <1>4 DEF KeptInv, Latest, TypeInv, Recorded
    <2>3. k \in 1 .. k BY <1>0, <2>2 DEF IInv, Shape
    <2>4. files \in [Names -> Seq(Message)] /\ out \in Names /\ msg \in Message
        BY <1>0, <2>2, <2>3, OpeningTypes DEF TypeInv, TypeOK, Counted
    <2>5. files'[out] = Append(files[out], msg) /\ files[out] \in Seq(Message) BY <1>4, <2>4
    <2>6. /\ wrote'[k] = Append(wrote[k], msg)
          /\ \A i \in 1 .. k : i # k => wrote'[i] = wrote[i]
        <3> DEFINE F == Seq(Message)
        <3>1. wrote \in Seq(F) BY DEF TypeInv, TypeOK
        <3> HIDE DEF F
        <3>2. wrote = [i \in 1 .. Len(wrote) |-> wrote[i]] BY <3>1
        <3> QED BY <1>4, <2>2, <2>3, <3>2
    <2>7. ASSUME NEW i \in 1 .. k
          PROVE  NameOf(opened[i])' = NameOf(opened[i]) /\ NameOf(opened[i]) \in Names
        BY <1>0, OpeningTypes DEF NameOf
    <2>8. ASSUME NEW i \in 1 .. k, NameOf(opened[i]) # out
          PROVE  files'[NameOf(opened[i])] = files[NameOf(opened[i])]
        BY <1>4, <2>4, <2>7, <2>8
    <2>9. RunKept'
        <3> SUFFICES ASSUME NEW i \in 1 .. k
                     PROVE  \/ files'[NameOf(opened[i])] = wrote'[i]
                            \/ ~Distinct /\ \E j \in i + 1 .. k :
                                   NameOf(opened[j]) = NameOf(opened[i])
            BY <1>0, <1>b DEF RunKept, NameOf
        <3>1. \/ files[NameOf(opened[i])] = wrote[i]
              \/ ~Distinct /\ \E j \in i + 1 .. k : NameOf(opened[j]) = NameOf(opened[i])
            BY DEF KeptInv, RunKept
        <3>2. CASE i = k
            <4>1. k + 1 .. k = {} BY <1>0
            <4>2. files[out] = wrote[k] BY <2>2, <3>1, <3>2, <4>1
            <4> QED BY <2>2, <2>5, <2>6, <3>2, <4>2
        <3>3. CASE i # k /\ NameOf(opened[i]) = out
            <4>1. i < k /\ k \in i + 1 .. k BY <1>0, <3>3
            <4>2. ~Distinct BY <2>2, <2>3, <3>3, <4>1, NamesApart DEF KeptInv
            <4> QED BY <2>2, <3>3, <4>1, <4>2
        <3>4. CASE i # k /\ NameOf(opened[i]) # out BY <2>6, <2>8, <3>1, <3>4
        <3> QED BY <3>2, <3>3, <3>4
    <2>10. Filled'
        <3> SUFFICES ASSUME kind = "size", NEW i \in 1 .. k,
                            NEW file, file = files'[NameOf(opened[i])], file # <<>>
                     PROVE  Size(Front(file)) =< MaxSize
            BY <1>0 DEF Filled, NameOf
        <3>1. CASE i = k
            <4>1. Size(files[out]) =< MaxSize BY <1>0, <1>4, <2>2, <2>3 DEF KeptInv, Filled
            <4>2. Front(file) = files[out] BY <2>2, <2>4, <2>5, <3>1, SizeFront
            <4> QED BY <4>1, <4>2
        <3>2. CASE i # k
            <4>1. i < k BY <1>0, <3>2
            <4>2. NameOf(opened[i]) # out
                BY <2>2, <2>3, <4>1, SizeDistinct, NamesApart DEF KeptInv
            <4> QED BY <2>8, <3>2, <4>2 DEF KeptInv, Filled
        <3> QED BY <3>1, <3>2
    <2> QED BY <1>1, <1>2, <2>1, <2>9, <2>10 DEF KeptInv
<1> QED BY <1>3, <1>4 DEF Write

\* Every step keeps what was written, and the limit.
LEMMA StepKept ==
    ASSUME IInv, TypeInv, TypeInv', KeptInv, [Next]_vars
    PROVE  KeptInv'
<1>0. logNumber \in Nat /\ Interval \in Nat
        /\ \A i \in 1 .. Len(opened) : opened[i].number \in Int /\ opened[i].at \in Int
    BY AtIsInt, RotateAssumption DEF IInv, Shape
<1>a. logNumber =< NextNumber /\ \A i \in 1 .. Len(opened) : opened[i].number < NextNumber
    BY <1>0 DEF KeptInv, Numbered, NextNumber
<1>1. CASE Construct
    <2>1. RotateLog(0) /\ UNCHANGED <<kind, buildFunc, clock, steady>>
            /\ pc' \notin {"construct", "measure"} /\ opened = <<>>
        BY <1>1 DEF Construct, IInv, Fresh
    <2>2. logNumber = 0 /\ 0 \in 0 .. MaxMsg
        BY <1>1, RotateAssumption DEF Construct, KeptInv, Clean
    <2>3. 1 .. Len(opened) = {} BY <2>1
    <2> QED BY <2>1, <2>2, <2>3, OpenKept
<1>2. CASE Stamp
    BY <1>2, KeptStays DEF Stamp, KeptInv, Numbered, Latest, Clean, Filled, NameOf
<1>3. CASE Send
    <2>1. CASE RotateLog(NextNumber) /\ pc' = "stamp" /\ Due
        <3>1. NextNumber \in 0 .. MaxMsg
            BY <1>3, RotateAssumption DEF Send, TypeInv, TypeOK, Counted, NextNumber
        <3>2. UNCHANGED <<kind, buildFunc, clock, steady>> /\ pc # "stamp" BY <1>3 DEF Send
        <3>3. ASSUME ByTime, NEW i \in 1 .. Len(opened) PROVE opened[i].at < clock
            <4>1. lastRotateTime =< clock /\ opened[i].at =< lastRotateTime
                BY <3>2, <3>3 DEF IInv, Spread
            <4>2. clock - lastRotateTime > Interval BY <2>1, <4>1, NoWrap DEF Due, IInv
            <4>3. clock \in Int /\ lastRotateTime \in Int BY DEF IInv, Shape
            <4> QED BY <1>0, <4>1, <4>2, <4>3
        <3> QED BY <1>a, <2>1, <3>1, <3>2, <3>3, OpenKept
    <2>2. CASE pc' = "write" /\ UNCHANGED <<logNumber, out, state, files, opened, wrote>>
        BY <1>3, <2>2, KeptStays DEF Send, KeptInv, Numbered, Latest, Clean, Filled, NameOf
    <2> QED BY <1>3, <2>1, <2>2 DEF Send
<1>4. CASE Write BY <1>4, WriteKept
<1>5. CASE Measure
    <2>0. pc = "measure" /\ pc' = "idle" /\ kind = "size"
            /\ UNCHANGED <<kind, buildFunc, clock, steady>>
        BY <1>5 DEF Measure, IInv, Fresh
    <2>1. CASE RotateLog(NextNumber)
        <3>1. NextNumber \in 0 .. MaxMsg
            BY <1>5, <2>0, RotateAssumption DEF Measure, TypeInv, TypeOK, Counted, NextNumber
        <3>2. ~ByTime BY <2>0 DEF ByTime
        <3> QED BY <1>a, <2>0, <2>1, <3>1, <3>2, OpenKept
    <2>2. CASE ~ (Tellp > MaxSize) /\ UNCHANGED <<logNumber, out, state, files, opened, wrote>>
        <3>1. Numbered' /\ Latest' /\ Clean' /\ RunKept'
            BY <2>0, <2>2, KeptStays DEF KeptInv, Numbered, Latest, Clean, NameOf
        <3>2. ASSUME state = "good"
              PROVE  Size(files[NameOf(opened[Len(opened)])]) =< MaxSize
            <4>1. out = NameOf(opened[Len(opened)]) /\ Tellp = Size(files[out])
                BY <2>0, <3>2 DEF KeptInv, Latest, Tellp
            <4>2. files[out] \in Seq(Message) BY <2>0, <3>2 DEF TypeInv, TypeOK
            <4>3. Size(files[out]) \in Nat BY <4>2, SizeIsNat
            <4> QED BY <2>2, <4>1, <4>3, RotateAssumption
        <3>3. Filled' BY <2>0, <2>2, <3>2 DEF KeptInv, Filled, NameOf
        <3> QED BY <3>1, <3>3 DEF KeptInv
    <2> QED BY <1>5, <2>1, <2>2 DEF Measure
<1>6. CASE Tick
    BY <1>6, KeptStays DEF Tick, logger, KeptInv, Numbered, Latest, Clean, Filled, NameOf
<1>7. CASE SetBack
    <2>1. Distinct' => Distinct BY <1>7 DEF SetBack, Distinct
    <2>2. RunKept' BY <1>7, <2>1 DEF SetBack, logger, KeptInv, RunKept, NameOf
    <2> QED BY <1>7, <2>2 DEF SetBack, logger, KeptInv, Numbered, Latest, Clean, Filled, NameOf
<1>8. CASE Restart
    <2>1. opened' = <<>> /\ pc' = "construct" /\ logNumber' = 0 BY <1>8 DEF Restart
    <2>2. 1 .. Len(opened') = {} BY <2>1
    <2> QED BY <2>1, <2>2 DEF KeptInv, Numbered, Latest, Clean, RunKept, Filled
<1>9. CASE UNCHANGED vars
    BY <1>9, KeptStays DEF vars, logger, KeptInv, Numbered, Latest, Clean, Filled, NameOf
<1> QED BY <1>1, <1>2, <1>3, <1>4, <1>5, <1>6, <1>7, <1>8, <1>9 DEF Next

\* Rotating destroys nothing of this run: each of its files holds what was written
\* since it was opened, whichever opens and writes fail, unless the name function
\* repeats itself and its name was opened again - as the local time does at the end of
\* summer time, or a clock that is set back makes it do.
THEOREM KeptCorrect == Spec => []RunKept
<1>1. IInv /\ TypeInv /\ KeptInv /\ [Next]_vars /\ TypeInv' => KeptInv' BY StepKept
<1>2. KeptInv => RunKept BY DEF KeptInv
<1>3. IInv /\ TypeInv /\ [Next]_vars => TypeInv' BY StepTypes
<1> QED BY InitTypes, InitKept, <1>1, <1>2, <1>3, Invariance, PTL DEF Spec

\* The size logger exceeds its limit by no more than the last message of a file, and
\* leaves no full file open between messages, whichever opens and writes fail.
THEOREM SizeCorrect == Spec => []SizeBounded
<1>1. IInv /\ TypeInv /\ KeptInv /\ [Next]_vars /\ TypeInv' => KeptInv' BY StepKept
<1>2. IInv /\ TypeInv /\ KeptInv => SizeBounded
    <2> SUFFICES ASSUME IInv, TypeInv, KeptInv, kind = "size", NEW i \in 1 .. Len(opened),
                        pc = "idle", out = NameOf(opened[i]), state = "good"
                 PROVE  Size(files[NameOf(opened[i])]) =< MaxSize
        BY DEF SizeBounded, KeptInv, Filled
    <2>1. out = NameOf(opened[Len(opened)]) BY DEF KeptInv, Latest
    <2>2. Len(opened) \in Nat /\ Len(opened) \in 1 .. Len(opened) BY DEF IInv, Shape
    <2>3. i = Len(opened)
        <3>1. SUFFICES ASSUME i < Len(opened) PROVE FALSE BY <2>2
        <3> QED BY <2>1, <2>2, <3>1, SizeDistinct, NamesApart DEF KeptInv
    <2> QED BY <2>3 DEF KeptInv, Filled
<1>3. IInv /\ TypeInv /\ [Next]_vars => TypeInv' BY StepTypes
<1> QED BY InitTypes, InitKept, <1>1, <1>2, <1>3, Invariance, PTL DEF Spec
=============================================================================
