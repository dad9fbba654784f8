-------------------------- MODULE LogRecordProofs --------------------------
(***************************************************************************)
(* Proofs about LogRecord, for every format, operation and buffer size:    *)
(* the values of a record, the text they are rendered to and the line.     *)
(***************************************************************************)
EXTENDS LogRecord, FiniteSetTheorems, SequenceTheorems, WellFoundedInduction, TLAPS

-----------------------------------------------------------------------------
(* Counting.                                                               *)

\* A nonempty set of numbers has a least member.
LEMMA Least ==
    ASSUME NEW S \in SUBSET Nat, S # {}
    PROVE  \E x \in S : \A y \in S : x =< y
<1> DEFINE T == {0 .. k : k \in S}
<1>1. T \subseteq FiniteSubsetsOf(Nat)
    <2>1. ASSUME NEW k \in S PROVE 0 .. k \in SUBSET Nat /\ IsFiniteSet(0 .. k)
        <3>1. k \in Nat OBVIOUS
        <3>2. IsFiniteSet(0 .. k) BY <3>1, FS_Interval
        <3> QED BY <3>1, <3>2
    <2> QED BY <2>1 DEF FiniteSubsetsOf
<1>2. T # {} OBVIOUS
<1>3. IsWellFoundedOn(StrictSubsetOrdering(Nat), FiniteSubsetsOf(Nat))
    BY FS_StrictSubsetOrderingWellFounded
<1> HIDE DEF T
<1>4. PICK x \in T : \A y \in T : <<y, x>> \notin StrictSubsetOrdering(Nat)
    BY <1>1, <1>2, <1>3, WFMin
<1>5. PICK k \in S : x = 0 .. k BY DEF T
<1>6. ASSUME NEW y \in S PROVE k =< y
    <2>1. k \in Nat /\ y \in Nat OBVIOUS
    <2>2. SUFFICES ASSUME y < k PROVE FALSE BY <2>1
    <2>3. 0 .. y \in T BY DEF T
    <2>4. 0 .. y \subseteq 0 .. k /\ 0 .. y # 0 .. k
        <3>1. k \in 0 .. k /\ k \notin 0 .. y BY <2>1, <2>2
        <3>2. 0 .. y \subseteq 0 .. k BY <2>1, <2>2
        <3> QED BY <3>1, <3>2
    <2>5. 0 .. y \in SUBSET Nat /\ 0 .. k \in SUBSET Nat BY <2>1
    <2>6. <<0 .. y, 0 .. k>> \in StrictSubsetOrdering(Nat)
        BY <2>4, <2>5 DEF StrictSubsetOrdering
    <2> QED BY <1>4, <1>5, <2>3, <2>6
<1> QED BY <1>6

\* What holds of 0, and of i when it holds of i - 1, holds up to n.
LEMMA Climb ==
    ASSUME NEW n \in Nat, NEW P, 0 \in P,
           \A i \in 1 .. n : i - 1 \in P => i \in P
    PROVE  \A i \in 0 .. n : i \in P
<1> DEFINE S == {i \in 0 .. n : i \notin P}
<1>1. SUFFICES ASSUME S # {} PROVE FALSE OBVIOUS
<1>2. S \in SUBSET Nat OBVIOUS
<1>3. PICK x \in S : \A y \in S : x =< y BY <1>1, <1>2, Least
<1>4. x \in 1 .. n /\ x \notin P OBVIOUS
<1>5. x - 1 \in 0 .. n /\ x - 1 \notin S BY <1>3, <1>4
<1> QED BY <1>4, <1>5

-----------------------------------------------------------------------------
(* Chains of operator<<.                                                   *)

\* One operator<< adds its key, if that is missing, and changes no value.
LEMMA Inserted ==
    ASSUME NEW r, NEW p
    PROVE  /\ DOMAIN Insert(r, p) = DOMAIN r \cup {p[1]}
           /\ \A s \in DOMAIN r : Insert(r, p)[s] = r[s]
           /\ p[1] \notin DOMAIN r => Insert(r, p)[p[1]] = p[2]
<1>1. CASE p[1] \in DOMAIN r BY <1>1 DEF Insert
<1>2. CASE p[1] \notin DOMAIN r BY <1>2 DEF Insert, With
<1> QED BY <1>1, <1>2

\* r is the map after the first k of the pairs: it has kept what it had, and has
\* for every other key the first value that came with it.
Gathered(map, pairs, k, r) ==
    /\ \A s \in DOMAIN map : s \in DOMAIN r /\ r[s] = map[s]
    /\ \A s \in DOMAIN r \ DOMAIN map :
         \E i \in 1 .. k : /\ pairs[i][1] = s /\ r[s] = pairs[i][2]
                           /\ \A j \in 1 .. i - 1 : pairs[j][1] # s
    /\ \A i \in 1 .. k : pairs[i][1] \in DOMAIN r

\* One more pair.
LEMMA GatherOne ==
    ASSUME NEW map, NEW pairs, NEW k \in Nat \ {0}, NEW r, Gathered(map, pairs, k - 1, r)
    PROVE  Gathered(map, pairs, k, Insert(r, pairs[k]))
<1> DEFINE p == pairs[k]
           q == Insert(r, p)
<1>1. /\ DOMAIN q = DOMAIN r \cup {p[1]}
      /\ \A s \in DOMAIN r : q[s] = r[s]
      /\ p[1] \notin DOMAIN r => q[p[1]] = p[2]
    BY Inserted
<1> HIDE DEF q
<1>2. \A s \in DOMAIN map : s \in DOMAIN q /\ q[s] = map[s] BY <1>1 DEF Gathered
<1>3. \A i \in 1 .. k : pairs[i][1] \in DOMAIN q
    <2>1. \A i \in 1 .. k : i \in 1 .. k - 1 \/ i = k OBVIOUS
    <2> QED BY <1>1, <2>1 DEF Gathered
<1>4. ASSUME NEW s \in DOMAIN q \ DOMAIN map
      PROVE  \E i \in 1 .. k : /\ pairs[i][1] = s /\ q[s] = pairs[i][2]
                               /\ \A j \in 1 .. i - 1 : pairs[j][1] # s
    <2>1. CASE s \in DOMAIN r
        <3>1. PICK i \in 1 .. k - 1 : /\ pairs[i][1] = s /\ r[s] = pairs[i][2]
                                      /\ \A j \in 1 .. i - 1 : pairs[j][1] # s
            BY <1>4, <2>1 DEF Gathered
        <3>2. i \in 1 .. k OBVIOUS
        <3> QED BY <1>1, <2>1, <3>1, <3>2
    <2>2. CASE s \notin DOMAIN r
        <3>1. s = p[1] /\ q[s] = p[2] BY <1>1, <1>4, <2>2
        <3>2. \A j \in 1 .. k - 1 : pairs[j][1] # s BY <2>2 DEF Gathered
        <3>3. k \in 1 .. k OBVIOUS
        <3> QED BY <3>1, <3>2, <3>3
    <2> QED BY <2>1, <2>2
<1>5. Gathered(map, pairs, k, q) BY <1>2, <1>3, <1>4 DEF Gathered
<1> QED BY <1>5 DEF q

\* f is the map after each of the pairs up to n.
Gathers(map, pairs, n, f) ==
    f = [i \in 0 .. n |-> IF i = 0 THEN map ELSE Insert(f[i - 1], pairs[i])]

\* There is such a function.
LEMMA GathersExist ==
    ASSUME NEW map, NEW pairs, NEW n \in Nat
    PROVE  \E f : Gathers(map, pairs, n, f)
<1> DEFINE P == {k \in 0 .. n : \E f : Gathers(map, pairs, k, f)}
<1>1. 0 \in P
    <2>1. Gathers(map, pairs, 0, [i \in 0 .. 0 |-> map]) BY DEF Gathers
    <2> QED BY <2>1
<1>2. ASSUME NEW k \in 1 .. n, k - 1 \in P PROVE k \in P
    <2>1. PICK f : Gathers(map, pairs, k - 1, f) BY <1>2
    <2> DEFINE g == [i \in 0 .. k |-> IF i = k THEN Insert(f[k - 1], pairs[k]) ELSE f[i]]
    <2>2. ASSUME NEW i \in 0 .. k PROVE g[i] = IF i = 0 THEN map ELSE Insert(g[i - 1], pairs[i])
        <3>1. CASE i = k
            <4>1. k - 1 \in 0 .. k /\ k - 1 # k /\ k # 0 OBVIOUS
            <4>2. g[k - 1] = f[k - 1] /\ g[k] = Insert(f[k - 1], pairs[k]) BY <4>1
            <4> QED BY <3>1, <4>1, <4>2
        <3>2. CASE i # k
            <4>1. i \in 0 .. k - 1 /\ (i # 0 => i - 1 \in 0 .. k /\ i - 1 # k) BY <3>2
            <4>2. f[i] = IF i = 0 THEN map ELSE Insert(f[i - 1], pairs[i])
                BY <2>1, <4>1 DEF Gathers
            <4> QED BY <3>2, <4>1, <4>2
        <3> QED BY <3>1, <3>2
    <2> DEFINE h == [i \in 0 .. k |-> IF i = 0 THEN map ELSE Insert(g[i - 1], pairs[i])]
    <2>3. g = h BY <2>2, Zenon
    <2>4. Gathers(map, pairs, k, g) BY <2>3 DEF Gathers
    <2> QED BY <2>4
<1> HIDE DEF P
<1>3. \A i \in 0 .. n : i \in P BY <1>1, <1>2, Climb
<1>4. n \in P BY <1>3
<1> QED BY <1>4 DEF P

\* A chain of operator<< keeps what the map had and files every new key with the
\* first value that came with it.
LEMMA InsertedAll ==
    ASSUME NEW T, NEW map, NEW pairs \in Seq(T)
    PROVE  Gathered(map, pairs, Len(pairs), InsertAll(map, pairs))
<1> DEFINE n == Len(pairs)
           f == CHOOSE h : Gathers(map, pairs, n, h)
<1>0. n \in Nat OBVIOUS
<1>1. Gathers(map, pairs, n, f) BY <1>0, GathersExist
<1>2. InsertAll(map, pairs) = f[n] BY DEF InsertAll, Gathers
<1> HIDE DEF f, n
<1> DEFINE P == {k \in 0 .. n : Gathered(map, pairs, k, f[k])}
<1>3. 0 \in P
    <2>1. f[0] = map BY <1>0, <1>1 DEF Gathers
    <2> QED BY <1>0, <2>1 DEF Gathered
<1>4. ASSUME NEW k \in 1 .. n, k - 1 \in P PROVE k \in P
    <2>1. k \in Nat \ {0} /\ k \in 0 .. n BY <1>0
    <2>2. Gathered(map, pairs, k, Insert(f[k - 1], pairs[k])) BY <1>4, <2>1, GatherOne
    <2>3. f[k] = Insert(f[k - 1], pairs[k]) BY <1>1, <2>1 DEF Gathers
    <2> QED BY <2>1, <2>2, <2>3
<1> HIDE DEF P
<1>5. \A i \in 0 .. n : i \in P BY <1>0, <1>3, <1>4, Climb
<1>6. n \in P BY <1>0, <1>5
<1> QED BY <1>2, <1>6 DEF P, n

-----------------------------------------------------------------------------
(* The values.                                                             *)

\* A value is the one due to a specifier; the specifiers whose due is their own.
Fits(s, v) == v = Due(s)
Plain      == {s \in Specifiers : Due(s) = s}

Pair    == Specifiers \X (Specifiers \cup Strays)
\* Pairs of a specifier and a value it may have.
FitPair == {p \in Pair : Fits(p[1], p[2])}

\* Every specifier of the map has the value due to it.
Filed(map) ==
    /\ DOMAIN map \subseteq Specifiers
    /\ \A s \in DOMAIN map : map[s] \in Specifiers \cup Strays /\ Fits(s, map[s])

\* Pairs of which each fits, or comes after another of its key, keep a map fit.
LEMMA FiledAll ==
    ASSUME NEW map, Filed(map), NEW pairs \in Seq(Pair),
           \A i \in 1 .. Len(pairs) : \/ Fits(pairs[i][1], pairs[i][2])
                                      \/ \E j \in 1 .. i - 1 : pairs[j][1] = pairs[i][1]
    PROVE  /\ Filed(InsertAll(map, pairs))
           /\ \A s \in DOMAIN map : s \in DOMAIN InsertAll(map, pairs)
           /\ \A i \in 1 .. Len(pairs) : pairs[i][1] \in DOMAIN InsertAll(map, pairs)
<1>1. PICK r : r = InsertAll(map, pairs) OBVIOUS
<1>2. Gathered(map, pairs, Len(pairs), r) BY <1>1, InsertedAll
<1>3. ASSUME NEW s \in DOMAIN r
      PROVE  s \in Specifiers /\ r[s] \in Specifiers \cup Strays /\ Fits(s, r[s])
    <2>1. CASE s \in DOMAIN map BY <1>2, <2>1 DEF Gathered, Filed
    <2>2. CASE s \notin DOMAIN map
        <3>1. PICK i \in 1 .. Len(pairs) : /\ pairs[i][1] = s /\ r[s] = pairs[i][2]
                                           /\ \A j \in 1 .. i - 1 : pairs[j][1] # s
            BY <1>2, <1>3, <2>2 DEF Gathered
        <3>2. pairs[i] \in Pair OBVIOUS
        <3>3. pairs[i][1] \in Specifiers /\ pairs[i][2] \in Specifiers \cup Strays
            BY <3>2 DEF Pair
        <3>4. Fits(pairs[i][1], pairs[i][2]) BY <3>1
        <3> QED BY <3>1, <3>3, <3>4
    <2> QED BY <2>1, <2>2
<1>4. Filed(r) BY <1>3 DEF Filed
<1> QED BY <1>1, <1>2, <1>4 DEF Gathered

\* Fitting pairs keep a map fit.
LEMMA FiledFit ==
    ASSUME NEW map, Filed(map), NEW pairs \in Seq(FitPair)
    PROVE  /\ Filed(InsertAll(map, pairs))
           /\ \A s \in DOMAIN map : s \in DOMAIN InsertAll(map, pairs)
           /\ \A i \in 1 .. Len(pairs) : pairs[i][1] \in DOMAIN InsertAll(map, pairs)
<1>1. \A i \in 1 .. Len(pairs) : pairs[i] \in FitPair OBVIOUS
<1>2. \A i \in 1 .. Len(pairs) : Fits(pairs[i][1], pairs[i][2]) BY <1>1 DEF FitPair
<1>3. pairs \in Seq(Pair) BY DEF FitPair
<1> QED BY <1>2, <1>3, FiledAll

\* Keys that get their own values, where these are due.
LEMMA OwnFits ==
    ASSUME NEW keys \in Seq(Plain)
    PROVE  /\ Own(keys) \in Seq(FitPair) /\ Len(Own(keys)) = Len(keys)
           /\ \A i \in 1 .. Len(keys) : Own(keys)[i] = <<keys[i], keys[i]>>
<1>1. ASSUME NEW i \in 1 .. Len(keys) PROVE <<keys[i], keys[i]>> \in FitPair
    <2>1. keys[i] \in Plain OBVIOUS
    <2> QED BY <2>1 DEF FitPair, Pair, Fits, Plain
<1>2. Len(keys) \in Nat OBVIOUS
<1> QED BY <1>1, <1>2 DEF Own

\* Sequences of a set are joined to one.
LEMMA Joined ==
    ASSUME NEW T, NEW a \in Seq(T), NEW b \in Seq(T)
    PROVE  a \o b \in Seq(T)
OBVIOUS

\* What a case puts into the map fits; the second UID of chown comes too late.
LEMMA FieldsFit ==
    /\ Fields(op) \in Seq(Pair)
    /\ \A i \in 1 .. Len(Fields(op)) :
         \/ Fits(Fields(op)[i][1], Fields(op)[i][2])
         \/ \E j \in 1 .. i - 1 : Fields(op)[j][1] = Fields(op)[i][1]
<1>1. CASE op = "chown"
    <2>1. Fields(op) = <<<<"uid", "uid">>, <<"uid", "gid">>>> BY <1>1 DEF Fields
    <2>2. <<"uid", "uid">> \in Pair /\ <<"uid", "gid">> \in Pair BY DEF Pair, Specifiers
    <2>3. /\ Fields(op) \in Seq(Pair) /\ Len(Fields(op)) = 2
          /\ Fields(op)[1] = <<"uid", "uid">> /\ Fields(op)[2] = <<"uid", "gid">>
        BY <2>1, <2>2
    <2>4. Fits(Fields(op)[1][1], Fields(op)[1][2]) BY <1>1, <2>3 DEF Fits, Due
    <2>5. \E j \in 1 .. 2 - 1 : Fields(op)[j][1] = Fields(op)[2][1]
        <3>1. 1 \in 1 .. 2 - 1 OBVIOUS
        <3> QED BY <2>3, <3>1
    <2>6. \A i \in 1 .. 2 : i = 1 \/ i = 2 OBVIOUS
    <2> QED BY <2>3, <2>4, <2>5, <2>6
<1>2. CASE op # "chown"
    <2>1. /\ {"mode", "rdev", "relpath", "relfrom", "relto", "absfrom", "absto", "size",
               "flags", "offset", "xattrname", "modseconds", "acseconds"} \subseteq Plain
          /\ op \notin {"getxattr", "listxattr"} => "xattrvalue" \in Plain
          /\ op # "utimens" => "modmicroseconds" \in Plain /\ "acmicroseconds" \in Plain
        BY DEF Plain, Due, Specifiers
    <2>2. /\ <<"mode", "rdev">> \in Seq(Plain) /\ <<"mode">> \in Seq(Plain)
          /\ <<"relpath", "relfrom", "relto", "absfrom", "absto">> \in Seq(Plain)
          /\ <<"size">> \in Seq(Plain) /\ <<"flags">> \in Seq(Plain)
          /\ <<"size", "offset">> \in Seq(Plain) /\ <<"xattrname", "size">> \in Seq(Plain)
          /\ op # "utimens" => <<"modseconds", "modmicroseconds", "acseconds", "acmicroseconds">>
                                  \in Seq(Plain)
          /\ op = "setxattr" => <<"xattrname", "xattrvalue", "size", "flags">> \in Seq(Plain)
        BY <2>1
    <2>3. <<>> \in Seq(FitPair) OBVIOUS
    <2>4. /\ op \in {"getxattr", "listxattr"} =>
               Buffer("xattrvalue") \in Seq(FitPair) /\ Buffer("xattrlist") \in Seq(FitPair)
          /\ op = "utimens" => UtimensFields \in Seq(FitPair)
        <3>1. ASSUME op \in {"getxattr", "listxattr"}
              PROVE  <<"xattrvalue", "buffer">> \in FitPair /\ <<"xattrlist", "buffer">> \in FitPair
            BY <3>1 DEF FitPair, Pair, Fits, Due, Specifiers, Strays
        <3>2. ASSUME op = "utimens"
              PROVE  /\ <<"modseconds", "modseconds">> \in FitPair
                     /\ <<"modmicroseconds", "modnanoseconds">> \in FitPair
                     /\ <<"acseconds", "acseconds">> \in FitPair
                     /\ <<"acmicroseconds", "acnanoseconds">> \in FitPair
            BY <3>2 DEF FitPair, Pair, Fits, Due, Specifiers, Strays
        <3> QED BY <3>1, <3>2 DEF Buffer, UtimensFields
    <2>5. /\ TwoPathFields \in Seq(FitPair) /\ RangeFields \in Seq(FitPair)
          /\ op # "utimens" => UtimeFields \in Seq(FitPair)
        BY <2>2, OwnFits DEF TwoPathFields, UtimeFields, RangeFields
    <2>6. op = "getxattr" => Own(<<"xattrname", "size">>) \o Buffer("xattrvalue") \in Seq(FitPair)
        BY <2>2, <2>4, OwnFits, Joined
    <2>7. /\ op = "listxattr" => Own(<<"size">>) \o Buffer("xattrlist") \in Seq(FitPair)
          /\ RangeFields \o Own(<<"mode">>) \in Seq(FitPair)
        BY <2>2, <2>4, <2>5, OwnFits, Joined
    <2>8. Fields(op) \in Seq(FitPair)
        BY <1>2, <2>2, <2>3, <2>4, <2>5, <2>6, <2>7, OwnFits DEF Fields
    <2>9. Fields(op) \in Seq(Pair) BY <2>8 DEF FitPair
    <2>10. \A i \in 1 .. Len(Fields(op)) : Fields(op)[i] \in FitPair BY <2>8
    <2> QED BY <2>9, <2>10 DEF FitPair
<1> QED BY <1>1, <1>2

\* What Util::log adds fits.
LEMMA CompleteFits ==
    ASSUME NEW map, Filed(map)
    PROVE  /\ Filed(Complete(map)) /\ "errno" \in DOMAIN Complete(map)
           /\ DOMAIN map \subseteq DOMAIN Complete(map)
<1> DEFINE pairs == <<<<"errno", "errno">>>> \o Thread \o Own(Asked \o Clock)
<1>1. /\ pairs \in Seq(Pair) /\ Len(pairs) > 0 /\ pairs[1] = <<"errno", "errno">>
      /\ \A i \in 1 .. Len(pairs) : \/ Fits(pairs[i][1], pairs[i][2])
                                     \/ \E j \in 1 .. i - 1 : pairs[j][1] = pairs[i][1]
    <2> DEFINE Keys == {"abspath", "cmdname", "reqpid", "requid", "reqgid", "requmask",
                        "seconds", "microseconds"}
               keys == Asked \o Clock
    <2>1. <<"errno", "errno">> \in FitPair BY DEF FitPair, Pair, Fits, Due, Specifiers
    <2>2. keys \in Seq(Keys)
        <3>1. ASSUME NEW S, NEW key \in S PROVE If(key) \in Seq(S) BY DEF If
        <3>2. Asked \in Seq(Keys)
            <4>1. {"abspath", "cmdname", "reqpid", "requid", "reqgid", "requmask"} \subseteq Keys
                OBVIOUS
            <4> HIDE DEF Keys
            <4> QED BY <3>1, <4>1, Joined DEF Asked
        <3>3. Clock \in Seq(Keys)
            <4>1. "seconds" \in Keys /\ "microseconds" \in Keys OBVIOUS
            <4> HIDE DEF Keys
            <4>2. <<"seconds", "microseconds">> \in Seq(Keys) /\ <<>> \in Seq(Keys) BY <4>1
            <4> QED BY <4>2 DEF Clock
        <3> QED BY <3>2, <3>3, Joined
    <2>3. /\ \A key \in Keys : key \in Specifiers /\ (key # "reqpid" => Due(key) = key)
          /\ ~ Has("tid") => Due("reqpid") = "reqpid"
          /\ Has("tid") => Due("reqpid") = "tid"
        BY DEF Due, Specifiers
    <2>4. PICK n, b : n = Len(keys) /\ b = Own(keys) OBVIOUS
    <2>5. /\ n \in Nat /\ b \in Seq(Pair) /\ Len(b) = n
          /\ \A i \in 1 .. n : b[i][1] \in Keys /\ b[i][2] = b[i][1]
        <3> HIDE DEF keys
        <3>1. \A i \in 1 .. Len(keys) : keys[i] \in Keys /\ <<keys[i], keys[i]>> \in Pair
            BY <2>2, <2>3 DEF Pair
        <3> HIDE DEF Keys
        <3>2. Len(keys) \in Nat BY <2>2
        <3>3. b = [i \in 1 .. Len(keys) |-> <<keys[i], keys[i]>>] BY <2>4 DEF Own
        <3> QED BY <2>4, <3>1, <3>2, <3>3
    <2> HIDE DEF Keys, keys
    <2>6. CASE ~ Has("tid")
        <3>1. pairs = <<<<"errno", "errno">>>> \o b BY <2>4, <2>6 DEF Thread, keys
        <3>2. b \in Seq(FitPair)
            <4>1. \A i \in 1 .. n : b[i] \in FitPair
                BY <2>3, <2>5, <2>6 DEF FitPair, Fits
            <4> QED BY <2>5, <4>1
        <3>3. \A p \in FitPair : /\ <<p>> \o b \in Seq(FitPair) /\ Len(<<p>> \o b) > 0
                                 /\ (<<p>> \o b)[1] = p
            BY ONLY <3>2
        <3>4. pairs \in Seq(FitPair) /\ Len(pairs) > 0 /\ pairs[1] = <<"errno", "errno">>
            BY <2>1, <3>1, <3>3
        <3> HIDE DEF pairs
        <3>5. \A i \in 1 .. Len(pairs) : pairs[i] \in FitPair BY <3>4
        <3>6. pairs \in Seq(Pair) BY <3>4 DEF FitPair
        <3> QED BY <3>4, <3>5, <3>6 DEF FitPair
    <2>7. CASE Has("tid")
        <3>0. PICK e, h : e = <<"errno", "errno">> /\ h = <<"reqpid", "tid">> OBVIOUS
        <3>1. pairs = <<e>> \o <<h>> \o b BY <2>4, <2>7, <3>0 DEF Thread, keys
        <3>2. <<"reqpid", "tid">> \in FitPair
            BY <2>3, <2>7 DEF FitPair, Pair, Fits, Specifiers
        <3>3. \A p, q \in Pair : /\ <<p>> \o <<q>> \o b \in Seq(Pair)
                                 /\ Len(<<p>> \o <<q>> \o b) = n + 2
                                 /\ (<<p>> \o <<q>> \o b)[1] = p
                                 /\ (<<p>> \o <<q>> \o b)[2] = q
                                 /\ \A i \in 3 .. n + 2 : (<<p>> \o <<q>> \o b)[i] = b[i - 2]
            BY ONLY <2>5
        <3>4. e \in Pair /\ h \in Pair BY <2>1, <3>0, <3>2 DEF FitPair
        <3> HIDE DEF pairs
        <3>5. /\ pairs \in Seq(Pair) /\ Len(pairs) = n + 2
              /\ pairs[1] = <<"errno", "errno">> /\ pairs[2] = <<"reqpid", "tid">>
              /\ \A i \in 3 .. n + 2 : pairs[i] = b[i - 2]
            <4>1. LET u == <<e>> \o <<h>> \o b
                  IN  /\ u \in Seq(Pair) /\ Len(u) = n + 2 /\ u[1] = e /\ u[2] = h
                      /\ \A i \in 3 .. n + 2 : u[i] = b[i - 2]
                BY ONLY <3>3, <3>4, Zenon
            <4> QED BY <3>0, <3>1, <4>1, Zenon
        <3>6. ASSUME NEW i \in 1 .. n + 2
              PROVE  \/ Fits(pairs[i][1], pairs[i][2])
                     \/ \E j \in 1 .. i - 1 : pairs[j][1] = pairs[i][1]
            <4>1. CASE i = 1 BY <2>1, <3>5, <4>1 DEF FitPair
            <4>2. CASE i = 2 BY <3>2, <3>5, <4>2 DEF FitPair
            <4>3. CASE i \in 3 .. n + 2
                <5>1. i - 2 \in 1 .. n /\ 2 \in 1 .. i - 1 BY <2>5, <4>3
                <5>2. pairs[i][1] \in Keys /\ pairs[i][2] = pairs[i][1] BY <2>5, <3>5, <4>3, <5>1
                <5>3. CASE pairs[i][1] = "reqpid" BY <3>5, <5>1, <5>3
                <5>4. CASE pairs[i][1] # "reqpid" BY <2>3, <5>2, <5>4 DEF Fits
                <5> QED BY <5>3, <5>4
            <4> QED BY <2>5, <4>1, <4>2, <4>3
        <3> QED BY <2>5, <3>5, <3>6
    <2> QED BY <2>6, <2>7
<1> HIDE DEF pairs
<1>2. PICK asked : asked = InsertAll(map, pairs) OBVIOUS
<1>3. /\ Filed(asked) /\ \A s \in DOMAIN map : s \in DOMAIN asked
      /\ "errno" \in DOMAIN asked
    <2>1. /\ Filed(asked) /\ \A s \in DOMAIN map : s \in DOMAIN asked
          /\ \A i \in 1 .. Len(pairs) : pairs[i][1] \in DOMAIN asked
        BY <1>1, <1>2, FiledAll
    <2>2. 1 \in 1 .. Len(pairs) BY <1>1
    <2> QED BY <1>1, <2>1, <2>2
<1>4. UserNames(asked) \in Seq(FitPair)
    <2>1. "uid" \in DOMAIN asked => asked["uid"] = "uid" BY <1>3 DEF Filed, Fits, Due
    <2>2. "gid" \in DOMAIN asked => asked["gid"] = "gid" BY <1>3 DEF Filed, Fits, Due
    <2>3. /\ <<<<"username", "username">>>> \in Seq(FitPair)
          /\ <<<<"groupname", "groupname">>>> \in Seq(FitPair) /\ <<>> \in Seq(FitPair)
        BY DEF FitPair, Pair, Fits, Due, Specifiers
    <2> DEFINE a == IF "uid" \in DOMAIN asked THEN <<<<"username", NameOf(asked["uid"])>>>>
                    ELSE <<>>
               b == IF "gid" \in DOMAIN asked THEN <<<<"groupname", NameOf(asked["gid"])>>>>
                    ELSE <<>>
    <2>4. a \in Seq(FitPair) BY <2>1, <2>3 DEF NameOf
    <2>5. b \in Seq(FitPair) BY <2>2, <2>3 DEF NameOf
    <2>6. UserNames(asked) = a \o b BY DEF UserNames
    <2> HIDE DEF a, b
    <2> QED BY <2>4, <2>5, <2>6, Joined
<1>5. Complete(map) = InsertAll(asked, UserNames(asked)) BY <1>2 DEF Complete, pairs
<1> QED BY <1>3, <1>4, <1>5, FiledFit

-----------------------------------------------------------------------------
(* The text.                                                               *)

\* What a text and a line consist of.
Written == Tokens \cup Strays

\* The newline is text, and the buffer has room for it.
LEMMA Room == Capacity \in Nat \ {0} /\ NL \in Written
<1>1. Capacity \in Nat \ {0} BY RecordAssumption
<1>2. {NL, "space", "brace", "pidis", "uidis", "bracket"} \subseteq Texts BY RecordAssumption, Zenon
<1> QED BY <1>1, <1>2 DEF Written, Tokens

\* The default is a format.
LEMMA DefaultIsFormat == DefaultFormat \in Seq(Tokens) \ {<<>>}
<1>1. {NL, "space", "brace", "pidis", "uidis", "bracket"} \subseteq Texts BY RecordAssumption, Zenon
<1>2. {"action", "abspath", "errno", "reqpid", "cmdname", "requid"} \subseteq Specifiers
    BY DEF Specifiers
<1>3. {"space", "brace", "pidis", "uidis", "bracket", "action", "abspath", "errno", "reqpid",
       "cmdname", "requid"} \subseteq Tokens
    BY <1>1, <1>2 DEF Tokens
<1>4. DefaultFormat \in Seq(Tokens) BY ONLY <1>3 DEF DefaultFormat
<1>5. DefaultFormat # <<>> BY DEF DefaultFormat
<1> QED BY <1>4, <1>5

\* What render answers at place i.
Want(i) ==
    IF i \in Positions /\ format[i] \in DOMAIN values THEN values[format[i]] ELSE format[i]

\* t is a and then b's places up to n.
LEMMA Spliced ==
    ASSUME NEW S, NEW a \in Seq(S), NEW b \in Seq(S), NEW n \in Nat,
           Len(a) =< n, n =< Len(b)
    PROVE  LET t == a \o SubSeq(b, Len(a) + 1, n)
           IN  /\ t \in Seq(S) /\ Len(t) = n
               /\ \A i \in 1 .. Len(a) : t[i] = a[i]
               /\ \A i \in Len(a) + 1 .. n : t[i] = b[i]
<1> DEFINE c == SubSeq(b, Len(a) + 1, n)
<1>1. Len(a) \in Nat /\ Len(b) \in Nat OBVIOUS
<1>2. /\ c \in Seq(S) /\ Len(c) = n - Len(a)
      /\ \A i \in 1 .. n - Len(a) : c[i] = b[Len(a) + i]
    <2>1. Len(a) + 1 \in 1 .. Len(b) + 1 /\ n \in Len(a) .. Len(b) BY <1>1
    <2>2. \A i \in Len(a) + 1 .. n : b[i] \in S BY <1>1
    <2> QED BY <1>1, <2>1, <2>2, SubSeqProperties
<1> HIDE DEF c
<1>3. /\ a \o c \in Seq(S) /\ Len(a \o c) = n
      /\ \A i \in 1 .. n : (a \o c)[i] = IF i =< Len(a) THEN a[i] ELSE c[i - Len(a)]
    BY <1>1, <1>2, ConcatProperties
<1>4. ASSUME NEW i \in Len(a) + 1 .. n PROVE (a \o c)[i] = b[i]
    <2>1. i - Len(a) \in 1 .. n - Len(a) /\ Len(a) + (i - Len(a)) = i /\ i \in 1 .. n
          /\ ~ (i =< Len(a))
        BY <1>1
    <2> QED BY <1>2, <1>3, <2>1
<1> QED BY <1>1, <1>3, <1>4 DEF c

\* One value behind it.
LEMMA Extended ==
    ASSUME NEW S, NEW a \in Seq(S), NEW x \in S
    PROVE  /\ a \o <<x>> \in Seq(S) /\ Len(a \o <<x>>) = Len(a) + 1
           /\ \A i \in 1 .. Len(a) : (a \o <<x>>)[i] = a[i]
           /\ (a \o <<x>>)[Len(a) + 1] = x
OBVIOUS

\* While it is rendered, the text is right up to the last place it was given a
\* value for, and none of the specifiers passed since has one.
RInv ==
    /\ fpit \in {0} \cup Positions /\ prev \in {0} \cup Positions /\ prev <= fpit
    /\ text \in Seq(Written)
    /\ pc \in {"prologue", "handle", "log"} => fpit = 0 /\ prev = 0 /\ text = <<>>
    /\ pc = "render" =>
         /\ Len(text) = prev /\ \A i \in 1 .. prev : text[i] = Want(i)
         /\ \A i \in Positions : prev < i /\ i <= fpit => format[i] \notin DOMAIN values
    /\ pc = "send" => Len(text) = Len(format) /\ \A i \in 1 .. Len(format) : text[i] = Want(i)

\* The record, from its begin to its line.
VInv ==
    /\ pc \in {"prologue", "handle", "log", "render", "send", "done"}
    /\ op \in Ops /\ format \in Seq(Tokens) \ {<<>>}
    /\ Filed(values)
    /\ pc \in {"render", "send"} => {"action", "relpath", "errno"} \subseteq DOMAIN values
    /\ line # <<>> => pc = "done"

\* A format is not empty.
LEMMA InitInv == Init => VInv /\ RInv /\ LineWhole
<1> SUFFICES ASSUME Init PROVE VInv /\ RInv /\ LineWhole OBVIOUS
<1>1. PICK cf \in Formats : format = Configured(cf) BY DEF Init
<1>2. Formats \subseteq Seq(Tokens) BY RecordAssumption, Zenon
<1>3. format \in Seq(Tokens) \ {<<>>} BY <1>1, <1>2, DefaultIsFormat DEF Configured
<1>4. Filed(values) BY DEF Init, NoValues, Filed
<1>5. VInv BY <1>3, <1>4 DEF Init, VInv
<1>6. RInv BY DEF Init, RInv
<1>7. LineWhole BY DEF Init, LineWhole
<1> QED BY <1>5, <1>6, <1>7

\* The values of a record fit at every step.
LEMMA ValuesStep == VInv /\ [Next]_vars => VInv'
<1> SUFFICES ASSUME VInv, [Next]_vars PROVE VInv' OBVIOUS
<1>1. UNCHANGED <<op, format>>
    BY DEF Next, vars, Prologue, Handle, Log, Render, Rendered, Send
<1>2. Filed(values') => Filed(values)' BY <1>1 DEF Filed, Fits, Due, Has
<1>3. CASE Prologue
    <2>1. <<"action", "relpath">> \in Seq(Plain) BY DEF Plain, Due, Specifiers
    <2>2. Own(<<"action", "relpath">>) \in Seq(FitPair) BY <2>1, OwnFits
    <2>3. Filed(values') BY <1>3, <2>2, FiledFit DEF Prologue, VInv
    <2> QED BY <1>1, <1>2, <1>3, <2>3 DEF VInv, Prologue
<1>4. CASE Handle
    <2>1. Filed(values') BY <1>4, FieldsFit, FiledAll DEF Handle, VInv
    <2> QED BY <1>1, <1>2, <1>4, <2>1 DEF VInv, Handle
<1>5. CASE Log
    <2>1. CASE /\ {"action", "relpath"} \subseteq DOMAIN values /\ values' = Complete(values)
               /\ pc' = "render"
        <3>1. /\ Filed(values') /\ "errno" \in DOMAIN values'
              /\ DOMAIN values \subseteq DOMAIN values'
            BY <2>1, CompleteFits DEF VInv
        <3> QED BY <1>1, <1>2, <1>5, <2>1, <3>1 DEF VInv, Log
    <2>2. CASE pc' = "done" /\ UNCHANGED values
        BY <1>1, <1>2, <1>5, <2>2 DEF VInv, Log
    <2> QED BY <1>5, <2>1, <2>2 DEF Log
<1>6. CASE Render \/ Rendered \/ Send
    <2>1. values' = values BY <1>6 DEF Render, Rendered, Send
    <2> QED BY <1>1, <1>2, <1>6, <2>1 DEF VInv, Render, Rendered, Send
<1>7. CASE UNCHANGED vars BY <1>2, <1>7 DEF VInv, vars
<1> QED BY <1>3, <1>4, <1>5, <1>6, <1>7 DEF Next

\* A value may stand in the text.
LEMMA ValuesAreText ==
    ASSUME VInv, NEW s \in DOMAIN values
    PROVE  values[s] \in Written
BY DEF VInv, Filed, Written, Tokens

\* The places that render is done with hold what they should, up to any place
\* before which no specifier with a value is ahead.
LEMMA TextUpTo ==
    ASSUME VInv, RInv, pc = "render", NEW n \in Nat, prev =< n, n =< Len(format),
           \A i \in Positions : fpit < i /\ i =< n => format[i] \notin DOMAIN values
    PROVE  LET t == text \o SubSeq(format, prev + 1, n)
           IN  t \in Seq(Written) /\ Len(t) = n /\ \A i \in 1 .. n : t[i] = Want(i)
<1> DEFINE t == text \o SubSeq(format, prev + 1, n)
<1>0. n \in Nat /\ prev =< n /\ n =< Len(format) OBVIOUS
<1>1. /\ text \in Seq(Written) /\ format \in Seq(Written) /\ Len(text) = prev
      /\ \A i \in 1 .. prev : text[i] = Want(i)
      /\ prev \in Nat /\ fpit \in Nat /\ prev =< fpit
    BY DEF VInv, RInv, Positions, Written
<1>2. /\ t \in Seq(Written) /\ Len(t) = n
      /\ \A i \in 1 .. prev : t[i] = text[i]
      /\ \A i \in prev + 1 .. n : t[i] = format[i]
    <2>1. PICK a, b : a = text /\ b = format OBVIOUS
    <2>2. a \in Seq(Written) /\ b \in Seq(Written) /\ Len(a) =< n /\ n =< Len(b)
        BY <1>0, <1>1, <2>1
    <2>3. LET u == a \o SubSeq(b, Len(a) + 1, n)
          IN  /\ u \in Seq(Written) /\ Len(u) = n
              /\ \A i \in 1 .. Len(a) : u[i] = a[i]
              /\ \A i \in Len(a) + 1 .. n : u[i] = b[i]
        BY ONLY <1>0, <2>2, Spliced
    <2> QED BY <1>1, <2>1, <2>3
<1> HIDE DEF t
<1>3. ASSUME NEW i \in prev + 1 .. n PROVE t[i] = Want(i)
    <2>1. i \in Positions => format[i] \notin DOMAIN values
        <3>1. i \in Nat /\ prev < i /\ i =< n BY <1>1
        <3>2. i \in Positions /\ prev < i /\ i =< fpit => format[i] \notin DOMAIN values
            BY DEF RInv
        <3> QED BY <1>1, <3>1, <3>2
    <2>2. t[i] = format[i] BY <1>2
    <2> QED BY <2>1, <2>2 DEF Want
<1>4. \A i \in 1 .. n : i \in 1 .. prev \/ i \in prev + 1 .. n BY <1>1
<1>5. \A i \in 1 .. n : t[i] = Want(i) BY <1>1, <1>2, <1>3, <1>4
<1> QED BY <1>2, <1>5 DEF t

\* One round of the loop.
LEMMA RoundStep == VInv /\ RInv /\ Render => RInv'
<1> SUFFICES ASSUME VInv, RInv, Render PROVE RInv' OBVIOUS
<1>1. PICK at \in Ahead :
         /\ \A i \in Ahead : at <= i
         /\ fpit' = at
         /\ IF format[at] \in DOMAIN values
            THEN /\ text' = text \o SubSeq(format, prev + 1, at - 1) \o <<values[format[at]]>>
                 /\ prev' = at
            ELSE UNCHANGED <<text, prev>>
    BY DEF Render
<1>2. pc = "render" /\ UNCHANGED <<pc, op, format, values, line>> BY DEF Render
<1>3. /\ at \in Positions /\ at \in 1 .. Len(format) /\ fpit < at
      /\ fpit \in Nat /\ prev \in Nat /\ prev =< fpit /\ Len(format) \in Nat
    BY DEF Ahead, Positions, RInv, VInv
<1>4. Positions' = Positions /\ \A i : Want(i)' = Want(i)
    BY <1>2 DEF Positions, Found, Want
<1>5. \A i \in Positions : fpit < i => at =< i BY <1>1 DEF Ahead
<1>6. \A i \in Positions : i \in Nat BY DEF Positions
<1>7. CASE format[at] \in DOMAIN values
    <2> DEFINE u == text \o SubSeq(format, prev + 1, at - 1)
    <2>1. text' = u \o <<values[format[at]]>> /\ prev' = at BY <1>1, <1>7
    <2>2. u \in Seq(Written) /\ Len(u) = at - 1 /\ \A i \in 1 .. at - 1 : u[i] = Want(i)
        <3>1. at - 1 \in Nat /\ prev =< at - 1 /\ at - 1 =< Len(format) BY <1>3
        <3>2. \A i \in Positions : fpit < i /\ i =< at - 1 => format[i] \notin DOMAIN values
            BY <1>3, <1>5, <1>6
        <3> QED BY <1>2, <3>1, <3>2, TextUpTo
    <2> HIDE DEF u
    <2>3. values[format[at]] \in Written BY <1>7, ValuesAreText
    <2>4. /\ text' \in Seq(Written) /\ Len(text') = at
          /\ \A i \in 1 .. at - 1 : text'[i] = u[i]
          /\ text'[at] = values[format[at]]
        <3>1. PICK v : v = values[format[at]] OBVIOUS
        <3>2. /\ u \o <<v>> \in Seq(Written) /\ Len(u \o <<v>>) = Len(u) + 1
              /\ \A i \in 1 .. Len(u) : (u \o <<v>>)[i] = u[i]
              /\ (u \o <<v>>)[Len(u) + 1] = v
            BY <2>2, <2>3, <3>1, Extended
        <3>3. Len(u) + 1 = at BY <1>3, <2>2
        <3> QED BY <2>1, <2>2, <3>1, <3>2, <3>3
    <2>5. Want(at) = values[format[at]] BY <1>3, <1>7 DEF Want
    <2>6. \A i \in 1 .. at : i \in 1 .. at - 1 \/ i = at BY <1>3
    <2>7. \A i \in 1 .. at : text'[i] = Want(i) BY <2>2, <2>4, <2>5, <2>6
    <2>8. \A i \in Positions : ~ (at < i /\ i =< at) BY <1>3, <1>6
    <2> QED BY <1>1, <1>2, <1>3, <1>4, <2>1, <2>4, <2>7, <2>8 DEF RInv
<1>8. CASE format[at] \notin DOMAIN values
    <2>1. UNCHANGED <<text, prev>> BY <1>1, <1>8
    <2>2. \A i \in Positions : prev < i /\ i =< at => format[i] \notin DOMAIN values
        <3>1. \A i \in Positions : prev < i /\ i =< fpit => format[i] \notin DOMAIN values
            BY <1>2 DEF RInv
        <3>2. \A i \in Positions : i =< at => i =< fpit \/ i = at BY <1>3, <1>5, <1>6
        <3> QED BY <1>8, <3>1, <3>2
    <2>3. prev =< at BY <1>3
    <2> QED BY <1>1, <1>2, <1>3, <1>4, <2>1, <2>2, <2>3 DEF RInv
<1> QED BY <1>7, <1>8

\* The text stays right.
LEMMA TextStep == VInv /\ RInv /\ [Next]_vars => RInv'
<1> SUFFICES ASSUME VInv, RInv, [Next]_vars PROVE RInv' OBVIOUS
<1>1. Positions' = Positions
    BY DEF Positions, Found, Next, vars, Prologue, Handle, Log, Render, Rendered, Send
<1>2. CASE Prologue \/ Handle BY <1>1, <1>2 DEF RInv, Prologue, Handle
<1>3. CASE Log
    <2>1. fpit = 0 /\ prev = 0 /\ text = <<>> /\ UNCHANGED <<fpit, prev, text>>
        BY <1>3 DEF RInv, Log
    <2>2. pc' \in {"render", "done"} BY <1>3 DEF Log
    <2>3. \A i \in Positions : ~ (0 < i /\ i =< 0) BY DEF Positions
    <2>4. \A i \in 1 .. 0 : FALSE OBVIOUS
    <2> QED BY <1>1, <2>1, <2>2, <2>3, <2>4 DEF RInv
<1>4. CASE Render BY <1>4, RoundStep
<1>5. CASE Rendered
    <2>1. /\ pc = "render" /\ pc' = "send" /\ Ahead = {}
          /\ text' = text \o SubSeq(format, prev + 1, Len(format))
          /\ UNCHANGED <<op, format, values, fpit, prev, line>>
        BY <1>5 DEF Rendered
    <2>2. Len(format) \in Nat /\ prev =< Len(format) BY DEF VInv, RInv, Positions
    <2>3. \A i \in Positions : fpit < i /\ i =< Len(format) => format[i] \notin DOMAIN values
        BY <2>1 DEF Ahead
    <2>4. /\ text' \in Seq(Written) /\ Len(text') = Len(format)
          /\ \A i \in 1 .. Len(format) : text'[i] = Want(i)
        <3>1. PICK n : n = Len(format) OBVIOUS
        <3>2. /\ n \in Nat /\ prev =< n /\ n =< Len(format) /\ pc = "render"
              /\ \A i \in Positions : fpit < i /\ i =< n => format[i] \notin DOMAIN values
            BY <2>1, <2>2, <2>3, <3>1
        <3>3. LET t == text \o SubSeq(format, prev + 1, n)
              IN  t \in Seq(Written) /\ Len(t) = n /\ \A i \in 1 .. n : t[i] = Want(i)
            BY <3>2, TextUpTo
        <3> QED BY <2>1, <3>1, <3>3
    <2>5. \A i : Want(i)' = Want(i) BY <1>1, <2>1 DEF Want
    <2> QED BY <1>1, <2>1, <2>4, <2>5 DEF RInv
<1>6. CASE Send BY <1>1, <1>6 DEF RInv, Send
<1>7. CASE UNCHANGED vars
    <2>1. \A i : Want(i)' = Want(i) BY <1>1, <1>7 DEF Want, vars
    <2> QED BY <1>1, <1>7, <2>1 DEF RInv, vars
<1> QED BY <1>2, <1>3, <1>4, <1>5, <1>6, <1>7 DEF Next

-----------------------------------------------------------------------------
(* The line.                                                               *)

\* The first places of a sequence.
LEMMA FirstPlaces ==
    ASSUME NEW S, NEW s \in Seq(S), NEW n \in Nat, n =< Len(s)
    PROVE  /\ SubSeq(s, 1, n) \in Seq(S) /\ Len(SubSeq(s, 1, n)) = n
           /\ \A i \in 1 .. n : SubSeq(s, 1, n)[i] = s[i]
<1>1. 1 \in Int /\ n \in Int /\ n - 1 + 1 = n OBVIOUS
<1>2. \A i \in 1 .. n : s[i] \in S OBVIOUS
<1>3. /\ SubSeq(s, 1, n) \in Seq(S)
      /\ Len(SubSeq(s, 1, n)) = IF 1 <= n THEN n - 1 + 1 ELSE 0
      /\ \A i \in 1 .. n - 1 + 1 : SubSeq(s, 1, n)[i] = s[1 + i - 1]
    BY ONLY <1>1, <1>2, SubSeqProperties
<1>4. \A i \in 1 .. n : 1 + i - 1 = i OBVIOUS
<1> QED BY <1>1, <1>3, <1>4

\* The last place is cut off.
LEMMA FrontIs ==
    ASSUME NEW S, NEW s \in Seq(S), Len(s) > 0
    PROVE  /\ Front(s) \in Seq(S) /\ Len(Front(s)) = Len(s) - 1
           /\ \A i \in 1 .. Len(s) - 1 : Front(s)[i] = s[i]
<1>1. Len(s) - 1 \in Nat /\ Len(s) - 1 =< Len(s) OBVIOUS
<1> QED BY <1>1, FirstPlaces DEF Front

\* A sequence is a prefix of one that has its places.
LEMMA PrefixOf ==
    ASSUME NEW S, NEW s \in Seq(S), NEW t \in Seq(S), Len(s) =< Len(t),
           \A i \in 1 .. Len(s) : s[i] = t[i]
    PROVE  IsPrefix(s, t)
<1>1. Len(s) \in Nat /\ Len(s) =< Len(s) OBVIOUS
<1>2. /\ SubSeq(s, 1, Len(s)) \in Seq(S) /\ Len(SubSeq(s, 1, Len(s))) = Len(s)
      /\ \A i \in 1 .. Len(s) : SubSeq(s, 1, Len(s))[i] = s[i]
    BY <1>1, FirstPlaces
<1>3. /\ SubSeq(t, 1, Len(s)) \in Seq(S) /\ Len(SubSeq(t, 1, Len(s))) = Len(s)
      /\ \A i \in 1 .. Len(s) : SubSeq(t, 1, Len(s))[i] = t[i]
    BY <1>1, FirstPlaces
<1>4. SubSeq(s, 1, Len(s)) = SubSeq(t, 1, Len(s)) BY <1>2, <1>3, SeqEqual
<1> QED BY <1>4 DEF IsPrefix

\* What the buffer has taken of the text, the newline behind it if there was room.
LEMMA StreamedIs ==
    ASSUME text \in Seq(Written)
    PROVE  /\ Streamed \in Seq(Written) /\ Len(Streamed) > 0
           /\ Len(Streamed) = (IF Len(text) < Capacity THEN Len(text) + 1 ELSE Capacity)
           /\ \A i \in 1 .. Len(Streamed) : i =< Len(text) => Streamed[i] = text[i]
           /\ Len(text) < Capacity => Streamed[Len(Streamed)] = NL
<1>0. Len(text) \in Nat /\ Capacity \in Nat \ {0} /\ NL \in Written BY Room
<1>1. CASE Len(text) < Capacity
    <2>1. Streamed = Append(text, NL) BY <1>1 DEF Streamed
    <2>2. /\ Append(text, NL) \in Seq(Written) /\ Len(Append(text, NL)) = Len(text) + 1
          /\ \A i \in 1 .. Len(text) : Append(text, NL)[i] = text[i]
          /\ Append(text, NL)[Len(text) + 1] = NL
        BY <1>0, AppendProperties
    <2>3. \A i \in 1 .. Len(text) + 1 : i =< Len(text) => i \in 1 .. Len(text) BY <1>0
    <2> QED BY <1>0, <1>1, <2>1, <2>2, <2>3
<1>2. CASE ~ (Len(text) < Capacity)
    <2>1. Streamed = SubSeq(text, 1, Capacity) BY <1>2 DEF Streamed
    <2>3. /\ SubSeq(text, 1, Capacity) \in Seq(Written)
          /\ Len(SubSeq(text, 1, Capacity)) = Capacity
          /\ \A i \in 1 .. Capacity : SubSeq(text, 1, Capacity)[i] = text[i]
        BY <1>0, <1>2, FirstPlaces
    <2> QED BY <1>0, <1>2, <2>1, <2>3
<1> QED BY <1>1, <1>2

\* Flush ends it in a newline, over its last place if it must.
LEMMA FlushIs ==
    ASSUME NEW b \in Seq(Written), Len(b) > 0, Len(b) =< Capacity
    PROVE  /\ Flush(b) \in Seq(Written) /\ Len(Flush(b)) > 0
           /\ Flush(b)[Len(Flush(b))] = NL
           /\ \A i \in 1 .. Len(Flush(b)) - 1 : i \in 1 .. Len(b) /\ Flush(b)[i] = b[i]
           /\ Len(Flush(b)) = IF b[Len(b)] = NL \/ Len(b) = Capacity THEN Len(b) ELSE Len(b) + 1
<1>0. Len(b) \in Nat /\ Capacity \in Nat \ {0} /\ NL \in Written BY Room
<1>1. CASE b[Len(b)] = NL
    <2>1. Flush(b) = b BY <1>1 DEF Flush, Last
    <2> QED BY <1>0, <1>1, <2>1
<1>2. CASE b[Len(b)] # NL
    <2> DEFINE c == IF Len(b) = Capacity THEN Front(b) ELSE b
    <2>1. Flush(b) = Append(c, NL) BY <1>2 DEF Flush, Last
    <2>2. /\ c \in Seq(Written) /\ Len(c) = IF Len(b) = Capacity THEN Len(b) - 1 ELSE Len(b)
          /\ \A i \in 1 .. Len(c) : i \in 1 .. Len(b) /\ c[i] = b[i]
        <3>1. CASE Len(b) = Capacity
            <4>1. c = Front(b) BY <3>1
            <4>2. /\ Front(b) \in Seq(Written) /\ Len(Front(b)) = Len(b) - 1
                  /\ \A i \in 1 .. Len(b) - 1 : Front(b)[i] = b[i]
                BY <1>0, FrontIs
            <4>3. \A i \in 1 .. Len(b) - 1 : i \in 1 .. Len(b) BY <1>0
            <4> QED BY <3>1, <4>1, <4>2, <4>3
        <3>2. CASE Len(b) # Capacity BY <3>2
        <3> QED BY <3>1, <3>2
    <2> HIDE DEF c
    <2>3. /\ Append(c, NL) \in Seq(Written) /\ Len(Append(c, NL)) = Len(c) + 1
          /\ \A i \in 1 .. Len(c) : Append(c, NL)[i] = c[i]
          /\ Append(c, NL)[Len(c) + 1] = NL
        BY <1>0, <2>2, AppendProperties
    <2>4. Len(c) \in Nat /\ Len(c) + 1 - 1 = Len(c) BY <2>2
    <2> QED BY <1>0, <1>2, <2>1, <2>2, <2>3, <2>4
<1> QED BY <1>1, <1>2

\* Sending makes the line.
LEMMA LineStep == VInv /\ RInv /\ LineWhole /\ [Next]_vars => LineWhole'
<1> SUFFICES ASSUME VInv, RInv, LineWhole, [Next]_vars PROVE LineWhole' OBVIOUS
<1>1. CASE Send
    <2>1. text \in Seq(Written) /\ UNCHANGED text /\ line' = Flush(Streamed)
        BY <1>1 DEF Send, RInv
    <2>2. PICK b : b = Streamed OBVIOUS
    <2>3. /\ b \in Seq(Written) /\ Len(b) > 0
          /\ Len(b) = (IF Len(text) < Capacity THEN Len(text) + 1 ELSE Capacity)
          /\ \A i \in 1 .. Len(b) : i =< Len(text) => b[i] = text[i]
          /\ Len(text) < Capacity => b[Len(b)] = NL
        BY <2>1, <2>2, StreamedIs
    <2>4. Len(text) \in Nat /\ Capacity \in Nat /\ Len(b) \in Nat BY <2>1, <2>3, Room
    <2>5. Len(b) =< Capacity BY <2>3, <2>4
    <2>6. PICK n : n = line' OBVIOUS
    <2>7. /\ n \in Seq(Written) /\ Len(n) > 0 /\ n[Len(n)] = NL
          /\ \A i \in 1 .. Len(n) - 1 : i \in 1 .. Len(b) /\ n[i] = b[i]
          /\ Len(n) = IF b[Len(b)] = NL \/ Len(b) = Capacity THEN Len(b) ELSE Len(b) + 1
        BY <2>1, <2>2, <2>3, <2>5, <2>6, FlushIs
    <2>8. Len(n) = Len(b) /\ Len(n) \in Nat BY <2>3, <2>4, <2>7
    <2>9. IsPrefix(Front(n), text)
        <3>1. /\ Front(n) \in Seq(Written) /\ Len(Front(n)) = Len(n) - 1
              /\ \A i \in 1 .. Len(n) - 1 : Front(n)[i] = n[i]
            BY <2>7, FrontIs
        <3>2. Len(n) - 1 =< Len(text) BY <2>3, <2>4, <2>8
        <3>3. \A i \in 1 .. Len(n) - 1 : i \in 1 .. Len(b) /\ i =< Len(text) BY <2>4, <2>8, <3>2
        <3>4. \A i \in 1 .. Len(n) - 1 : Front(n)[i] = text[i] BY <2>3, <2>7, <3>1, <3>3
        <3> QED BY <2>1, <3>1, <3>2, <3>4, PrefixOf
    <2>10. /\ Len(n) <= Capacity /\ Last(n) = NL /\ IsPrefix(Front(n), text)
           /\ Len(n) = (IF Len(text) < Capacity THEN Len(text) + 1 ELSE Capacity)
        BY <2>3, <2>5, <2>7, <2>8, <2>9 DEF Last
    <2> QED BY <2>1, <2>6, <2>10 DEF LineWhole
<1>2. CASE ~ Send
    <2>1. UNCHANGED line BY <1>2 DEF Next, vars, Prologue, Handle, Log, Render, Rendered
    <2>2. line # <<>> => UNCHANGED text
        BY <1>2 DEF VInv, Next, vars, Prologue, Handle, Log, Render, Rendered
    <2> QED BY <2>1, <2>2 DEF LineWhole
<1> QED BY <1>1, <1>2

-----------------------------------------------------------------------------
(* The theorems.                                                           *)

\* The invariant: the values fit their specifiers, the text is right as far as
\* it is rendered, and a line is the text it was made of.
LEMMA Invariance == Spec => [](VInv /\ RInv /\ LineWhole)
<1> QED BY InitInv, ValuesStep, TextStep, LineStep, PTL DEF Spec

\* The types, and that a record that is rendered was begun, for any formats,
\* operations and buffer.
THEOREM TypeCorrect == Spec => []TypeOK
<1>1. VInv /\ RInv => TypeOK BY DEF VInv, RInv, Filed, TypeOK
<1> QED BY <1>1, Invariance, PTL

\* Every value of a record is its specifier's own, with exactly the exceptions of
\* Due, whatever operation was asked for and whatever the format holds.
THEOREM FieldCorrect == Spec => []FieldIsItsOwn
<1>1. VInv => FieldIsItsOwn BY DEF VInv, Filed, Fits, FieldIsItsOwn
<1> QED BY <1>1, Invariance, PTL

\* Format::render puts every value in its specifier's first place and leaves the
\* rest of the text alone, for every format and every values.
THEOREM RenderCorrect == Spec => []RenderExact
<1>1. VInv /\ RInv => RenderExact
    <2> SUFFICES ASSUME VInv, RInv, pc = "send" PROVE RenderExact BY DEF RenderExact
    <2>1. Len(text) = Len(format) /\ \A i \in 1 .. Len(format) : text[i] = Want(i) BY DEF RInv
    <2>2. Len(format) \in Nat BY DEF VInv
    <2>3. ASSUME NEW i \in 1 .. Len(format)
          PROVE  LET first == i = CHOOSE j \in 1 .. Len(format) :
                                    /\ format[j] = format[i]
                                    /\ \A k \in 1 .. j - 1 : format[k] # format[i]
                 IN  text[i] = IF first /\ format[i] \in DOMAIN values
                               THEN values[format[i]] ELSE format[i]
        <3> DEFINE Is(j) == /\ format[j] = format[i]
                            /\ \A k \in 1 .. j - 1 : format[k] # format[i]
        <3>1. \E j \in 1 .. Len(format) : Is(j)
            <4> DEFINE S == {j \in 1 .. Len(format) : format[j] = format[i]}
            <4>1. S \in SUBSET Nat /\ i \in S OBVIOUS
            <4>2. PICK j \in S : \A k \in S : j =< k BY <4>1, Least
            <4>3. \A k \in 1 .. j - 1 : k \in 1 .. Len(format) /\ ~ (j =< k) BY <2>2
            <4> QED BY <4>2, <4>3
        <3>2. \A j, k \in 1 .. Len(format) : Is(j) /\ Is(k) => j = k
            <4> SUFFICES ASSUME NEW j \in 1 .. Len(format), NEW k \in 1 .. Len(format),
                                Is(j), Is(k)
                         PROVE  j = k
                OBVIOUS
            <4>1. ~ (j < k) /\ ~ (k < j)
                <5>1. j < k => j \in 1 .. k - 1 OBVIOUS
                <5>2. k < j => k \in 1 .. j - 1 OBVIOUS
                <5> QED BY <5>1, <5>2
            <4> QED BY <4>1
        <3>3. (i = CHOOSE j \in 1 .. Len(format) : Is(j)) <=> Is(i)
            <4> HIDE DEF Is
            <4> QED BY <3>1, <3>2
        <3>4. Is(i) <=> Found(i) BY DEF Found
        <3>5. format[i] \in DOMAIN values => format[i] \in Specifiers BY DEF VInv, Filed
        <3>6. text[i] = IF Is(i) /\ format[i] \in DOMAIN values THEN values[format[i]]
                        ELSE format[i]
            <4> HIDE DEF Is
            <4> QED BY <2>1, <3>4, <3>5 DEF Want, Positions
        <3> QED BY <3>3, <3>6
    <2> QED BY <2>1, <2>3 DEF RenderExact
<1> QED BY <1>1, Invariance, PTL

\* The line is the text cut to the buffer, and ends in a newline, for every
\* format, operation and capacity.
THEOREM LineCorrect == Spec => []LineWhole
<1> QED BY Invariance, PTL
=============================================================================
