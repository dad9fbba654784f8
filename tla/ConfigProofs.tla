---------------------------- MODULE ConfigProofs ----------------------------
(* The two-stage decision of Config, for every list of filters, any number  *)
(* of threads racing on the bitset, and whatever the freed patterns hold.  *)
EXTENDS Config, SequenceTheorems, TLAPS

\* The filter that -i and -x add is a filter.
LEMMA CommandLine == CommandLineFilter \in Filters
  BY ConfigAssumption DEF CommandLineFilter, Filters, Pattern

\* What a list may find first, and what it may not find at all, while the
\* patterns are intact.
LEMMA IntactHits ==
    ASSUME intact, NEW s, NEW q
    PROVE  /\ \A i \in FirstHits(s, q) : i \in DOMAIN s /\ Hits(s[i], q)
           /\ NoneHits(s, q) => \A i \in DOMAIN s : ~ Hits(s[i], q)
  BY DEF FirstHits, NoneHits, MayHit, MayPass, MayMatch, MayMiss, MatchUid, Hits, AnyUid

\* An include that may be found first compiled and admits the user.
LEMMA HitAdmits ==
    ASSUME NEW s, NEW q, NEW i \in FirstHits(s, q)
    PROVE  /\ i \in DOMAIN s /\ s[i].uid \in {q.uid, -1}
           /\ Null \notin {s[i].ext, s[i].act, s[i].ret}
  BY DEF FirstHits, MayHit, MayMatch, MatchUid, AnyUid

-----------------------------------------------------------------------------
(* Loading                                                                 *)

\* The initial configuration has no filters and nobody asks.
LEMMA InitInv == Init => IInv
  <1> SUFFICES ASSUME Init PROVE IInv
    OBVIOUS
  <1>1. includes = <<>> /\ <<>> \in Seq(Filters)
    BY EmptySeq DEF Init
  <1>2. TypeOK
    BY <1>1 DEF Init, TypeOK, Labels
  <1>3. LoadedInv
    BY <1>1 DEF Init, LoadedInv
  <1> QED
    BY <1>2, <1>3
    DEF Init, IInv, BitInv, UndecidedInv, DecisionExact, DecisionBounded, FormatChosen

\* Before requests are served the threads' part of the invariant is that
\* they are idle and have touched nothing.
LEMMA Quiet ==
    ASSUME IInv, ~ serving, UNCHANGED <<locals, shallnotlog>>
    PROVE  BitInv' /\ UndecidedInv' /\ DecisionExact' /\ DecisionBounded' /\ FormatChosen'
  <1>1. /\ shallnotlog' = {}
        /\ \A t \in Threads : /\ pc'[t] = "idle" /\ word'[t] = {}
                              /\ ~ verdict'[t] /\ format'[t] = Unset
    BY DEF IInv, TypeOK, LoadedInv, UndecidedInv, locals
  <1>2. BitInv' /\ UndecidedInv'
    BY <1>1 DEF BitInv, UndecidedInv
  <1> QED
    BY <1>1, <1>2 DEF DecisionExact, DecisionBounded, FormatChosen

\* Adding a filter keeps the lists lists of filters, and gives an include a format.
LEMMA LoadInv ==
    ASSUME IInv, LoadInclude \/ LoadExclude \/ LoadAttribute
    PROVE  IInv'
  <1>1. ~ serving /\ UNCHANGED <<locals, shallnotlog, serving, intact>>
    BY DEF LoadInclude, LoadExclude, LoadAttribute, Loading
  <1>2. enabled' \in BOOLEAN /\ defaultformat' \in Formats
    BY DEF LoadInclude, LoadExclude, LoadAttribute, IInv, TypeOK
  <1>3. /\ includes' \in Seq(Filters) /\ excludes' \in Seq(Filters)
        /\ \A i \in DOMAIN includes' : includes'[i].format \in Formats
    <2>1. CASE LoadInclude
      <3>1. PICK f \in FileFilters \cup {CommandLineFilter} : AddInclude(f)
        BY <2>1 DEF LoadInclude
      <3> DEFINE g == IF f.format = Unset THEN [f EXCEPT !.format = defaultformat] ELSE f
      <3>2. f \in Filters
        BY CommandLine, ConfigAssumption
      <3>3. g \in Filters /\ g.format \in Formats
        BY <3>2 DEF Filters, IInv, TypeOK
      <3>4. includes' = Append(includes, g) /\ includes \in Seq(Filters)
        BY <3>1 DEF AddInclude, IInv, TypeOK
      <3> HIDE DEF g
      <3>5. /\ includes' \in Seq(Filters) /\ Len(includes') = Len(includes) + 1
            /\ includes'[Len(includes) + 1] = g
            /\ \A i \in 1 .. Len(includes) : includes'[i] = includes[i]
        BY <3>3, <3>4, AppendProperties
      <3>6. /\ Len(includes) \in Nat /\ DOMAIN includes = 1 .. Len(includes)
            /\ DOMAIN includes' = 1 .. Len(includes')
        BY <3>4, <3>5, LenProperties
      <3>7. ASSUME NEW i \in 1 .. Len(includes) + 1 PROVE includes'[i].format \in Formats
        <4>1. CASE i = Len(includes) + 1
          BY <4>1, <3>3, <3>5
        <4>2. CASE i \in 1 .. Len(includes)
          BY <4>2, <3>5, <3>6 DEF IInv, LoadedInv
        <4> QED
          BY <4>1, <4>2, <3>6
      <3>8. excludes' \in Seq(Filters)
        BY <2>1 DEF LoadInclude, IInv, TypeOK
      <3> QED
        BY <3>5, <3>6, <3>7, <3>8
    <2>2. CASE LoadExclude
      <3>1. PICK f \in FileFilters \cup {CommandLineFilter} : AddExclude(f)
        BY <2>2 DEF LoadExclude
      <3>2. f \in Filters /\ excludes \in Seq(Filters)
        BY CommandLine, ConfigAssumption DEF IInv, TypeOK
      <3>3. excludes' \in Seq(Filters)
        BY <3>1, <3>2, AppendProperties DEF AddExclude
      <3>4. includes' = includes
        BY <2>2 DEF LoadExclude
      <3> QED
        BY <3>3, <3>4 DEF IInv, TypeOK, LoadedInv
    <2>3. CASE LoadAttribute
      BY <2>3 DEF LoadAttribute, IInv, TypeOK, LoadedInv
    <2> QED
      BY <2>1, <2>2, <2>3
  <1>4. TypeOK'
    BY <1>1, <1>2, <1>3 DEF IInv, TypeOK, locals
  <1>5. LoadedInv'
    BY <1>1, <1>3 DEF IInv, LoadedInv, locals
  <1> QED
    BY <1>1, <1>4, <1>5, Quiet DEF IInv

\* Serving starts with the lists as they are.
LEMMA ServeInv ==
    ASSUME IInv, Serve
    PROVE  IInv'
  <1>1. TypeOK' /\ LoadedInv'
    BY DEF Serve, config, locals, IInv, TypeOK, LoadedInv
  <1>2. ~ serving /\ UNCHANGED <<locals, shallnotlog>>
    BY DEF Serve
  <1> QED
    BY <1>1, <1>2, Quiet DEF IInv

-----------------------------------------------------------------------------
(* Serving                                                                 *)

\* What a thread knows of its own request: the thread's part of the invariant.
Own(t) ==
    /\ word[t] # {} => OnlyIncludes
    /\ pc[t] \in {"setload", "setstore", "loop", "clrload", "clrstore"} => OnlyIncludes
    /\ pc[t] # "idle" => query[t] \in Asked
    /\ pc[t] # "told" => ~ verdict[t] /\ format[t] = Unset
    /\ pc[t] \notin {"idle", "read", "told"} => enabled
    /\ pc[t] = "should" /\ OnlyIncludes =>
         \A i \in DOMAIN includes : MayMiss(includes[i].act, query[t].act)

\* The decision a thread has reached is the one the properties allow.
Right(t) ==
    pc[t] = "told" =>
        /\ intact => (verdict[t] <=> Wanted(query[t]) /\ (includes # <<>> => excludes # <<>>))
        /\ verdict[t] =>
             /\ enabled
             /\ includes # <<>> =>
                  \E i \in DOMAIN includes :
                      /\ includes[i].uid \in {query[t].uid, -1}
                      /\ Null \notin {includes[i].ext, includes[i].act, includes[i].ret}
             /\ format[t] \in Formats <=> includes = <<>> /\ excludes = <<>>
             /\ format[t] \in Formats => format[t] = defaultformat
             /\ format[t] = Unset <=> includes = <<>> /\ excludes # <<>>

\* The invariant, thread by thread.
LEMMA PerThread ==
    IInv <=> /\ TypeOK /\ LoadedInv /\ (shallnotlog # {} => OnlyIncludes)
             /\ \A t \in Threads : Own(t) /\ Right(t)
  BY DEF IInv, BitInv, UndecidedInv, DecisionExact, DecisionBounded, FormatChosen, Own, Right

\* A step of one thread leaves the configuration and the other threads alone.
LEMMA OneThread ==
    ASSUME IInv, NEW t \in Threads, UNCHANGED <<config, serving, intact>>, serving,
           TypeOK', shallnotlog' # {} => OnlyIncludes, Own(t)', Right(t)',
           \A u \in Threads \ {t} :
               /\ pc'[u] = pc[u] /\ query'[u] = query[u] /\ word'[u] = word[u]
               /\ verdict'[u] = verdict[u] /\ format'[u] = format[u]
    PROVE  IInv'
  <1>1. LoadedInv'
    BY DEF IInv, LoadedInv, config
  <1>2. shallnotlog' # {} => OnlyIncludes'
    BY DEF OnlyIncludes, config
  <1>3. ASSUME NEW u \in Threads \ {t} PROVE Own(u)' /\ Right(u)'
    <2>1. Own(u) /\ Right(u)
      BY PerThread
    <2>2. Own(u)'
      BY <2>1 DEF Own, OnlyIncludes, MayMiss, config
    <2>3. Right(u)'
      BY <2>1 DEF Right, Wanted, Hits, config
    <2> QED
      BY <2>2, <2>3
  <1> QED
    BY <1>1, <1>2, <1>3, PerThread DEF IInv, BitInv, UndecidedInv, DecisionExact,
       DecisionBounded, FormatChosen, Own, Right

\* A thread that is not idle is serving.
LEMMA Busy ==
    ASSUME TypeOK, NEW t \in Threads, pc[t] # "idle"
    PROVE  serving
  BY DEF TypeOK

\* A request arrives.
LEMMA AskInv ==
    ASSUME IInv, NEW t \in Threads, Ask(t)
    PROVE  IInv'
  <1>1. /\ serving /\ pc[t] = "idle" /\ pc'[t] = "read" /\ query'[t] \in Asked
        /\ UNCHANGED <<config, serving, intact, shallnotlog, word, fuzzy, verdict, format>>
        /\ \A u \in Threads \ {t} : pc'[u] = pc[u] /\ query'[u] = query[u]
    BY DEF Ask, Ready, Goto, IInv, TypeOK
  <1>2. TypeOK'
    BY <1>1 DEF Ask, Goto, IInv, TypeOK, Labels, config
  <1>3. Own(t)' /\ Right(t)' /\ (shallnotlog' # {} => OnlyIncludes)
    BY <1>1, PerThread DEF Own, Right, OnlyIncludes, config
  <1> QED
    BY <1>1, <1>2, <1>3, OneThread

\* fuzzyShouldLog reads the bitset, which rejects only for configurations that
\* log nothing.
LEMMA FuzzyReadInv ==
    ASSUME IInv, NEW t \in Threads, FuzzyRead(t)
    PROVE  IInv'
  <1>1. /\ serving /\ pc[t] = "read" /\ pc'[t] \in {"told", "setload", "should"}
        /\ UNCHANGED <<config, serving, intact, shallnotlog, query, word, verdict, format>>
        /\ \A u \in Threads \ {t} : pc'[u] = pc[u]
    BY Busy DEF FuzzyRead, Reject, Goto, IInv, TypeOK
  <1>2. TypeOK'
    <2>1. pc' = [pc EXCEPT ![t] = pc'[t]] /\ pc'[t] \in Labels
      BY <1>1 DEF FuzzyRead, Reject, Goto, IInv, TypeOK, Labels
    <2>2. fuzzy' \in [Threads -> BOOLEAN]
      BY DEF FuzzyRead, Reject, IInv, TypeOK
    <2> QED
      BY <1>1, <2>1, <2>2 DEF IInv, TypeOK, config
  <1>3. Own(t)
    BY PerThread
  <1>4. CASE ~ enabled \/ query[t].act \in shallnotlog
    <2>1. pc'[t] = "told"
      BY <1>1, <1>4 DEF FuzzyRead, Reject, Goto, IInv, TypeOK
    <2>2. ~ enabled \/ OnlyIncludes
      BY <1>4, PerThread
    <2>3. ~ verdict'[t] /\ Own(t)'
      BY <1>1, <1>3, <2>1 DEF Own, OnlyIncludes, config
    <2>4. Right(t)'
      BY <1>1, <2>2, <2>3 DEF Right, Wanted, OnlyIncludes, config
    <2> QED
      BY <1>1, <1>2, <2>3, <2>4, PerThread, OneThread
  <1>5. CASE enabled /\ query[t].act \notin shallnotlog
    <2>1. pc'[t] = IF OnlyIncludes THEN "setload" ELSE "should"
      BY <1>1, <1>5 DEF FuzzyRead, Goto, IInv, TypeOK
    <2>2. Own(t)' /\ Right(t)'
      BY <1>1, <1>3, <1>5, <2>1 DEF Own, Right, OnlyIncludes, config
    <2> QED
      BY <1>1, <1>2, <2>2, PerThread, OneThread
  <1> QED
    BY <1>4, <1>5

\* A load of the bitset's word.
LEMMA LoadWordInv ==
    ASSUME IInv, NEW t \in Threads, NEW from, NEW to, LoadWord(t, from, to),
           <<from, to>> \in {<<"setload", "setstore">>, <<"clrload", "clrstore">>}
    PROVE  IInv'
  <1>1. /\ serving /\ pc[t] = from /\ pc'[t] = to /\ word'[t] = shallnotlog
        /\ UNCHANGED <<config, serving, intact, shallnotlog, query, fuzzy, verdict, format>>
        /\ \A u \in Threads \ {t} : pc'[u] = pc[u] /\ word'[u] = word[u]
    BY Busy DEF LoadWord, Goto, IInv, TypeOK
  <1>2. TypeOK'
    BY <1>1 DEF LoadWord, Goto, IInv, TypeOK, Labels, config
  <1>3. OnlyIncludes /\ Own(t)
    BY <1>1, PerThread DEF Own
  <1>4. Own(t)' /\ Right(t)'
    BY <1>1, <1>3 DEF Own, Right, OnlyIncludes, config
  <1> QED
    BY <1>1, <1>2, <1>3, <1>4, OneThread

\* The store of the word with the action's bit set.
LEMMA SetStoreInv ==
    ASSUME IInv, NEW t \in Threads, FuzzySet(t), pc[t] = "setstore"
    PROVE  IInv'
  <1>1. /\ serving /\ pc'[t] = "loop" /\ shallnotlog' = word[t] \cup {query[t].act}
        /\ UNCHANGED <<config, serving, intact, query, word, fuzzy, verdict, format>>
        /\ \A u \in Threads \ {t} : pc'[u] = pc[u]
    BY Busy DEF FuzzySet, LoadWord, Goto, IInv, TypeOK
  <1>2. OnlyIncludes /\ Own(t)
    BY PerThread DEF Own
  <1>3. query[t] \in Queries
    BY <1>2, ConfigAssumption DEF Own
  <1>4. shallnotlog' \in SUBSET Actions
    BY <1>1, <1>3 DEF IInv, TypeOK, Queries
  <1>5. TypeOK'
    BY <1>1, <1>4 DEF FuzzySet, LoadWord, Goto, IInv, TypeOK, Labels, config
  <1>6. Own(t)' /\ Right(t)'
    BY <1>1, <1>2 DEF Own, Right, OnlyIncludes, config
  <1> QED
    BY <1>1, <1>2, <1>5, <1>6, OneThread

\* The loop over the includes.
LEMMA FuzzyLoopInv ==
    ASSUME IInv, NEW t \in Threads, FuzzyLoop(t)
    PROVE  IInv'
  <1>1. /\ serving /\ pc[t] = "loop"
        /\ \/ pc'[t] = "clrload"
           \/ /\ pc'[t] = "should"
              /\ \A i \in DOMAIN includes : MayMiss(includes[i].act, query[t].act)
        /\ UNCHANGED <<config, serving, intact, shallnotlog, query, word, fuzzy, verdict, format>>
        /\ \A u \in Threads \ {t} : pc'[u] = pc[u]
    BY Busy DEF FuzzyLoop, Goto, IInv, TypeOK
  <1>2. TypeOK'
    BY <1>1 DEF FuzzyLoop, Goto, IInv, TypeOK, Labels, config
  <1>3. OnlyIncludes /\ Own(t)
    BY <1>1, PerThread DEF Own
  <1>4. Own(t)' /\ Right(t)'
    BY <1>1, <1>3 DEF Own, Right, OnlyIncludes, MayMiss, config
  <1> QED
    BY <1>1, <1>2, <1>3, <1>4, OneThread

\* The store of the word with the action's bit cleared, and the rejection.
LEMMA ClearStoreInv ==
    ASSUME IInv, NEW t \in Threads, FuzzyClear(t), pc[t] = "clrstore"
    PROVE  IInv'
  <1>1. /\ serving /\ pc'[t] = "told" /\ shallnotlog' = word[t] \ {query[t].act}
        /\ UNCHANGED <<config, serving, intact, query, word, verdict, format>>
        /\ \A u \in Threads \ {t} : pc'[u] = pc[u]
    BY Busy DEF FuzzyClear, LoadWord, Reject, Goto, IInv, TypeOK
  <1>2. OnlyIncludes /\ Own(t)
    BY PerThread DEF Own
  <1>3. TypeOK'
    BY <1>1 DEF FuzzyClear, LoadWord, Reject, Goto, IInv, TypeOK, Labels, config
  <1>4. ~ verdict'[t] /\ Own(t)'
    BY <1>1, <1>2 DEF Own, OnlyIncludes, config
  <1>5. Right(t)'
    BY <1>1, <1>2, <1>4 DEF Right, OnlyIncludes, config
  <1> QED
    BY <1>1, <1>2, <1>3, <1>4, <1>5, OneThread

-----------------------------------------------------------------------------
(* shouldLog                                                               *)

\* The excludes answer, for patterns that are intact, whether one of them hits.
LEMMA ExcludesDecide ==
    ASSUME TypeOK, NEW t \in Threads, NEW q, ApplyExcludes(t, q)
    PROVE  /\ verdict'[t] \in BOOLEAN
           /\ intact => (verdict'[t] <=> \A j \in DOMAIN excludes : ~ Hits(excludes[j], q))
  <1>1. CASE FirstHits(excludes, q) # {} /\ Tell(t, FALSE)
    BY <1>1, IntactHits DEF Tell, TypeOK
  <1>2. CASE NoneHits(excludes, q) /\ Tell(t, TRUE)
    BY <1>2, IntactHits DEF Tell, TypeOK
  <1> QED
    BY <1>1, <1>2 DEF ApplyExcludes

\* shouldLog decides, for the request the thread asks about.
LEMMA ShouldLogInv ==
    ASSUME IInv, NEW t \in Threads, ShouldLog(t)
    PROVE  IInv'
  <1> DEFINE q == query[t]
  <1>1. /\ serving /\ pc[t] = "should" /\ pc'[t] = "told"
        /\ UNCHANGED <<config, serving, intact, shallnotlog, query, word, fuzzy>>
        /\ \A u \in Threads \ {t} : /\ pc'[u] = pc[u] /\ verdict'[u] = verdict[u]
                                    /\ format'[u] = format[u]
    BY Busy DEF ShouldLog, Judge, PickDefault, PickInclude, ApplyExcludes, Tell, Goto, IInv, TypeOK
  <1>2. /\ enabled /\ ~ verdict[t] /\ format[t] = Unset /\ Own(t)
        /\ OnlyIncludes => \A i \in DOMAIN includes : MayMiss(includes[i].act, q.act)
    BY <1>1, PerThread DEF Own
  <1>3. /\ pc' = [pc EXCEPT ![t] = "told"]
        /\ verdict'[t] \in BOOLEAN /\ verdict' = [verdict EXCEPT ![t] = verdict'[t]]
    BY DEF ShouldLog, Judge, ApplyExcludes, Tell, Goto, IInv, TypeOK
  <1>4. Own(t)'
    BY <1>1, <1>2 DEF Own, OnlyIncludes, config
  <1>5. ASSUME NEW f \in Formats \cup {Unset, Dangling}, format' = [format EXCEPT ![t] = f]
        PROVE  TypeOK'
    <2>1. format' \in [Threads -> Formats \cup {Unset, Dangling}]
      BY <1>5 DEF IInv, TypeOK
    <2>2. pc' \in [Threads -> Labels] /\ verdict' \in [Threads -> BOOLEAN]
      BY <1>3 DEF IInv, TypeOK, Labels
    <2> QED
      BY <1>1, <2>1, <2>2 DEF IInv, TypeOK, config
  <1>6. CASE includes = <<>>
    <2>1. DOMAIN includes = {}
      BY <1>6, EmptySeq
    <2> DEFINE f == IF excludes = <<>> THEN defaultformat ELSE Unset
    <2>2. ApplyExcludes(t, q) /\ format' = [format EXCEPT ![t] = f]
      BY <1>2, <1>6, <2>1 DEF ShouldLog, Judge, PickDefault, FirstHits, IInv, TypeOK
    <2>3. /\ f \in Formats \cup {Unset, Dangling}
          /\ IF excludes # <<>> THEN f = Unset ELSE f = defaultformat /\ f \in Formats
          /\ Unset \notin Formats
      BY ConfigAssumption DEF IInv, TypeOK
    <2> HIDE DEF f
    <2>4. TypeOK' /\ format'[t] = f
      BY <1>5, <2>2, <2>3 DEF IInv, TypeOK
    <2>5. intact => (verdict'[t] <=> Wanted(q))
      BY <1>2, <1>6, <2>2, ExcludesDecide DEF Wanted, IInv
    <2>6. Right(t)'
      BY <1>1, <1>2, <1>6, <2>3, <2>4, <2>5 DEF Right, Wanted, Hits, config
    <2> QED
      BY <1>1, <1>4, <2>4, <2>6, PerThread, OneThread
  <1>7. CASE includes # <<>> /\ FirstHits(includes, q) # {} /\ PickInclude(t) /\ ApplyExcludes(t, q)
    <2>1. PICK i \in FirstHits(includes, q) : TRUE
      BY <1>7
    <2>2. /\ i \in DOMAIN includes /\ includes[i].uid \in {q.uid, -1}
          /\ Null \notin {includes[i].ext, includes[i].act, includes[i].ret}
      BY HitAdmits
    <2>3. TypeOK' /\ format'[t] = Dangling
      BY <1>5, <1>7 DEF PickInclude, IInv, TypeOK
    <2>4. Dangling \notin Formats /\ Dangling # Unset
      BY ConfigAssumption
    <2>5. intact => Hits(includes[i], q)
      BY IntactHits
    <2>6. intact => ~ OnlyIncludes
      BY <1>2, <2>2, <2>5 DEF MayMiss, Hits
    <2>7. intact => (verdict'[t] <=> Wanted(q) /\ (includes # <<>> => excludes # <<>>))
      BY <1>2, <1>7, <2>2, <2>5, <2>6, ExcludesDecide DEF Wanted, OnlyIncludes, IInv
    <2>8. Right(t)'
      BY <1>1, <1>2, <1>7, <2>2, <2>3, <2>4, <2>7 DEF Right, Wanted, Hits, config
    <2> QED
      BY <1>1, <1>4, <2>3, <2>8, PerThread, OneThread
  <1>8. CASE includes # <<>> /\ NoneHits(includes, q) /\ Tell(t, FALSE) /\ UNCHANGED format
    <2>1. ~ verdict'[t]
      BY <1>8 DEF Tell, IInv, TypeOK
    <2>2. TypeOK'
      BY <1>2, <1>5, <1>8 DEF IInv, TypeOK
    <2>3. intact => ~ Wanted(q)
      BY <1>8, IntactHits DEF Wanted
    <2>4. Right(t)'
      BY <1>1, <2>1, <2>3 DEF Right, Wanted, Hits, config
    <2> QED
      BY <1>1, <1>4, <2>2, <2>4, PerThread, OneThread
  <1> QED
    BY <1>6, <1>7, <1>8 DEF ShouldLog, Judge

\* The request is answered.
LEMMA DoneInv ==
    ASSUME IInv, NEW t \in Threads, Done(t)
    PROVE  IInv'
  <1>1. /\ serving /\ pc[t] = "told" /\ pc'[t] = "idle" /\ word'[t] = {}
        /\ ~ verdict'[t] /\ format'[t] = Unset
        /\ UNCHANGED <<config, serving, intact, shallnotlog>>
        /\ \A u \in Threads \ {t} : /\ pc'[u] = pc[u] /\ query'[u] = query[u]
                                    /\ word'[u] = word[u] /\ verdict'[u] = verdict[u]
                                    /\ format'[u] = format[u]
    BY Busy DEF Done, Goto, IInv, TypeOK
  <1>2. TypeOK'
    BY <1>1 DEF Done, Goto, IInv, TypeOK, Labels, config
  <1>3. Own(t)' /\ Right(t)'
    BY <1>1 DEF Own, Right
  <1> QED
    BY <1>1, <1>2, <1>3, PerThread, OneThread

-----------------------------------------------------------------------------

\* Every step keeps the invariant.
LEMMA StepInv == IInv /\ [Next]_vars => IInv'
  <1> SUFFICES ASSUME IInv, [Next]_vars PROVE IInv'
    OBVIOUS
  <1>1. CASE LoadInclude \/ LoadExclude \/ LoadAttribute
    BY <1>1, LoadInv
  <1>2. CASE Serve
    BY <1>2, ServeInv
  <1>3. ASSUME NEW t \in Threads, Decide(t) PROVE IInv'
    <2>1. CASE Ask(t)
      BY <2>1, AskInv
    <2>2. CASE FuzzyRead(t)
      BY <2>2, FuzzyReadInv
    <2>3. CASE FuzzySet(t)
      <3>1. CASE LoadWord(t, "setload", "setstore")
        BY <3>1, LoadWordInv
      <3>2. CASE pc[t] = "setstore"
        BY <2>3, <3>2, SetStoreInv
      <3> QED
        BY <2>3, <3>1, <3>2 DEF FuzzySet
    <2>4. CASE FuzzyLoop(t)
      BY <2>4, FuzzyLoopInv
    <2>5. CASE FuzzyClear(t)
      <3>1. CASE LoadWord(t, "clrload", "clrstore")
        BY <3>1, LoadWordInv
      <3>2. CASE pc[t] = "clrstore"
        BY <2>5, <3>2, ClearStoreInv
      <3> QED
        BY <2>5, <3>1, <3>2 DEF FuzzyClear
    <2>6. CASE ShouldLog(t)
      BY <2>6, ShouldLogInv
    <2>7. CASE Done(t)
      BY <2>7, DoneInv
    <2> QED
      BY <1>3, <2>1, <2>2, <2>3, <2>4, <2>5, <2>6, <2>7 DEF Decide
  <1>4. CASE UNCHANGED vars
    BY <1>4 DEF vars, config, locals, IInv, TypeOK, LoadedInv, BitInv, UndecidedInv, OnlyIncludes,
       MayMiss, DecisionExact, DecisionBounded, FormatChosen, Wanted, Hits
  <1> QED
    BY <1>1, <1>2, <1>3, <1>4 DEF Next

\* The invariant behind the four properties below, in every reachable state.
THEOREM Invariance == Spec => []IInv
  BY InitInv, StepInv, PTL DEF Spec

\* The configuration, the bitset and the threads' locals keep their types, and
\* nobody asks before the configuration is loaded.
THEOREM TypeCorrect == Spec => []TypeOK
  <1>1. IInv => TypeOK
    BY DEF IInv
  <1> QED
    BY <1>1, Invariance, PTL

\* While the patterns are intact a line is written exactly for what the filters
\* describe, and never with includes alone, however many threads race on the
\* bitset of fuzzyShouldLog.
THEOREM DecisionCorrect == Spec => []DecisionExact
  <1>1. IInv => DecisionExact
    BY DEF IInv
  <1> QED
    BY <1>1, Invariance, PTL

\* Whatever the freed patterns hold, no line is written with logging disabled,
\* for a user no include admits, or through an include that did not compile.
THEOREM BoundCorrect == Spec => []DecisionBounded
  <1>1. IInv => DecisionBounded
    BY DEF IInv
  <1> QED
    BY <1>1, Invariance, PTL

\* A line has a format that exists only when there are no filters, and then the
\* default; any filter leaves it a pointer nobody assigned or a destroyed Format's.
THEOREM FormatCorrect == Spec => []FormatChosen
  <1>1. IInv => FormatChosen
    BY DEF IInv
  <1> QED
    BY <1>1, Invariance, PTL
=============================================================================
