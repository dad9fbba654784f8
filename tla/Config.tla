------------------------------- MODULE Config -------------------------------
(***************************************************************************)
(* The configuration: how the XML file and the command line build the      *)
(* lists of filters, and how the worker threads then decide, per request,  *)
(* whether a line is written.  The decision is taken in two places:        *)
(* fuzzyShouldLog before the handler, with a static bitset as its cache,   *)
(* and shouldLog after it.                                                 *)
(*                                                                         *)
(* A regular expression is the set of strings it matches, or Null when it  *)
(* did not compile.  Filter has no copy constructor of its own, so the     *)
(* copy in the vector shares its compiled patterns with a local that has   *)
(* been destroyed: every pattern in use is freed memory.  intact says      *)
(* whether the freed blocks still hold the patterns; when they do not,     *)
(* each match answers anything.                                            *)
(***************************************************************************)
EXTENDS Integers, Sequences, FiniteSets

CONSTANTS
    Threads,
    Paths, Uids, Actions, Retnames,  \* what a request is filtered by
    Asked,           \* the requests the threads ask about
    Formats,         \* formats of log lines
    FileFilters,     \* the include and exclude elements of the XML file
    MaxFilters,      \* bound on the filters of a configuration
    Null,            \* a pattern that did not compile
    Unset,           \* a Format pointer nothing was assigned to
    Dangling         \* the address of a Format that has been destroyed

\* -1 is "every users".
AnyUid == -1

Pattern(S) == SUBSET S \cup {Null}

Filters == [ext: Pattern(Paths), uid: Uids \cup {AnyUid}, act: Pattern(Actions),
            ret: Pattern(Retnames), format: Formats \cup {Unset}]

Queries == [path: Paths, uid: Uids, act: Actions, ret: Retnames]
NoQuery == [act |-> "none"]

ASSUME ConfigAssumption ==
    /\ Asked \subseteq Queries
    /\ Uids \subseteq Nat /\ 0 \in Uids
    /\ FileFilters \subseteq Filters
    /\ MaxFilters \in Nat
    /\ {Unset, Dangling} \cap Formats = {} /\ Unset # Dangling /\ Formats # {}

VARIABLES
    enabled, includes, excludes, defaultformat,   \* the Config object
    serving,       \* fuse_main has started its threads
    intact,        \* the freed pattern blocks have not been reused
    shallnotlog,   \* the static bitset: its set bits
    pc, query,     \* per thread: place in the code, and what it asks about
    word,          \* the bitset as the thread last loaded it
    fuzzy,         \* what fuzzyShouldLog answered
    verdict,       \* the decision: is a line written?
    format         \* Util::log's local Format*

config == <<enabled, includes, excludes, defaultformat>>
locals == <<pc, query, word, fuzzy, verdict, format>>
vars == <<config, serving, intact, shallnotlog, locals>>

Labels == {"idle", "read", "setload", "setstore", "loop", "clrload",
           "clrstore", "should", "told"}

TypeOK ==
    /\ enabled \in BOOLEAN /\ serving \in BOOLEAN /\ intact \in BOOLEAN
    /\ includes \in Seq(Filters) /\ excludes \in Seq(Filters)
    /\ defaultformat \in Formats
    /\ shallnotlog \in SUBSET Actions
    /\ pc \in [Threads -> Labels]
    /\ query \in [Threads -> Asked \cup {NoQuery}]
    /\ word \in [Threads -> SUBSET Actions]
    /\ fuzzy \in [Threads -> BOOLEAN]
    /\ verdict \in [Threads -> BOOLEAN]
    /\ format \in [Threads -> Formats \cup {Unset, Dangling}]
    /\ ~ serving => \A t \in Threads : pc[t] = "idle"

Init ==
    /\ enabled = TRUE /\ includes = <<>> /\ excludes = <<>>
    /\ defaultformat \in Formats
    /\ serving = FALSE /\ intact \in BOOLEAN
    /\ shallnotlog = {}
    /\ pc = [t \in Threads |-> "idle"]
    /\ query = [t \in Threads |-> NoQuery]
    /\ word = [t \in Threads |-> {}]
    /\ fuzzy = [t \in Threads |-> TRUE]
    /\ verdict = [t \in Threads |-> FALSE]
    /\ format = [t \in Threads |-> Unset]

-----------------------------------------------------------------------------
(* Loading: main, before fuse_main.                                        *)

Loading == ~ serving /\ Len(includes) + Len(excludes) < MaxFilters

\* A filter without a format of its own takes the default of that moment.
AddInclude(f) ==
    includes' = Append(includes, IF f.format = Unset
                                 THEN [f EXCEPT !.format = defaultformat] ELSE f)

AddExclude(f) == excludes' = Append(excludes, f)

\* -i and -x: parseStyleSheetFormat fills a copy of the map, so every field of
\* the filter stays empty; an empty pattern matches all, atoi("") is 0.
CommandLineFilter ==
    [ext |-> Paths, uid |-> 0, act |-> Actions, ret |-> Retnames, format |-> Unset]

LoadInclude ==
    /\ Loading
    /\ \E f \in FileFilters \cup {CommandLineFilter} : AddInclude(f)
    /\ UNCHANGED <<enabled, excludes, defaultformat, serving, intact, shallnotlog, locals>>

LoadExclude ==
    /\ Loading
    /\ \E f \in FileFilters \cup {CommandLineFilter} : AddExclude(f)
    /\ UNCHANGED <<enabled, includes, defaultformat, serving, intact, shallnotlog, locals>>

\* The root element's attributes, and -m.
LoadAttribute ==
    /\ ~ serving
    /\ \/ enabled' = FALSE /\ UNCHANGED defaultformat
       \/ defaultformat' \in Formats /\ UNCHANGED enabled
    /\ UNCHANGED <<includes, excludes, serving, intact, shallnotlog, locals>>

Serve ==
    /\ ~ serving
    /\ serving' = TRUE
    /\ UNCHANGED <<config, intact, shallnotlog, locals>>

-----------------------------------------------------------------------------
(* Matching.                                                               *)

\* Filter::matches(str, re): may it answer TRUE, may it answer FALSE?
MayMatch(p, s) == p # Null /\ (intact => s \in p)
MayMiss(p, s)  == p # Null /\ intact => s \notin p

\* Mutant: a filter for uid 0 is taken for one without a uid.
MatchUidOrUnset(f, u) == f.uid \in {u, AnyUid, 0}

MatchUid(f, u) == f.uid \in {u, AnyUid}

MayHit(f, q) ==
    /\ MayMatch(f.ext, q.path) /\ MatchUid(f, q.uid)
    /\ MayMatch(f.act, q.act)  /\ MayMatch(f.ret, q.ret)

MayPass(f, q) ==
    \/ MayMiss(f.ext, q.path) \/ ~ MatchUid(f, q.uid)
    \/ MayMiss(f.act, q.act)  \/ MayMiss(f.ret, q.ret)

\* The filters of a list that may be the first to match.
FirstHits(s, q) ==
    {i \in DOMAIN s : MayHit(s[i], q) /\ \A k \in 1 .. i - 1 : MayPass(s[k], q)}

NoneHits(s, q) == \A i \in DOMAIN s : MayPass(s[i], q)

-----------------------------------------------------------------------------
(* A worker thread's two questions.                                        *)

Goto(t, label) == pc' = [pc EXCEPT ![t] = label]

\* fuzzyShouldLog rejects the action: the LogMap stays empty, no line.
Reject(t) ==
    /\ fuzzy' = [fuzzy EXCEPT ![t] = FALSE]
    /\ Goto(t, "told")

\* shouldLog decides.
Tell(t, v) ==
    /\ verdict' = [verdict EXCEPT ![t] = v]
    /\ Goto(t, "told")

\* Mutant: requests are served while the configuration is still being loaded.
ReadyTooEarly(t) == pc[t] = "idle"

Ready(t) == serving /\ pc[t] = "idle"

\* A request arrives and proxy calls fuzzyShouldLog.
Ask(t) ==
    /\ Ready(t)
    /\ \E q \in Asked : query' = [query EXCEPT ![t] = q]
    /\ Goto(t, "read")
    /\ UNCHANGED <<config, serving, intact, shallnotlog, word, fuzzy, verdict, format>>

\* Mutant: the excludes are not looked at.
SomeIncludes == includes # <<>>

OnlyIncludes == includes # <<>> /\ excludes = <<>>

\* Disabled, or the action's bit is set: false.  Otherwise only a
\* configuration of includes alone goes on to the list.
FuzzyRead(t) ==
    /\ pc[t] = "read"
    /\ \/ (~ enabled \/ query[t].act \in shallnotlog) /\ Reject(t)
       \/ /\ enabled /\ query[t].act \notin shallnotlog
          /\ Goto(t, IF OnlyIncludes THEN "setload" ELSE "should")
          /\ UNCHANGED fuzzy
    /\ UNCHANGED <<config, serving, intact, shallnotlog, query, word, verdict, format>>

\* shallnotlog[action] = true and = false read the whole word, change one bit
\* and write the word back; the threads do so without a lock.
LoadWord(t, from, to) ==
    /\ pc[t] = from
    /\ word' = [word EXCEPT ![t] = shallnotlog]
    /\ Goto(t, to)
    /\ UNCHANGED <<config, serving, intact, shallnotlog, query, fuzzy, verdict, format>>

FuzzySet(t) ==
    \/ LoadWord(t, "setload", "setstore")
    \/ /\ pc[t] = "setstore"
       /\ shallnotlog' = word[t] \cup {query[t].act}
       /\ Goto(t, "loop")
       /\ UNCHANGED <<config, serving, intact, query, word, fuzzy, verdict, format>>

\* The loop over the includes: an action some include matches gets its bit
\* back, and false; an action none matches keeps the bit, and gets true.
FuzzyLoop(t) ==
    /\ pc[t] = "loop"
    /\ \/ /\ \E i \in DOMAIN includes : MayMatch(includes[i].act, query[t].act)
          /\ Goto(t, "clrload")
       \/ /\ \A i \in DOMAIN includes : MayMiss(includes[i].act, query[t].act)
          /\ Goto(t, "should")
    /\ UNCHANGED <<config, serving, intact, shallnotlog, query, word, fuzzy, verdict, format>>

FuzzyClear(t) ==
    \/ LoadWord(t, "clrload", "clrstore")
    \/ /\ pc[t] = "clrstore"
       /\ shallnotlog' = word[t] \ {query[t].act}
       /\ Reject(t)
       /\ UNCHANGED <<config, serving, intact, query, word, verdict, format>>

\* shouldLog's excludes, for a request the includes let through.
ApplyExcludes(t, q) ==
    \/ FirstHits(excludes, q) # {} /\ Tell(t, FALSE)
    \/ NoneHits(excludes, q) /\ Tell(t, TRUE)

\* Mutant: without filters the caller's pointer is not set either.
PickNothing(t) == UNCHANGED format

\* Without includes: the default format, but with excludes none at all.
PickDefault(t) ==
    format' = IF excludes = <<>> THEN [format EXCEPT ![t] = defaultformat] ELSE format

\* With includes: the address of the format in the loop's own copy of the filter
\* that matches.  The copy is destroyed at the end of the loop's body.
PickInclude(t) == format' = [format EXCEPT ![t] = Dangling]

\* shouldLog, which also picks the format.
Judge(t, q) ==
    /\ pc[t] = "should"
    /\ \/ includes = <<>> /\ PickDefault(t) /\ ApplyExcludes(t, q)
       \/ FirstHits(includes, q) # {} /\ PickInclude(t) /\ ApplyExcludes(t, q)
       \/ /\ includes # <<>> /\ NoneHits(includes, q)
          /\ Tell(t, FALSE) /\ UNCHANGED format
    /\ UNCHANGED <<config, serving, intact, shallnotlog, query, word, fuzzy>>

\* Util::log calls shouldLog.
ShouldLog(t) == Judge(t, query[t])

\* The request is answered; Util::log's Format* dies with it.
Done(t) ==
    /\ pc[t] = "told"
    /\ Goto(t, "idle")
    /\ query' = [query EXCEPT ![t] = NoQuery]
    /\ fuzzy' = [fuzzy EXCEPT ![t] = TRUE]
    /\ verdict' = [verdict EXCEPT ![t] = FALSE]
    /\ format' = [format EXCEPT ![t] = Unset]
    /\ word' = [word EXCEPT ![t] = {}]
    /\ UNCHANGED <<config, serving, intact, shallnotlog>>

Decide(t) ==
    \/ Ask(t) \/ FuzzyRead(t) \/ FuzzySet(t) \/ FuzzyLoop(t) \/ FuzzyClear(t)
    \/ ShouldLog(t) \/ Done(t)

Next ==
    \/ LoadInclude \/ LoadExclude \/ LoadAttribute \/ Serve
    \/ \E t \in Threads : Decide(t)

Spec == Init /\ [][Next]_vars

-----------------------------------------------------------------------------
(* Properties.                                                             *)

\* The decision the configuration describes: some include matches, if there
\* are includes, and no exclude does.
Hits(f, q) ==
    /\ f.ext # Null /\ q.path \in f.ext /\ f.uid \in {q.uid, -1}
    /\ f.act # Null /\ q.act \in f.act /\ f.ret # Null /\ q.ret \in f.ret

Wanted(q) ==
    /\ enabled
    /\ includes # <<>> => \E i \in DOMAIN includes : Hits(includes[i], q)
    /\ \A j \in DOMAIN excludes : ~ Hits(excludes[j], q)

\* While the patterns are intact the two-stage decision is the described one
\* in every configuration that has excludes or no filters; with includes alone
\* nothing is ever logged, however the threads race on the bitset.
DecisionExact ==
    \A t \in Threads :
        pc[t] = "told" /\ intact
        => (verdict[t] <=> /\ Wanted(query[t])
                           /\ includes # <<>> => excludes # <<>>)

\* Whatever the freed blocks hold, no line is written with logging disabled,
\* nor for a user no include admits, nor through an include with a pattern
\* that did not compile.
DecisionBounded ==
    \A t \in Threads :
        pc[t] = "told" /\ verdict[t]
        => /\ enabled
           /\ includes # <<>> =>
                \E i \in DOMAIN includes :
                    /\ includes[i].uid \in {query[t].uid, -1}
                    /\ Null \notin {includes[i].ext, includes[i].act, includes[i].ret}

\* What a line is rendered through is a Format that exists exactly when there are
\* no filters, and then it is the default; with excludes alone it is a pointer
\* nobody assigned, with includes the address of a Format already destroyed
\* (Config.cpp:243), never the include's own of loggedfs.cpp:70, "[format:FORMAT;]".
FormatChosen ==
    \A t \in Threads :
        pc[t] = "told" /\ verdict[t]
        => /\ format[t] \in Formats <=> includes = <<>> /\ excludes = <<>>
           /\ format[t] \in Formats => format[t] = defaultformat
           /\ format[t] = Unset <=> includes = <<>> /\ excludes # <<>>

\* Config.cpp:208 "this method tries to surley answer the question: shall
\* 'action' not be logged?" and :213 "we can be sure that it shall not be
\* logged": when fuzzyShouldLog rejects an action of an enabled configuration,
\* no include matches that action.  The code rejects the actions that match.
FuzzySure ==
    \A t \in Threads :
        pc[t] = "told" /\ enabled /\ intact /\ ~ fuzzy[t]
        => \A i \in DOMAIN includes :
             includes[i].act # Null => query[t].act \notin includes[i].act

-----------------------------------------------------------------------------
(* The inductive invariant behind the properties that hold.                *)

\* The loaded includes have a format; no bit is set before requests are served.
LoadedInv ==
    /\ \A i \in DOMAIN includes : includes[i].format \in Formats
    /\ ~ serving => shallnotlog = {} /\ \A t \in Threads : word[t] = {}

\* Only a configuration of includes alone uses the bitset.
BitInv ==
    /\ shallnotlog # {} => OnlyIncludes
    /\ \A t \in Threads :
         /\ word[t] # {} => OnlyIncludes
         /\ pc[t] \in {"setload", "setstore", "loop", "clrload", "clrstore"} => OnlyIncludes

\* A request that is still undecided has no line and no format, was let through
\* by an enabled configuration, and, if that has includes alone, has an action
\* that none of them names.
UndecidedInv ==
    \A t \in Threads :
        /\ pc[t] # "idle" => query[t] \in Asked
        /\ pc[t] # "told" => ~ verdict[t] /\ format[t] = Unset
        /\ pc[t] \notin {"idle", "read", "told"} => enabled
        /\ pc[t] = "should" /\ OnlyIncludes =>
             \A i \in DOMAIN includes : MayMiss(includes[i].act, query[t].act)

IInv == /\ TypeOK /\ LoadedInv /\ BitInv /\ UndecidedInv
        /\ DecisionExact /\ DecisionBounded /\ FormatChosen

=============================================================================
