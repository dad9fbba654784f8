--------------------------- MODULE LoggedFSProofs ---------------------------
(* The line of a request against the configuration, for every list of       *)
(* filters, any requests and any number of threads.  Proxy and Config are   *)
(* parts here, so the invariant says how far each thread is in the one when *)
(* it is at a given place of the other.                                     *)
EXTENDS LoggedFS, TLAPS

\* The variables the argument reads are functions of the thread.
Types ==
    /\ pc \in [Threads -> {"idle", "call", "lchown", "log", "reply"}]
    /\ req = [t \in Threads |-> req[t]]
    /\ errno \in [Threads -> Nat]
    /\ lm \in [Threads -> SUBSET {"ACTION", "RELPATH"}]
    /\ result \in [Threads -> Int]
    /\ rec = [t \in Threads |-> rec[t]]
    /\ stage \in [Threads -> Config!Labels]
    /\ query = [t \in Threads |-> query[t]]
    /\ word = [t \in Threads |-> word[t]]
    /\ fuzzy \in [Threads -> BOOLEAN]
    /\ verdict \in [Threads -> BOOLEAN]

\* How far fuzzyShouldLog has come, and what it has found out.
Question(t) ==
    /\ stage[t] # "idle" => serving
    /\ word[t] # {} => Config!OnlyIncludes
    /\ stage[t] \in {"setload", "setstore", "loop", "clrload", "clrstore"} => Config!OnlyIncludes
    /\ stage[t] \notin {"idle", "read", "told"} => enabled
    /\ stage[t] = "should" /\ Config!OnlyIncludes =>
         \A i \in DOMAIN includes : Config!MayMiss(includes[i].act, query[t].act)
    /\ stage[t] # "told" => fuzzy[t]

\* A thread that was told before its request is answered was rejected, by a
\* configuration that logs nothing.
Rejected(t) ==
    pc[t] # "reply" /\ stage[t] = "told" => ~ fuzzy[t] /\ (~ enabled \/ Config!OnlyIncludes)

\* A request in flight has been asked about, its LogMap holds the keys exactly
\* when it is still to be judged, and it has no line.
InFlight(t) ==
    /\ pc[t] # "idle" => stage[t] \in {"should", "told"}
    /\ pc[t] # "reply" => rec[t] = Proxy!NoRecord
    /\ pc[t] \in {"call", "lchown", "log"} =>
         /\ query[t].act = ActionName(req[t].op)
         /\ "ACTION" \in lm[t] <=> stage[t] = "should"
         /\ "ACTION" \in lm[t] => "RELPATH" \in lm[t]

\* Between the handler and the reply errno is the error that is answered.
OwnError(t) ==
    pc[t] \in {"log", "reply"} /\ result[t] < 0 /\ ~ Proxy!RefusedByMode(t)
    => errno[t] = -result[t]

\* The line an answered request has is the one the configuration wants.
Answer(t) ==
    LET retname == IF errno[t] = 0 THEN "SUCCESS" ELSE "FAILURE"
    IN  pc[t] = "reply" =>
          /\ stage[t] = "told"
          /\ intact => /\ rec[t] # Proxy!NoRecord <=>
                            /\ Config!Wanted(QueryOf(req[t], retname))
                            /\ includes # <<>> => excludes # <<>>
                       /\ rec[t] # Proxy!NoRecord => rec[t].retname = retname

Own(t) == Question(t) /\ Rejected(t) /\ InFlight(t) /\ OwnError(t) /\ Answer(t)

\* Before requests are served nobody has touched the bitset.
Bits == /\ shallnotlog # {} => Config!OnlyIncludes
        /\ ~ serving => /\ shallnotlog = {}
                        /\ \A t \in Threads : word[t] = {} /\ stage[t] = "idle"

IInv == Types /\ Bits /\ \A t \in Threads : Own(t)

-----------------------------------------------------------------------------
(* Beginning.                                                              *)

\* Nothing is served in the beginning.
LEMMA InitInv == Init => IInv
  <1> SUFFICES ASSUME Init PROVE IInv
    OBVIOUS
  <1> USE DEF Init, Proxy!Init, Config!Init
  <1>1. Types
    BY DEF Types, Config!Labels
  <1>2. Bits
    BY DEF Bits
  <1>3. ASSUME NEW t \in Threads PROVE Own(t)
    BY DEF Own, Question, Rejected, InFlight, OwnError, Answer
  <1> QED
    BY <1>1, <1>2, <1>3 DEF IInv

\* While main loads the configuration every thread is idle.
LEMMA LoadStep ==
    ASSUME IInv, Load
    PROVE  IInv'
  <1>1. /\ ~ serving
        /\ UNCHANGED <<proxyVars, shallnotlog, stage, query, word, fuzzy, verdict, format>>
    BY DEF Load, Config!LoadInclude, Config!LoadExclude, Config!LoadAttribute, Config!Serve,
       Config!Loading, Config!locals
  <1>2. Types'
    BY <1>1 DEF IInv, Types, proxyVars, Config!Labels
  <1>3. Bits'
    BY <1>1 DEF IInv, Bits
  <1>4. ASSUME NEW t \in Threads PROVE Own(t)'
    <2>1. stage[t] = "idle" /\ word[t] = {} /\ pc[t] = "idle" /\ Own(t)
      BY <1>1 DEF IInv, Bits, Own, InFlight
    <2> QED
      BY <1>1, <2>1 DEF Own, Question, Rejected, InFlight, OwnError, Answer, proxyVars
  <1> QED
    BY <1>2, <1>3, <1>4 DEF IInv

\* A step of one thread that leaves the configuration and the other threads
\* alone has only its own part of the invariant to preserve.
LEMMA OneThread ==
    ASSUME IInv, NEW t \in Threads, serving,
           UNCHANGED <<enabled, includes, excludes, serving, intact>>,
           Types', shallnotlog' # {} => Config!OnlyIncludes, Own(t)',
           \A u \in Threads \ {t} :
               /\ pc'[u] = pc[u] /\ req'[u] = req[u] /\ errno'[u] = errno[u]
               /\ lm'[u] = lm[u] /\ result'[u] = result[u] /\ rec'[u] = rec[u]
               /\ stage'[u] = stage[u] /\ query'[u] = query[u] /\ word'[u] = word[u]
               /\ fuzzy'[u] = fuzzy[u]
    PROVE  IInv'
  <1>1. Bits'
    BY DEF Bits, Config!OnlyIncludes
  <1>2. ASSUME NEW u \in Threads \ {t} PROVE Own(u)'
    <2>1. Own(u)
      BY DEF IInv
    <2>2. Question(u)' /\ Rejected(u)'
      BY <2>1 DEF Own, Question, Rejected, Config!OnlyIncludes, Config!MayMiss
    <2>3. InFlight(u)' /\ OwnError(u)'
      BY <2>1 DEF Own, InFlight, OwnError, Proxy!RefusedByMode, Proxy!NoRecord
    <2>4. Answer(u)'
      BY <2>1 DEF Own, Answer, Proxy!NoRecord, Config!Wanted, Config!Hits
    <2> QED
      BY <2>2, <2>3, <2>4 DEF Own
  <1> QED
    BY <1>1, <1>2 DEF IInv

-----------------------------------------------------------------------------
(* The question before the handler.                                        *)

\* What every step of fuzzyShouldLog leaves alone.
LEMMA FuzzyFrame ==
    ASSUME IInv, NEW t \in Threads, Fuzzy(t)
    PROVE  /\ pc[t] = "idle" /\ serving /\ Types'
           /\ UNCHANGED <<proxyVars, enabled, includes, excludes, serving, intact, verdict>>
           /\ \A u \in Threads \ {t} :
                stage'[u] = stage[u] /\ query'[u] = query[u] /\ word'[u] = word[u]
                /\ fuzzy'[u] = fuzzy[u]
  <1> USE DEF Config!config, Config!Goto, Config!Reject
  <1>1. Types /\ Own(t) /\ Bits
    BY DEF IInv
  <1>2. pc[t] = "idle" /\ serving /\ UNCHANGED proxyVars
    BY <1>1 DEF Fuzzy, Own, Question, Config!Ask, Config!Ready, Config!FuzzyRead,
       Config!FuzzySet, Config!FuzzyLoop, Config!FuzzyClear, Config!LoadWord
  <1>3. CASE Config!Ask(t)
    BY <1>1, <1>2, <1>3 DEF Config!Ask, Types, Config!Labels, proxyVars
  <1>4. CASE Config!FuzzyRead(t)
    BY <1>1, <1>2, <1>4 DEF Config!FuzzyRead, Types, Config!Labels, proxyVars
  <1>5. CASE Config!FuzzySet(t)
    BY <1>1, <1>2, <1>5 DEF Config!FuzzySet, Config!LoadWord, Types, Config!Labels, proxyVars
  <1>6. CASE Config!FuzzyLoop(t)
    BY <1>1, <1>2, <1>6 DEF Config!FuzzyLoop, Types, Config!Labels, proxyVars
  <1>7. CASE Config!FuzzyClear(t)
    BY <1>1, <1>2, <1>7 DEF Config!FuzzyClear, Config!LoadWord, Types, Config!Labels, proxyVars
  <1> QED
    BY <1>3, <1>4, <1>5, <1>6, <1>7 DEF Fuzzy

\* fuzzyShouldLog rejects only what a disabled configuration, or one of includes
\* alone, would not log anyway; what that one lets through no include names.
LEMMA FuzzyQuestion ==
    ASSUME IInv, NEW t \in Threads, Fuzzy(t)
    PROVE  Question(t)' /\ Rejected(t)' /\ (shallnotlog' # {} => Config!OnlyIncludes)
  <1> USE DEF Config!config, Config!Goto, Config!Reject
  <1>1. Types /\ Question(t) /\ Rejected(t) /\ Bits
    BY DEF IInv, Own
  <1>2. /\ pc'[t] = "idle" /\ pc[t] = "idle" /\ serving /\ serving'
        /\ UNCHANGED <<enabled, includes, excludes, intact>>
    BY FuzzyFrame DEF proxyVars
  <1>3. CASE Config!Ask(t)
    BY <1>1, <1>2, <1>3 DEF Config!Ask, Config!Ready, Types, Question, Rejected,
       Config!OnlyIncludes, Bits
  <1>4. CASE Config!FuzzyRead(t)
    BY <1>1, <1>2, <1>4 DEF Config!FuzzyRead, Types, Question, Rejected,
       Config!OnlyIncludes, Bits
  <1>5. CASE Config!FuzzySet(t)
    BY <1>1, <1>2, <1>5 DEF Config!FuzzySet, Config!LoadWord, Types, Question, Rejected,
       Config!OnlyIncludes, Bits
  <1>6. CASE Config!FuzzyLoop(t)
    BY <1>1, <1>2, <1>6 DEF Config!FuzzyLoop, Types, Question, Rejected,
       Config!OnlyIncludes, Bits, Config!MayMiss
  <1>7. CASE Config!FuzzyClear(t)
    BY <1>1, <1>2, <1>7 DEF Config!FuzzyClear, Config!LoadWord, Types, Question, Rejected,
       Config!OnlyIncludes, Bits
  <1> QED
    BY <1>3, <1>4, <1>5, <1>6, <1>7 DEF Fuzzy

\* fuzzyShouldLog leads from its one question about the request to the next.
LEMMA FuzzyStep ==
    ASSUME IInv, NEW t \in Threads, Fuzzy(t)
    PROVE  IInv'
  <1>1. /\ pc[t] = "idle" /\ serving /\ Types' /\ UNCHANGED proxyVars
        /\ UNCHANGED <<enabled, includes, excludes, serving, intact>>
        /\ \A u \in Threads \ {t} :
             stage'[u] = stage[u] /\ query'[u] = query[u] /\ word'[u] = word[u]
             /\ fuzzy'[u] = fuzzy[u]
    BY FuzzyFrame
  <1>2. InFlight(t)' /\ OwnError(t)' /\ Answer(t)'
    BY <1>1 DEF IInv, Own, InFlight, OwnError, Answer, proxyVars, Proxy!NoRecord
  <1>3. Own(t)' /\ (shallnotlog' # {} => Config!OnlyIncludes)
    BY <1>2, FuzzyQuestion DEF Own
  <1> QED
    BY <1>1, <1>3, OneThread DEF proxyVars

\* The prologue begins the LogMap as it was told.
LEMMA DispatchStep ==
    ASSUME IInv, NEW t \in Threads, Dispatch(t)
    PROVE  IInv'
  <1>1. Types /\ Own(t) /\ Bits
    BY DEF IInv
  <1>2. PICK r \in Requests, wanted \in BOOLEAN :
          /\ req' = [req EXCEPT ![t] = r]
          /\ lm' = [lm EXCEPT ![t] = IF wanted THEN {"ACTION", "RELPATH"} ELSE {}]
    BY Zenon DEF Dispatch, Proxy!Dispatch
  <1>3. /\ pc[t] = "idle" /\ pc' = [pc EXCEPT ![t] = "call"]
        /\ stage[t] \in {"should", "told"} /\ query[t] = QueryOf(req'[t], "SUCCESS")
        /\ lm'[t] # {} <=> fuzzy[t]
        /\ UNCHANGED <<errno, result, rec, configVars>>
    BY DEF Dispatch, Proxy!Dispatch
  <1>4. Types'
    BY <1>1, <1>2, <1>3 DEF Types, configVars, Config!Labels
  <1>5. serving
    BY <1>1, <1>3 DEF Own, Question
  <1>6. Question(t)' /\ Rejected(t)'
    BY <1>1, <1>3, <1>4 DEF Types, Own, Question, Rejected, configVars, Config!OnlyIncludes,
       Config!MayMiss
  <1>7. InFlight(t)'
    <2>1. pc'[t] = "call" /\ rec'[t] = Proxy!NoRecord
      BY <1>1, <1>3 DEF Types, Own, InFlight
    <2>2. fuzzy[t] <=> stage[t] = "should"
      BY <1>1, <1>3 DEF Own, Question, Rejected
    <2>3. lm'[t] = IF fuzzy[t] THEN {"ACTION", "RELPATH"} ELSE {}
      BY <1>1, <1>2, <1>3 DEF Types
    <2>4. query'[t].act = ActionName(req'[t].op)
      BY <1>3 DEF QueryOf, configVars
    <2> QED
      BY <1>3, <2>1, <2>2, <2>3, <2>4 DEF InFlight, configVars, Proxy!NoRecord
  <1>8. OwnError(t)' /\ Answer(t)'
    BY <1>1, <1>3 DEF Types, OwnError, Answer
  <1>9. \A u \in Threads \ {t} : /\ pc'[u] = pc[u] /\ req'[u] = req[u] /\ lm'[u] = lm[u]
    BY <1>1, <1>2, <1>3 DEF Types
  <1> QED
    BY <1>1, <1>3, <1>4, <1>5, <1>6, <1>7, <1>8, <1>9, OneThread DEF Own, configVars, Bits

-----------------------------------------------------------------------------
(* The handler.                                                            *)

\* A handler that fails leaves its error in errno.
LEMMA Failing ==
    ASSUME Types, NEW t \in Threads, NEW e \in Nat, Proxy!Fail(t, e)
    PROVE  /\ pc' = [pc EXCEPT ![t] = "log"]
           /\ errno' \in [Threads -> Nat] /\ result' \in [Threads -> Int]
           /\ \A u \in Threads \ {t} : errno'[u] = errno[u] /\ result'[u] = result[u]
           /\ errno'[t] = -result'[t]
  BY DEF Types, Proxy!Fail, Proxy!Return

\* One that succeeds answers what is not negative.
LEMMA Succeeding ==
    ASSUME Types, NEW t \in Threads, NEW v \in Nat, Proxy!Succeed(t, v)
    PROVE  /\ pc' = [pc EXCEPT ![t] = "log"] /\ errno' = errno
           /\ result' \in [Threads -> Int]
           /\ \A u \in Threads \ {t} : result'[u] = result[u]
           /\ result'[t] >= 0
  BY DEF Types, Proxy!Succeed, Proxy!Return

\* A product with a result that is not negative is not negative.
LEMMA Products ==
    ASSUME Types, NEW t \in Threads
    PROVE  Proxy!Product(t, 0) \in Nat /\ \A n \in Nat : Proxy!Product(t, n) \in Nat
  <1>1. errno[t] \in Nat
    BY DEF Types
  <1> QED
    BY <1>1 DEF Proxy!Product

\* What a handler leaves of its own thread's state, and of the others'.
Left(t) ==
    /\ \/ pc' = [pc EXCEPT ![t] = "lchown"] /\ UNCHANGED <<errno, result>>
       \/ /\ pc' = [pc EXCEPT ![t] = "log"]
          /\ errno' \in [Threads -> Nat] /\ result' \in [Threads -> Int]
          /\ \A u \in Threads \ {t} : errno'[u] = errno[u] /\ result'[u] = result[u]
          /\ result'[t] < 0 /\ ~ Proxy!RefusedByMode(t) => errno'[t] = -result'[t]

\* Every outcome of a handler is of that kind.
LEMMA Outcomes ==
    ASSUME Types, NEW t \in Threads,
           \/ \E e \in Errnos \cup {0} : Proxy!Fail(t, e)
           \/ Proxy!Succeed(t, 0) \/ Proxy!Succeed(t, Proxy!Product(t, 0))
           \/ \E n \in 0 .. MaxLen :
                Proxy!Succeed(t, n) \/ Proxy!Succeed(t, Proxy!Product(t, n))
           \/ Proxy!GoToLchown(t)
    PROVE  Left(t)
  <1>1. CASE \E e \in Errnos \cup {0} : Proxy!Fail(t, e)
    BY <1>1, Failing, LoggedFSAssumption DEF Left
  <1>2. ASSUME NEW v \in Nat, Proxy!Succeed(t, v) PROVE Left(t)
    <2>1. errno' \in [Threads -> Nat] /\ \A u \in Threads : errno'[u] = errno[u]
      BY <1>2, Succeeding DEF Types
    <2> QED
      BY <1>2, <2>1, Succeeding DEF Left
  <1>3. CASE Proxy!GoToLchown(t)
    BY <1>3 DEF Left, Proxy!GoToLchown
  <1>4. \A n \in 0 .. MaxLen : n \in Nat
    BY LoggedFSAssumption
  <1> QED
    BY <1>1, <1>2, <1>3, <1>4, Products

\* The handlers.
LEMMA HandlerLeaves ==
    ASSUME Types, NEW t \in Threads, Proxy!Handler(t)
    PROVE  Left(t)
  <1> USE LoggedFSAssumption
  <1>1. CASE \/ Proxy!Attribute(t) \/ Proxy!Descriptor(t) \/ Proxy!Remove(t)
             \/ Proxy!Rename(t) \/ Proxy!MakeNode(t) \/ Proxy!MakeLink(t) \/ Proxy!Lchown(t)
    BY <1>1, Outcomes DEF Proxy!Attribute, Proxy!Descriptor, Proxy!Remove, Proxy!Rename,
       Proxy!MakeNode, Proxy!MakeLink, Proxy!Lchown
  <1>2. CASE \/ Proxy!Readlink(t) \/ Proxy!Create(t) \/ Proxy!Open(t) \/ Proxy!Count(t)
             \/ Proxy!Refuse(t) \/ Proxy!NoCase(t)
    <2>1. \A n \in 1 .. MaxLen : n \in 0 .. MaxLen
      OBVIOUS
    <2> QED
      BY <1>2, <2>1, Outcomes DEF Proxy!Readlink, Proxy!Create, Proxy!Open, Proxy!Count,
         Proxy!Refuse, Proxy!NoCase
  <1>3. CASE Proxy!Fallocate(t)
    <2>1. CASE req[t].mode
      <3>1. /\ Proxy!Return(t, -EOPNOTSUPP, EOPNOTSUPP) /\ UNCHANGED errno
            /\ Proxy!RefusedByMode(t)
        BY <1>3, <2>1 DEF Proxy!Fallocate, Proxy!At, Proxy!RefusedByMode
      <3> QED
        BY <3>1 DEF Types, Left, Proxy!Return
    <2>2. CASE ~ req[t].mode
      BY <1>3, <2>2, Outcomes DEF Proxy!Fallocate
    <2> QED
      BY <2>1, <2>2
  <1>4. CASE Proxy!Deaf(t)
    <2>1. CASE Proxy!Succeed(t, 0)
      BY <2>1, Outcomes
    <2>2. ASSUME NEW e \in Errnos, Proxy!Return(t, 0, e), errno' = [errno EXCEPT ![t] = e]
          PROVE  Left(t)
      BY <2>2 DEF Types, Left, Proxy!Return
    <2> QED
      BY <1>4, <2>1, <2>2 DEF Proxy!Deaf
  <1> QED
    BY <1>1, <1>2, <1>3, <1>4 DEF Proxy!Handler

\* A handler keeps its request and writes no line, and at most adds the path to
\* the LogMap.
LEMMA HandlerKeeps ==
    ASSUME Types, NEW t \in Threads, Proxy!Handler(t)
    PROVE  /\ pc[t] \in {"call", "lchown"}
           /\ UNCHANGED <<req, rec>>
           /\ UNCHANGED lm \/ lm' = [lm EXCEPT ![t] = @ \cup {"RELPATH"}]
  BY DEF Proxy!Handler, Proxy!Attribute, Proxy!Descriptor, Proxy!Remove, Proxy!Rename,
     Proxy!MakeNode, Proxy!MakeLink, Proxy!Lchown, Proxy!Readlink, Proxy!Create, Proxy!Open,
     Proxy!Count, Proxy!Fallocate, Proxy!Refuse, Proxy!Deaf, Proxy!NoCase, Proxy!At,
     Proxy!Fail, Proxy!Succeed, Proxy!Return, Proxy!GoToLchown, Proxy!AddRelPath

\* A handler answers with what it leaves in errno, or with what is no error.
LEMMA HandlerStep ==
    ASSUME IInv, NEW t \in Threads, Handler(t)
    PROVE  IInv'
  <1>1. Types /\ Own(t) /\ Bits /\ Proxy!Handler(t) /\ UNCHANGED configVars
    BY DEF IInv, Handler
  <1>2. /\ pc[t] \in {"call", "lchown"} /\ UNCHANGED <<req, rec>>
        /\ UNCHANGED lm \/ lm' = [lm EXCEPT ![t] = @ \cup {"RELPATH"}]
    BY <1>1, HandlerKeeps
  <1>3. /\ \A u \in Threads \ {t} : lm'[u] = lm[u]
        /\ lm'[t] \in {lm[t], lm[t] \cup {"RELPATH"}}
        /\ lm' \in [Threads -> SUBSET {"ACTION", "RELPATH"}]
    BY <1>1, <1>2 DEF Types
  <1>4. Left(t)
    BY <1>1, HandlerLeaves
  <1>5. pc'[t] \in {"lchown", "log"} /\ \A u \in Threads \ {t} : pc'[u] = pc[u]
    BY <1>1, <1>4 DEF Left, Types
  <1>6. \A u \in Threads \ {t} : errno'[u] = errno[u] /\ result'[u] = result[u]
    BY <1>4 DEF Left
  <1>7. Types'
    BY <1>1, <1>2, <1>3, <1>4 DEF Types, Left, configVars, Config!Labels
  <1>8. serving
    BY <1>1, <1>2 DEF Own, Question, InFlight
  <1>9. Question(t)' /\ Rejected(t)'
    BY <1>1, <1>2, <1>5 DEF Own, Question, Rejected, configVars, Config!OnlyIncludes,
       Config!MayMiss
  <1>10. InFlight(t)'
    BY <1>1, <1>2, <1>3, <1>5 DEF Own, InFlight, configVars, Proxy!NoRecord
  <1>11. OwnError(t)' /\ Answer(t)'
    BY <1>1, <1>2, <1>4, <1>5 DEF Left, Types, OwnError, Answer, Proxy!RefusedByMode
  <1> QED
    BY <1>1, <1>2, <1>3, <1>5, <1>6, <1>7, <1>8, <1>9, <1>10, <1>11, OneThread
    DEF Own, configVars, Bits

-----------------------------------------------------------------------------
(* Util::log, and the reply.                                               *)

\* What a list may find first, and what it may not find, with intact patterns.
LEMMA IntactHits ==
    ASSUME intact, NEW s, NEW q
    PROVE  /\ \A i \in Config!FirstHits(s, q) : i \in DOMAIN s /\ Config!Hits(s[i], q)
           /\ Config!NoneHits(s, q) => \A i \in DOMAIN s : ~ Config!Hits(s[i], q)
  BY DEF Config!FirstHits, Config!NoneHits, Config!MayHit, Config!MayPass, Config!MayMatch,
     Config!MayMiss, Config!MatchUid, Config!Hits, Config!AnyUid

\* shouldLog's answer is the configuration's, whatever return name it is asked
\* with, for a request that fuzzyShouldLog let through.
LEMMA Judged ==
    ASSUME Types, intact, enabled, NEW t \in Threads, NEW q, Config!Judge(t, q),
           Config!OnlyIncludes =>
               \A i \in DOMAIN includes : Config!MayMiss(includes[i].act, q.act)
    PROVE  verdict'[t] <=> Config!Wanted(q) /\ (includes # <<>> => excludes # <<>>)
  <1>1. ASSUME Config!ApplyExcludes(t, q)
        PROVE  verdict'[t] <=> \A j \in DOMAIN excludes : ~ Config!Hits(excludes[j], q)
    <2>1. CASE Config!FirstHits(excludes, q) # {} /\ Config!Tell(t, FALSE)
      BY <2>1, IntactHits DEF Config!Tell, Types
    <2>2. CASE Config!NoneHits(excludes, q) /\ Config!Tell(t, TRUE)
      BY <2>2, IntactHits DEF Config!Tell, Types
    <2> QED
      BY <1>1, <2>1, <2>2 DEF Config!ApplyExcludes
  <1>2. CASE includes = <<>> /\ Config!ApplyExcludes(t, q)
    BY <1>1, <1>2 DEF Config!Wanted
  <1>3. ASSUME NEW i \in Config!FirstHits(includes, q), Config!ApplyExcludes(t, q),
               includes # <<>>
        PROVE  verdict'[t] <=> Config!Wanted(q) /\ (includes # <<>> => excludes # <<>>)
    <2>1. i \in DOMAIN includes /\ Config!Hits(includes[i], q)
      BY <1>3, IntactHits
    <2>2. ~ Config!OnlyIncludes
      BY <2>1 DEF Config!Hits, Config!MayMiss
    <2> QED
      BY <1>1, <1>3, <2>1, <2>2 DEF Config!Wanted, Config!OnlyIncludes
  <1>4. CASE /\ includes # <<>> /\ Config!NoneHits(includes, q) /\ Config!Tell(t, FALSE)
    BY <1>4, IntactHits DEF Config!Wanted, Config!Tell, Types
  <1> QED
    BY <1>2, <1>3, <1>4 DEF Config!Judge

\* A judgement leaves the configuration and the other threads alone.
LEMMA JudgeFrame ==
    ASSUME Types, NEW t \in Threads, NEW q, Config!Judge(t, q)
    PROVE  /\ stage[t] = "should" /\ stage' = [stage EXCEPT ![t] = "told"]
           /\ verdict' \in [Threads -> BOOLEAN]
           /\ UNCHANGED <<enabled, includes, excludes, serving, intact, shallnotlog, query,
                         word, fuzzy>>
  BY DEF Types, Config!Judge, Config!PickDefault, Config!PickInclude, Config!ApplyExcludes, Config!Tell, Config!Goto, Config!config

\* Util::log judges the name, the caller and the answer of the request itself.
LEMMA LogStep ==
    ASSUME IInv, NEW t \in Threads, Log(t)
    PROVE  IInv'
  <1>1. Types /\ Own(t) /\ Bits
    BY DEF IInv
  <1>2. /\ pc[t] = "log" /\ pc' = [pc EXCEPT ![t] = "reply"]
        /\ UNCHANGED <<req, errno, lm, result>>
        /\ \/ /\ {"ACTION", "RELPATH"} \subseteq lm[t]
              /\ rec' = [rec EXCEPT ![t] = Proxy!LogLine(t)]
           \/ UNCHANGED rec
    BY DEF Log, Proxy!Log
  <1>3. {"ACTION", "RELPATH"} \subseteq lm[t] <=> stage[t] = "should"
    BY <1>1, <1>2 DEF Own, InFlight
  <1>4. serving /\ stage[t] \in {"should", "told"} /\ rec[t] = Proxy!NoRecord
    BY <1>1, <1>2 DEF Own, InFlight, Question
  <1>5. /\ \/ stage' = [stage EXCEPT ![t] = "told"]
           \/ stage[t] = "told" /\ UNCHANGED stage
        /\ verdict' \in [Threads -> BOOLEAN]
        /\ UNCHANGED <<enabled, includes, excludes, serving, intact, shallnotlog, query,
                      word, fuzzy>>
    <2>1. CASE stage[t] = "should"
      BY <1>1, <1>3, <2>1, JudgeFrame DEF Log
    <2>2. CASE stage[t] = "told"
      BY <1>1, <1>3, <2>2 DEF Log, configVars, Types
    <2> QED
      BY <1>4, <2>1, <2>2
  <1>6. Types' /\ pc'[t] = "reply" /\ stage'[t] = "told"
    BY <1>1, <1>2, <1>5 DEF Types, Config!Labels
  <1>7. \A u \in Threads \ {t} : pc'[u] = pc[u] /\ rec'[u] = rec[u] /\ stage'[u] = stage[u]
    BY <1>1, <1>2, <1>5 DEF Types
  <1>8. Question(t)' /\ Rejected(t)' /\ InFlight(t)'
    BY <1>1, <1>4, <1>5, <1>6 DEF Own, Question, Rejected, InFlight, Config!OnlyIncludes
  <1>9. OwnError(t)'
    BY <1>1, <1>2 DEF Own, OwnError, Proxy!RefusedByMode
  <1>10. Answer(t)'
    <2> DEFINE retname == IF errno[t] = 0 THEN "SUCCESS" ELSE "FAILURE"
               q       == QueryOf(req[t], retname)
    <2>1. Proxy!LogLine(t).retname = retname /\ retname # "none"
      BY DEF Proxy!LogLine
    <2>2. rec'[t] # Proxy!NoRecord => rec'[t].retname = retname
      BY <1>1, <1>2, <1>4, <2>1 DEF Types
    <2>3. ASSUME intact
          PROVE  rec'[t] # Proxy!NoRecord
                   <=> Config!Wanted(q) /\ (includes # <<>> => excludes # <<>>)
      <3>1. CASE stage[t] = "should"
        <4>1. Config!Judge(t, q) /\ (rec'[t] # rec[t] <=> verdict'[t])
          BY <1>3, <2>1, <3>1 DEF Log
        <4>2. q.act = query[t].act
          BY <1>1, <1>2 DEF Own, InFlight, QueryOf
        <4>3. enabled /\ (Config!OnlyIncludes =>
                \A i \in DOMAIN includes : Config!MayMiss(includes[i].act, q.act))
          BY <1>1, <3>1, <4>2 DEF Own, Question
        <4> HIDE DEF q
        <4> QED
          BY <1>1, <1>4, <2>3, <4>1, <4>3, Judged
      <3>2. CASE stage[t] = "told"
        <4>1. ~ enabled \/ Config!OnlyIncludes
          BY <1>1, <1>2, <3>2 DEF Own, Rejected
        <4>2. rec'[t] = Proxy!NoRecord
          BY <1>2, <1>3, <1>4, <3>2
        <4> QED
          BY <4>1, <4>2 DEF Config!Wanted, Config!OnlyIncludes
      <3> QED
        BY <1>4, <3>1, <3>2
    <2>4. QueryOf(req[t], retname)' = q /\ Config!Wanted(q)' = Config!Wanted(q)
      BY <1>2, <1>5 DEF QueryOf, Config!Wanted, Config!Hits
    <2> QED
      BY <1>2, <1>5, <1>6, <2>2, <2>3, <2>4 DEF Answer, Proxy!NoRecord, Config!Wanted,
         Config!Hits, QueryOf
  <1> QED
    BY <1>1, <1>2, <1>4, <1>5, <1>6, <1>7, <1>8, <1>9, <1>10, OneThread DEF Own, Bits,
       Config!OnlyIncludes

\* The request is answered: its thread is as it was before it, errno aside.
LEMMA ReplyStep ==
    ASSUME IInv, NEW t \in Threads, Reply(t)
    PROVE  IInv'
  <1>1. Types /\ Own(t) /\ Bits
    BY DEF IInv
  <1>2. /\ pc[t] = "reply" /\ pc' = [pc EXCEPT ![t] = "idle"]
        /\ req' = [req EXCEPT ![t] = Proxy!NoRequest] /\ lm' = [lm EXCEPT ![t] = {}]
        /\ result' = [result EXCEPT ![t] = 0] /\ rec' = [rec EXCEPT ![t] = Proxy!NoRecord]
        /\ errno' \in {errno} \cup {[errno EXCEPT ![t] = e] : e \in Residue}
    BY DEF Reply, Proxy!Reply, Proxy!EndLogMap
  <1>3. /\ stage' = [stage EXCEPT ![t] = "idle"]
        /\ query' = [query EXCEPT ![t] = Config!NoQuery]
        /\ fuzzy' = [fuzzy EXCEPT ![t] = TRUE]
        /\ verdict' = [verdict EXCEPT ![t] = FALSE]
        /\ word' = [word EXCEPT ![t] = {}]
        /\ UNCHANGED <<enabled, includes, excludes, serving, intact, shallnotlog>>
    BY DEF Reply, Config!Done, Config!Goto, Config!config
  <1>4. errno' \in [Threads -> Nat] /\ \A u \in Threads \ {t} : errno'[u] = errno[u]
    BY <1>1, <1>2, LoggedFSAssumption DEF Types
  <1>5. Types'
    <2>1. /\ pc' \in [Threads -> {"idle", "call", "lchown", "log", "reply"}]
          /\ lm' \in [Threads -> SUBSET {"ACTION", "RELPATH"}]
          /\ result' \in [Threads -> Int]
      BY <1>1, <1>2 DEF Types
    <2>2. req' = [u \in Threads |-> req'[u]] /\ rec' = [u \in Threads |-> rec'[u]]
      BY <1>1, <1>2 DEF Types
    <2>3. /\ stage' \in [Threads -> Config!Labels]
          /\ fuzzy' \in [Threads -> BOOLEAN] /\ verdict' \in [Threads -> BOOLEAN]
      BY <1>1, <1>3 DEF Types, Config!Labels
    <2>4. query' = [u \in Threads |-> query'[u]] /\ word' = [u \in Threads |-> word'[u]]
      BY <1>1, <1>3 DEF Types
    <2> QED
      BY <1>4, <2>1, <2>2, <2>3, <2>4 DEF Types, Config!Labels
  <1>6. /\ pc'[t] = "idle" /\ stage'[t] = "idle" /\ word'[t] = {} /\ fuzzy'[t]
        /\ rec'[t] = Proxy!NoRecord
        /\ \A u \in Threads \ {t} :
             /\ pc'[u] = pc[u] /\ req'[u] = req[u] /\ lm'[u] = lm[u]
             /\ result'[u] = result[u] /\ rec'[u] = rec[u] /\ stage'[u] = stage[u]
             /\ query'[u] = query[u] /\ word'[u] = word[u] /\ fuzzy'[u] = fuzzy[u]
    BY <1>1, <1>2, <1>3 DEF Types
  <1>7. serving
    BY <1>1, <1>2 DEF Own, Question, InFlight
  <1>8. Own(t)'
    BY <1>6 DEF Own, Question, Rejected, InFlight, OwnError, Answer, Proxy!NoRecord
  <1>9. shallnotlog' # {} => Config!OnlyIncludes
    BY <1>1, <1>3 DEF Bits
  <1> QED
    BY <1>3, <1>4, <1>5, <1>6, <1>7, <1>8, <1>9, OneThread

-----------------------------------------------------------------------------

\* The invariant is inductive.
LEMMA StepInv == IInv /\ [Next]_vars => IInv'
  <1> SUFFICES ASSUME IInv, [Next]_vars PROVE IInv'
    OBVIOUS
  <1>1. CASE UNCHANGED vars
    BY <1>1 DEF vars, proxyVars, configVars, IInv, Types, Bits, Own, Question, Rejected,
       InFlight, OwnError, Answer, Proxy!NoRecord, Proxy!RefusedByMode, QueryOf,
       Config!Wanted, Config!Hits, Config!OnlyIncludes, Config!MayMiss, Config!Labels
  <1>2. CASE Load
    BY <1>2, LoadStep
  <1>3. CASE \E t \in Threads : Fuzzy(t) \/ Dispatch(t) \/ Handler(t) \/ Log(t) \/ Reply(t)
    BY <1>3, FuzzyStep, DispatchStep, HandlerStep, LogStep, ReplyStep
  <1> QED
    BY <1>1, <1>2, <1>3 DEF Next

\* A request that is answered with an error has a line exactly when the
\* configuration wants one for that failure, and no error gets lost on the way
\* from the handler to the line, for any requests, filters and threads:
\* proxy<N>, the handlers, fuzzyShouldLog, Util::log and shouldLog together.
THEOREM LogAgrees == Spec => []LoggedAsConfigured
  <1>1. IInv => LoggedAsConfigured
    BY DEF IInv, Own, Answer, OwnError, LoggedAsConfigured
  <1> QED
    BY <1>1, InitInv, StepInv, PTL DEF Spec

\* The configured proxy is a proxy: every behaviour of the two together is one
\* of Proxy alone, whose answers of fuzzyShouldLog and shouldLog are free, so
\* that what is proved of Proxy holds with any configuration.
THEOREM ProxySimulated == Spec => Proxy!Spec
  <1>1. Init => Proxy!Init
    BY DEF Init
  <1>2. [Next]_vars => [Proxy!Next]_(Proxy!vars)
    BY DEF Next, vars, proxyVars, Load, Fuzzy, Dispatch, Handler, Log, Reply, Proxy!Next,
       Proxy!vars
  <1> QED
    BY <1>1, <1>2, PTL DEF Spec, Proxy!Spec
=============================================================================
