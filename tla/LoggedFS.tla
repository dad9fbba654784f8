------------------------------ MODULE LoggedFS ------------------------------
(***************************************************************************)
(* The proxy with its configuration.  A request is asked about before its  *)
(* handler runs (fuzzyShouldLog) and again afterwards (shouldLog, called   *)
(* by Util::log), then with the return name that errno gives it; the       *)
(* answers decide what Proxy leaves open, and the threads share both the   *)
(* backing directory and the bitset.                                       *)
(***************************************************************************)
EXTENDS Operations, Integers, Sequences, FiniteSets

CONSTANTS
    Threads, Names, Inodes, Uids, Daemon, Requests, Errnos, EOPNOTSUPP, Residue,
    MaxLen, None,                                     \* of Proxy
    Formats, FileFilters, MaxFilters, Null, Unset, Dangling   \* of Config

\* Error numbers are positive, as are the errno values left behind; lengths count bytes.
ASSUME LoggedFSAssumption ==
    /\ Errnos \subseteq Nat \ {0} /\ EOPNOTSUPP \in Errnos /\ Residue \subseteq Nat
    /\ MaxLen \in Nat

VARIABLES
    pc, req, errno, lm, result, failed, made, rec, dir, owner,       \* of Proxy
    enabled, includes, excludes, defaultformat, serving, intact, shallnotlog,
    stage, query, word, fuzzy, verdict, format        \* of Config; stage is its pc

Retnames == {"SUCCESS", "FAILURE"}

\* What shouldLog is asked about a request that is said to have ended as ret.
QueryOf(r, ret) == [path |-> r.path, uid |-> r.uid, act |-> ActionName(r.op), ret |-> ret]

\* Before the handler has run nobody asks for the return name.
Asked == {QueryOf(r, "SUCCESS") : r \in Requests}

Proxy  == INSTANCE Proxy
Config == INSTANCE Config WITH
              pc <- stage, Paths <- Names, Actions <- {ActionName(op) : op \in AllOps}

proxyVars  == <<pc, req, errno, lm, result, failed, made, rec, dir, owner>>
configVars == <<enabled, includes, excludes, defaultformat, serving, intact, shallnotlog,
                stage, query, word, fuzzy, verdict, format>>
vars == <<proxyVars, configVars>>

Init == Proxy!Init /\ Config!Init

\* main reads its arguments and the configuration file.
Load ==
    /\ \/ Config!LoadInclude \/ Config!LoadExclude \/ Config!LoadAttribute \/ Config!Serve
    /\ UNCHANGED proxyVars

\* The prologue's question.
Fuzzy(t) ==
    /\ pc[t] = "idle"
    /\ \/ Config!Ask(t) \/ Config!FuzzyRead(t) \/ Config!FuzzySet(t)
       \/ Config!FuzzyLoop(t) \/ Config!FuzzyClear(t)
    /\ UNCHANGED proxyVars

\* Its answer decides whether the LogMap is begun.
Dispatch(t) ==
    /\ stage[t] \in {"should", "told"}
    /\ Proxy!Dispatch(t)
    /\ query[t] = QueryOf(req'[t], "SUCCESS")
    /\ lm'[t] # {} <=> fuzzy[t]
    /\ UNCHANGED configVars

Handler(t) == Proxy!Handler(t) /\ UNCHANGED configVars

\* Util::log: a LogMap that was begun goes to shouldLog, with the return name
\* of the line it would become.
Log(t) ==
    /\ Proxy!Log(t)
    /\ IF {"ACTION", "RELPATH"} \subseteq lm[t]
       THEN /\ Config!Judge(t, QueryOf(req[t], Proxy!LogLine(t).retname))
            /\ rec'[t] # rec[t] <=> verdict'[t]
       ELSE UNCHANGED configVars

Reply(t) == Proxy!Reply(t) /\ Config!Done(t)

Next == Load \/ \E t \in Threads :
                   Fuzzy(t) \/ Dispatch(t) \/ Handler(t) \/ Log(t) \/ Reply(t)

Spec == Init /\ [][Next]_vars

-----------------------------------------------------------------------------

\* A request that is answered with an error has a line exactly when the
\* configuration wants a failure of its path, user and action (and is not one of
\* includes alone), and the line shows that error; one that is answered with
\* success is logged or not by the return name that errno, however old, gives
\* it.  Two questions, a handler and other threads lie between the request and
\* its line.
LoggedAsConfigured ==
    \A t \in Threads :
        LET retname == IF errno[t] = 0 THEN "SUCCESS" ELSE "FAILURE"
        IN  pc[t] = "reply" /\ intact =>
              /\ rec[t] # Proxy!NoRecord <=>
                    /\ Config!Wanted(QueryOf(req[t], retname))
                    /\ includes # <<>> => excludes # <<>>
              /\ rec[t] # Proxy!NoRecord => rec[t].retname = retname
              /\ result[t] < 0 /\ ~ Proxy!RefusedByMode(t) => errno[t] = -result[t]
=============================================================================
