---------------------------- MODULE ProxyProofs ----------------------------
(* Theorems about Proxy, for every set of threads, names, inodes, users and *)
(* requests; and that it implements Passthrough: every request takes       *)
(* effect at one instant.                                                  *)
EXTENDS Proxy, TLAPS

\* The request of an idle thread is not one the kernel sends.
LEMMA NoRequestIsNone == NoRequest \notin Requests
  BY ProxyAssumption DEF NoRequest, RequestSet, AllOps, PathOps, FdOps, CountOps,
     OpenOps, MakeNewOps, RemoveOps, Unsupported, DeafOps

\* A thread that is not idle serves a request with all its fields.
LEMMA ServedRequest ==
    ASSUME TypeOK, NEW t \in Threads, pc[t] # "idle"
    PROVE  req[t] \in RequestSet
  BY ProxyAssumption DEF TypeOK

\* The line Util::log writes is a record, whatever the operation.
LEMMA LogLineType ==
    ASSUME TypeOK, NEW t \in Threads, pc[t] # "idle"
    PROVE  LogLine(t) \in Records
  <1>1. req[t].op \in AllOps
    BY ServedRequest DEF RequestSet
  <1>2. errno[t] \in Nat
    BY DEF TypeOK
  <1> QED
    BY <1>1, <1>2 DEF LogLine, Records, ActionName

-----------------------------------------------------------------------------
(* Type correctness.                                                       *)

LEMMA InitType == Init => TypeOK
  <1> SUFFICES ASSUME Init PROVE TypeOK
    OBVIOUS
  <1>1. NoRecord \in Records
    BY DEF NoRecord, Records
  <1> QED
    BY <1>1, NoRequestIsNone DEF Init, TypeOK

\* Returning an integer with a natural error number keeps the types.
LEMMA ReturnType ==
    ASSUME TypeOK, NEW t \in Threads, pc[t] # "idle",
           NEW v \in Int, NEW e \in Nat, Return(t, v, e),
           errno' \in [Threads -> Nat],
           lm' \in [Threads -> SUBSET {"ACTION", "RELPATH"}],
           \A u \in Threads : u # t => lm'[u] = lm[u],
           made' \in [Threads -> Inodes \cup {None}],
           dir' \in [Names -> Inodes \cup {None}],
           owner' \in [Inodes -> Uids]
    PROVE  TypeOK'
  BY DEF TypeOK, Return

\* A handler that fails keeps the types.
LEMMA FailType ==
    ASSUME TypeOK, NEW t \in Threads, pc[t] # "idle",
           NEW e \in Nat, Fail(t, e),
           lm' \in [Threads -> SUBSET {"ACTION", "RELPATH"}],
           \A u \in Threads : u # t => lm'[u] = lm[u],
           made' \in [Threads -> Inodes \cup {None}],
           dir' \in [Names -> Inodes \cup {None}],
           owner' \in [Inodes -> Uids]
    PROVE  TypeOK'
  <1>1. errno' \in [Threads -> Nat]
    BY DEF TypeOK, Fail
  <1>2. Return(t, -e, e) /\ -e \in Int
    BY DEF Fail
  <1> QED
    BY <1>1, <1>2, ReturnType

\* A handler that succeeds with an integer keeps the types.
LEMMA SucceedType ==
    ASSUME TypeOK, NEW t \in Threads, pc[t] # "idle",
           NEW v \in Int, Succeed(t, v),
           lm' \in [Threads -> SUBSET {"ACTION", "RELPATH"}],
           \A u \in Threads : u # t => lm'[u] = lm[u],
           made' \in [Threads -> Inodes \cup {None}],
           dir' \in [Names -> Inodes \cup {None}],
           owner' \in [Inodes -> Uids]
    PROVE  TypeOK'
  <1>1. errno' \in [Threads -> Nat]
    BY DEF TypeOK, Succeed
  <1>2. Return(t, v, 0)
    BY DEF Succeed
  <1> QED
    BY <1>1, <1>2, ReturnType

\* What the product is worth: 0 for a call that returned 0, and an integer for
\* a call that returned a length.
LEMMA ProductValue ==
    ASSUME TypeOK, NEW t \in Threads
    PROVE  /\ Product(t, 0) = 0
           /\ \A n \in Nat : Product(t, n) \in Nat
  BY DEF TypeOK, Product

\* The errors a system call may fail with are numbers.
LEMMA ErrnoNat == Errnos \subseteq Nat /\ EOPNOTSUPP \in Nat /\ 0 \notin Errnos
  BY ProxyAssumption

\* Every step of a handler keeps the types.
LEMMA HandlerType ==
    ASSUME TypeOK, NEW t \in Threads, Handler(t)
    PROVE  TypeOK'
  <1> USE ErrnoNat
  <1>0. /\ lm \in [Threads -> SUBSET {"ACTION", "RELPATH"}]
        /\ made \in [Threads -> Inodes \cup {None}]
        /\ dir \in [Names -> Inodes \cup {None}]
        /\ owner \in [Inodes -> Uids]
        /\ errno \in [Threads -> Nat]
    BY DEF TypeOK
  <1>1. ASSUME pc[t] # "idle"
        PROVE  /\ req[t] \in RequestSet
               /\ req[t].path \in Names /\ req[t].to \in Names
               /\ req[t].uid \in Uids /\ req[t].owner \in Uids
               /\ Target(req[t]) \in Names
    BY <1>1, ServedRequest DEF RequestSet, Target
  <1>2. Product(t, 0) \in Int /\ \A n \in Nat : Product(t, n) \in Int
    BY ProductValue
  <1>3. ASSUME AddRelPath(t)
        PROVE  /\ lm' \in [Threads -> SUBSET {"ACTION", "RELPATH"}]
               /\ \A u \in Threads : u # t => lm'[u] = lm[u]
    BY <1>0, <1>3 DEF AddRelPath
  <1>4. CASE Attribute(t)
    <2>1. pc[t] # "idle"
      BY <1>4 DEF Attribute, At
    <2>2. owner' \in [Inodes -> Uids]
      BY <1>4, <1>0, <1>1, <2>1 DEF Attribute
    <2>3. CASE Succeed(t, Product(t, 0))
      BY <1>4, <1>0, <1>2, <2>1, <2>2, <2>3, SucceedType DEF Attribute
    <2>4. CASE \E e \in Errnos : Fail(t, e)
      BY <1>4, <1>0, <2>1, <2>2, <2>4, FailType DEF Attribute
    <2> QED
      BY <1>4, <2>3, <2>4 DEF Attribute
  <1>5. CASE Descriptor(t)
    <2>1. pc[t] # "idle"
      BY <1>5 DEF Descriptor, At
    <2>2. CASE Succeed(t, Product(t, 0))
      BY <1>5, <1>0, <1>2, <2>1, <2>2, SucceedType DEF Descriptor, NoEffect
    <2>3. CASE \E e \in Errnos : Fail(t, e)
      BY <1>5, <1>0, <2>1, <2>3, FailType DEF Descriptor, NoEffect
    <2> QED
      BY <1>5, <2>2, <2>3 DEF Descriptor
  <1>6. CASE Remove(t)
    <2>1. pc[t] # "idle"
      BY <1>6 DEF Remove, At
    <2>2. dir' \in [Names -> Inodes \cup {None}]
      BY <1>6, <1>0 DEF Remove
    <2>3. CASE Succeed(t, Product(t, 0))
      BY <1>6, <1>0, <1>2, <2>1, <2>2, <2>3, SucceedType DEF Remove
    <2>4. CASE \E e \in Errnos : Fail(t, e)
      BY <1>6, <1>0, <2>1, <2>2, <2>4, FailType DEF Remove
    <2> QED
      BY <1>6, <2>3, <2>4 DEF Remove
  <1>7. CASE Rename(t)
    <2>1. pc[t] # "idle"
      BY <1>7 DEF Rename, At
    <2>2. dir' \in [Names -> Inodes \cup {None}]
      BY <1>7, <1>0, <1>1, <2>1 DEF Rename
    <2>3. CASE Succeed(t, Product(t, 0))
      BY <1>7, <1>0, <1>2, <1>3, <2>1, <2>2, <2>3, SucceedType DEF Rename
    <2>4. CASE \E e \in Errnos : Fail(t, e)
      BY <1>7, <1>0, <1>3, <2>1, <2>2, <2>4, FailType DEF Rename
    <2> QED
      BY <1>7, <2>3, <2>4 DEF Rename
  <1>8. CASE MakeNode(t)
    <2>1. pc[t] # "idle"
      BY <1>8 DEF MakeNode, At
    <2>2. /\ dir' \in [Names -> Inodes \cup {None}]
          /\ owner' \in [Inodes -> Uids]
          /\ made' \in [Threads -> Inodes \cup {None}]
      BY <1>8, <1>0, <1>1, <2>1, ProxyAssumption DEF MakeNode, Bind, NoEffect
    <2>3. /\ lm' \in [Threads -> SUBSET {"ACTION", "RELPATH"}]
          /\ \A u \in Threads : u # t => lm'[u] = lm[u]
      BY <1>8, <1>0, <1>3 DEF MakeNode
    <2>4. CASE GoToLchown(t)
      BY <2>1, <2>2, <2>3, <2>4 DEF GoToLchown, TypeOK
    <2>5. CASE \E e \in Errnos : Fail(t, e)
      BY <2>1, <2>2, <2>3, <2>5, FailType
    <2> QED
      BY <1>8, <2>4, <2>5 DEF MakeNode
  <1>9. CASE MakeLink(t)
    <2>1. pc[t] # "idle"
      BY <1>9 DEF MakeLink, At
    <2>2. /\ dir' \in [Names -> Inodes \cup {None}]
          /\ owner' \in [Inodes -> Uids]
          /\ made' \in [Threads -> Inodes \cup {None}]
      BY <1>9, <1>0, <1>1, <2>1 DEF MakeLink, NoEffect
    <2>3. /\ lm' \in [Threads -> SUBSET {"ACTION", "RELPATH"}]
          /\ \A u \in Threads : u # t => lm'[u] = lm[u]
      BY <1>9, <1>3 DEF MakeLink
    <2>4. CASE GoToLchown(t)
      BY <2>1, <2>2, <2>3, <2>4 DEF GoToLchown, TypeOK
    <2>5. CASE \E e \in Errnos : Fail(t, e)
      BY <2>1, <2>2, <2>3, <2>5, FailType
    <2> QED
      BY <1>9, <2>4, <2>5 DEF MakeLink
  <1>10. CASE Lchown(t)
    <2>1. pc[t] # "idle"
      BY <1>10 DEF Lchown
    <2>2. owner' \in [Inodes -> Uids]
      BY <1>10, <1>0, <1>1, <2>1 DEF Lchown
    <2>3. CASE Succeed(t, Product(t, 0))
      BY <1>10, <1>0, <1>2, <2>1, <2>2, <2>3, SucceedType DEF Lchown
    <2>4. CASE \E e \in Errnos : Fail(t, e)
      BY <1>10, <1>0, <2>1, <2>2, <2>4, FailType DEF Lchown
    <2> QED
      BY <1>10, <2>3, <2>4 DEF Lchown
  <1>11. CASE Readlink(t)
    <2>1. pc[t] # "idle"
      BY <1>11 DEF Readlink, At
    <2>2. CASE \E len \in 1 .. MaxLen : Succeed(t, Product(t, len))
      BY <1>11, <1>0, <1>2, <2>1, <2>2, SucceedType, ProxyAssumption
         DEF Readlink, NoEffect
    <2>3. CASE \E e \in Errnos : Fail(t, e)
      BY <1>11, <1>0, <2>1, <2>3, FailType DEF Readlink, NoEffect
    <2> QED
      BY <1>11, <2>2, <2>3 DEF Readlink
  <1>12. CASE Create(t)
    <2>1. pc[t] # "idle"
      BY <1>12 DEF Create, At
    <2>2. /\ dir' \in [Names -> Inodes \cup {None}]
          /\ owner' \in [Inodes -> Uids]
          /\ made' \in [Threads -> Inodes \cup {None}]
      BY <1>12, <1>0, <1>1, <2>1, ProxyAssumption DEF Create, Bind, NoEffect
    <2>3. CASE Succeed(t, 0)
      BY <1>12, <1>0, <2>1, <2>2, <2>3, SucceedType DEF Create
    <2>4. CASE \E e \in Errnos : Fail(t, e)
      BY <1>12, <1>0, <2>1, <2>2, <2>4, FailType DEF Create
    <2> QED
      BY <1>12, <2>3, <2>4 DEF Create
  <1>13. CASE Open(t)
    <2>1. pc[t] # "idle"
      BY <1>13 DEF Open, At
    <2>2. CASE Succeed(t, 0)
      BY <1>13, <1>0, <2>1, <2>2, SucceedType DEF Open, NoEffect
    <2>3. CASE \E e \in Errnos : Fail(t, e)
      BY <1>13, <1>0, <2>1, <2>3, FailType DEF Open, NoEffect
    <2> QED
      BY <1>13, <2>2, <2>3 DEF Open
  <1>14. CASE Count(t)
    <2>1. pc[t] # "idle"
      BY <1>14 DEF Count, At
    <2>2. CASE \E n \in 0 .. MaxLen : Succeed(t, n)
      BY <1>14, <1>0, <2>1, <2>2, SucceedType, ProxyAssumption DEF Count, NoEffect
    <2>3. CASE \E e \in Errnos : Fail(t, e)
      BY <1>14, <1>0, <2>1, <2>3, FailType DEF Count, NoEffect
    <2> QED
      BY <1>14, <2>2, <2>3 DEF Count
  <1>15. CASE Fallocate(t)
    <2>1. pc[t] # "idle"
      BY <1>15 DEF Fallocate, At
    <2>2. CASE Return(t, -EOPNOTSUPP, EOPNOTSUPP) /\ UNCHANGED errno
      <3>1. -EOPNOTSUPP \in Int
        OBVIOUS
      <3> QED
        BY <1>15, <1>0, <2>1, <2>2, <3>1, ReturnType DEF Fallocate, NoEffect
    <2>3. CASE \E e \in Errnos \cup {0} : Fail(t, e)
      BY <1>15, <1>0, <2>1, <2>3, FailType DEF Fallocate, NoEffect
    <2> QED
      BY <1>15, <2>2, <2>3 DEF Fallocate
  <1>16. CASE Refuse(t)
    <2>1. pc[t] # "idle"
      BY <1>16 DEF Refuse, At
    <2> QED
      BY <1>16, <1>0, <2>1, FailType DEF Refuse, NoEffect
  <1>17. CASE Deaf(t)
    <2>1. pc[t] # "idle"
      BY <1>17 DEF Deaf, At
    <2>2. CASE Succeed(t, 0)
      BY <1>17, <1>0, <2>1, <2>2, SucceedType DEF Deaf, NoEffect
    <2>3. ASSUME NEW e \in Errnos,
                 Return(t, 0, e), errno' = [errno EXCEPT ![t] = e]
          PROVE  TypeOK'
      <3>1. errno' \in [Threads -> Nat]
        BY <1>0, <2>3
      <3> QED
        BY <1>17, <1>0, <2>1, <2>3, <3>1, ReturnType DEF Deaf, NoEffect
    <2> QED
      BY <1>17, <2>2, <2>3 DEF Deaf
  <1>18. CASE NoCase(t)
    <2>1. pc[t] # "idle"
      BY <1>18 DEF NoCase, At
    <2> QED
      BY <1>18, <1>0, <2>1, SucceedType DEF NoCase, NoEffect
  <1> QED
    BY <1>4, <1>5, <1>6, <1>7, <1>8, <1>9, <1>10, <1>11, <1>12, <1>13, <1>14,
       <1>15, <1>16, <1>17, <1>18 DEF Handler

\* Every step of the system keeps the types.
LEMMA StepType == TypeOK /\ [Next]_vars => TypeOK'
  <1> SUFFICES ASSUME TypeOK, [Next]_vars PROVE TypeOK'
    OBVIOUS
  <1>1. ASSUME NEW t \in Threads, Dispatch(t) PROVE TypeOK'
    BY <1>1, NoRequestIsNone DEF Dispatch, TypeOK
  <1>2. ASSUME NEW t \in Threads, Log(t) PROVE TypeOK'
    <2>1. LogLine(t) \in Records
      BY <1>2, LogLineType DEF Log
    <2> QED
      BY <1>2, <2>1 DEF Log, TypeOK
  <1>3. ASSUME NEW t \in Threads, Reply(t) PROVE TypeOK'
    <2>1. NoRecord \in Records
      BY DEF NoRecord, Records
    <2>2. errno' \in [Threads -> Nat]
      BY <1>3, ProxyAssumption DEF Reply, TypeOK
    <2>3. /\ pc' \in [Threads -> {"idle", "call", "lchown", "log", "reply"}]
          /\ req' \in [Threads -> Requests \cup {NoRequest}]
          /\ lm' \in [Threads -> SUBSET {"ACTION", "RELPATH"}]
          /\ result' \in [Threads -> Int]
          /\ failed' \in [Threads -> Nat]
          /\ made' \in [Threads -> Inodes \cup {None}]
          /\ rec' \in [Threads -> Records]
          /\ dir' \in [Names -> Inodes \cup {None}]
          /\ owner' \in [Inodes -> Uids]
      BY <1>3, <2>1 DEF Reply, EndLogMap, TypeOK
    <2>4. \A u \in Threads : /\ pc'[u] # "idle" <=> req'[u] \in Requests
                             /\ pc'[u] = "idle" => lm'[u] = {} /\ rec'[u] = NoRecord
      BY <1>3, NoRequestIsNone DEF Reply, EndLogMap, TypeOK
    <2> QED
      BY <2>2, <2>3, <2>4 DEF TypeOK
  <1>4. CASE UNCHANGED vars
    BY <1>4 DEF vars, TypeOK
  <1> QED
    BY <1>1, <1>2, <1>3, <1>4, HandlerType DEF Next

\* Type correctness: every variable keeps its type, and an idle thread carries
\* nothing of its last request but errno (proxy's locals die with the call).
THEOREM TypeCorrect == Spec => []TypeOK
  BY InitType, StepType, PTL DEF Spec

-----------------------------------------------------------------------------
(* What a step of one thread leaves alone, and what a handler returns.     *)

\* The result r, the failing errno f and the errno e a handler may leave for
\* Util::log when it serves request q.
GoodOutcome(q, r, f, e) ==
    /\ q.op \notin DeafOps =>
         /\ f # 0 => r = -f
         /\ f = 0 => /\ r >= 0
                     /\ q.op \notin CountOps \cup {"readlink"} => r = 0
    /\ r < 0 /\ ~ (q.op = "fallocate" /\ q.mode) => e = -r

\* Failing with a positive error, or with the 0 posix_fallocate may return, is
\* a good outcome for every request.
LEMMA FailOutcome ==
    ASSUME TypeOK, NEW t \in Threads, NEW e \in Nat, Fail(t, e)
    PROVE  GoodOutcome(req[t], result'[t], failed'[t], errno'[t])
  BY DEF TypeOK, Fail, Return, GoodOutcome

\* Succeeding with 0 is one too, and so is a count for the operations that
\* answer one.
LEMMA SucceedOutcome ==
    ASSUME TypeOK, NEW t \in Threads, NEW n \in Nat, Succeed(t, n),
           n = 0 \/ req[t].op \in CountOps \cup {"readlink"}
    PROVE  GoodOutcome(req[t], result'[t], failed'[t], errno'[t])
  BY DEF TypeOK, Succeed, Return, GoodOutcome

\* A handler either returns to proxy or goes on to its lchown, which only the
\* makes and link do.
LEMMA HandlerControl ==
    ASSUME TypeOK, NEW t \in Threads, Handler(t)
    PROVE  /\ pc[t] \in {"call", "lchown"}
           /\ req' = req /\ rec' = rec
           /\ \/ /\ pc' = [pc EXCEPT ![t] = "log"]
              \/ /\ pc' = [pc EXCEPT ![t] = "lchown"]
                 /\ req[t].op \in MakeNewOps \cup {"link"}
  BY DEF Handler, Attribute, Descriptor, Remove, Rename, MakeNode, MakeLink,
     Lchown, Readlink, Create, Open, Count, Fallocate, Refuse, Deaf, NoCase,
     At, Fail, Succeed, Return, GoToLchown

\* Every handler that returns leaves a good outcome behind.
LEMMA HandlerOutcome ==
    ASSUME TypeOK, NEW t \in Threads, Handler(t), pc'[t] = "log"
    PROVE  GoodOutcome(req[t], result'[t], failed'[t], errno'[t])
  <1> USE ErrnoNat
  <1>1. ASSUME NEW e \in Errnos \cup {0}, Fail(t, e)
        PROVE  GoodOutcome(req[t], result'[t], failed'[t], errno'[t])
    BY <1>1, FailOutcome
  <1>2. ASSUME Succeed(t, 0) \/ Succeed(t, Product(t, 0))
        PROVE  GoodOutcome(req[t], result'[t], failed'[t], errno'[t])
    BY <1>2, SucceedOutcome, ProductValue
  <1>3. ~ GoToLchown(t)
    BY DEF GoToLchown, TypeOK
  <1>4. CASE Readlink(t) \/ Count(t)
    <2>1. \A n \in 0 .. MaxLen : n \in Nat /\ Product(t, n) \in Nat
      BY ProductValue, ProxyAssumption
    <2>2. req[t].op \in CountOps \cup {"readlink"}
      BY <1>4 DEF Readlink, Count, At
    <2>3. CASE \E n \in 0 .. MaxLen : Succeed(t, n) \/ Succeed(t, Product(t, n))
      BY <2>1, <2>2, <2>3, SucceedOutcome
    <2> QED
      BY <1>1, <1>4, <2>3, ProxyAssumption DEF Readlink, Count
  <1>5. CASE Fallocate(t)
    <2>1. CASE req[t].mode
      <3>1. Return(t, -EOPNOTSUPP, EOPNOTSUPP)
        BY <1>5, <2>1 DEF Fallocate
      <3> QED
        BY <1>5, <2>1, <3>1 DEF Fallocate, At, TypeOK, Return, GoodOutcome
    <2>2. CASE ~ req[t].mode
      BY <1>1, <1>5, <2>2 DEF Fallocate
    <2> QED
      BY <2>1, <2>2
  <1>6. CASE Deaf(t)
    BY <1>6 DEF Deaf, At, TypeOK, Succeed, Return, GoodOutcome
  <1>7. CASE \/ Attribute(t) \/ Descriptor(t) \/ Remove(t) \/ Rename(t)
            \/ MakeNode(t) \/ MakeLink(t) \/ Lchown(t)
    BY <1>1, <1>2, <1>3, <1>7
       DEF Attribute, Descriptor, Remove, Rename, MakeNode, MakeLink, Lchown
  <1>8. CASE Create(t) \/ Open(t) \/ Refuse(t) \/ NoCase(t)
    BY <1>1, <1>2, <1>8, ProxyAssumption DEF Create, Open, Refuse, NoCase
  <1> QED
    BY <1>4, <1>5, <1>6, <1>7, <1>8 DEF Handler

\* A step of thread u leaves the local variables of every other thread alone.
LEMMA Frame ==
    ASSUME TypeOK, NEW u \in Threads,
           Dispatch(u) \/ Handler(u) \/ Log(u) \/ Reply(u),
           NEW t \in Threads, t # u
    PROVE  /\ pc'[t] = pc[t] /\ req'[t] = req[t] /\ errno'[t] = errno[t]
           /\ result'[t] = result[t] /\ failed'[t] = failed[t]
           /\ made'[t] = made[t] /\ rec'[t] = rec[t]
  <1>1. CASE Dispatch(u)
    BY <1>1 DEF Dispatch, TypeOK
  <1>2. CASE Log(u)
    BY <1>2 DEF Log, TypeOK
  <1>3. CASE Reply(u)
    BY <1>3 DEF Reply, TypeOK
  <1>4. CASE Handler(u)
    <2>1. made'[t] = made[t]
      BY <1>4 DEF Handler, Attribute, Descriptor, Remove, Rename, MakeNode,
         MakeLink, Lchown, Readlink, Create, Open, Count, Fallocate, Refuse,
         Deaf, NoCase, NoEffect, Bind, TypeOK
    <2>2. errno'[t] = errno[t] /\ result'[t] = result[t] /\ failed'[t] = failed[t]
      BY <1>4 DEF Handler, Attribute, Descriptor, Remove, Rename, MakeNode,
         MakeLink, Lchown, Readlink, Create, Open, Count, Fallocate, Refuse,
         Deaf, NoCase, Fail, Succeed, Return, GoToLchown, TypeOK
    <2> QED
      BY <1>4, <2>1, <2>2, HandlerControl DEF TypeOK
  <1> QED
    BY <1>1, <1>2, <1>3, <1>4

-----------------------------------------------------------------------------
(* The inductive invariant.  Each conjunct is preserved by a step of any     *)
(* thread u; for the other threads that is the frame lemma.                *)

\* Some thread's step, or a stutter.
LEMMA StepCases ==
    [Next]_vars => \/ UNCHANGED vars
                   \/ \E u \in Threads : Dispatch(u) \/ Handler(u) \/ Log(u) \/ Reply(u)
  BY DEF Next

\* No two requests in flight are incompatible: Dispatch lets none in.
LEMMA ExclusionStep ==
    ASSUME TypeOK, Exclusion, NEW u \in Threads,
           Dispatch(u) \/ Handler(u) \/ Log(u) \/ Reply(u)
    PROVE  Exclusion'
  <1>1. \A r, s : Compatible(r, s) <=> Compatible(s, r)
    BY DEF Compatible
  <1>2. \A t \in Threads : t # u => pc'[t] = pc[t] /\ req'[t] = req[t]
    BY Frame
  <1>3. CASE Dispatch(u)
    <2>1. \A t \in Threads : t # u /\ pc[t] # "idle" => Compatible(req'[u], req[t])
      BY <1>3 DEF Dispatch, Serialised, TypeOK
    <2> QED
      BY <1>1, <1>2, <2>1 DEF Exclusion, Compatible
  <1>4. CASE Handler(u) \/ Log(u)
    <2>1. req'[u] = req[u] /\ pc[u] # "idle"
      BY <1>4, HandlerControl DEF Log
    <2> QED
      BY <1>2, <2>1 DEF Exclusion, Compatible
  <1>5. CASE Reply(u)
    <2>1. pc'[u] = "idle"
      BY <1>5 DEF Reply, TypeOK
    <2> QED
      BY <1>2, <2>1 DEF Exclusion, Compatible
  <1> QED
    BY <1>3, <1>4, <1>5

\* The result of a finished request is its own outcome.
LEMMA OutcomeStep ==
    ASSUME TypeOK, OutcomeInv, NEW u \in Threads,
           Dispatch(u) \/ Handler(u) \/ Log(u) \/ Reply(u)
    PROVE  OutcomeInv'
  <1> DEFINE Good(t) == Finished(t) /\ req[t].op \notin DeafOps =>
                          /\ failed[t] # 0 => result[t] = -failed[t]
                          /\ failed[t] = 0 =>
                               /\ result[t] >= 0
                               /\ req[t].op \notin CountOps \cup {"readlink"}
                                    => result[t] = 0
  <1>1. ASSUME NEW t \in Threads, t # u PROVE Good(t)'
    BY <1>1, Frame DEF OutcomeInv, Finished
  <1>2. Good(u)'
    <2>1. CASE Dispatch(u) \/ Reply(u)
      BY <2>1 DEF Dispatch, Reply, Finished, TypeOK
    <2>2. CASE Log(u)
      BY <2>2 DEF Log, OutcomeInv, Finished, TypeOK
    <2>3. CASE Handler(u)
      BY <2>3, HandlerControl, HandlerOutcome DEF GoodOutcome, Finished, TypeOK
    <2> QED
      BY <2>1, <2>2, <2>3
  <1> QED
    BY <1>1, <1>2 DEF OutcomeInv

\* errno still holds the failure when Util::log is about to run.
LEMMA LogInvStep ==
    ASSUME TypeOK, LogInv, NEW u \in Threads,
           Dispatch(u) \/ Handler(u) \/ Log(u) \/ Reply(u)
    PROVE  LogInv'
  <1> DEFINE Good(t) == /\ pc[t] = "log" /\ result[t] < 0 /\ ~ RefusedByMode(t)
                             => errno[t] = -result[t]
                        /\ pc[t] # "reply" => rec[t] = NoRecord
  <1>1. ASSUME NEW t \in Threads, t # u PROVE Good(t)'
    BY <1>1, Frame DEF LogInv, RefusedByMode
  <1>2. Good(u)'
    <2>1. CASE Dispatch(u)
      BY <2>1 DEF Dispatch, LogInv, TypeOK
    <2>2. CASE Log(u) \/ Reply(u)
      BY <2>2 DEF Log, Reply, TypeOK
    <2>3. CASE Handler(u)
      BY <2>3, HandlerControl, HandlerOutcome
         DEF GoodOutcome, RefusedByMode, LogInv, TypeOK
    <2> QED
      BY <2>1, <2>2, <2>3
  <1> QED
    BY <1>1, <1>2 DEF LogInv

\* The line written for a failure shows the failure.
LEMMA ErrorLoggedStep ==
    ASSUME TypeOK, LogInv, ErrorLoggedAsFailure, NEW u \in Threads,
           Dispatch(u) \/ Handler(u) \/ Log(u) \/ Reply(u)
    PROVE  ErrorLoggedAsFailure'
  <1> DEFINE Good(t) == /\ Answered(t) /\ result[t] < 0 /\ ~ RefusedByMode(t)
                        /\ rec[t] # NoRecord
                        => rec[t].errno = -result[t] /\ rec[t].retname = "FAILURE"
  <1>1. ASSUME NEW t \in Threads, t # u PROVE Good(t)'
    BY <1>1, Frame DEF ErrorLoggedAsFailure, Answered, RefusedByMode
  <1>2. Good(u)'
    <2>1. CASE Dispatch(u) \/ Handler(u) \/ Reply(u)
      BY <2>1, HandlerControl DEF Dispatch, Reply, Answered, TypeOK
    <2>2. CASE Log(u)
      <3>1. rec'[u] = NoRecord \/ rec'[u] = LogLine(u)
        BY <2>2 DEF Log, LogInv, TypeOK
      <3>2. result'[u] = result[u] /\ req'[u] = req[u] /\ pc[u] = "log"
        BY <2>2 DEF Log
      <3>3. result[u] < 0 /\ ~ RefusedByMode(u) => errno[u] = -result[u] /\ errno[u] # 0
        BY <3>2 DEF LogInv, TypeOK
      <3> QED
        BY <3>1, <3>2, <3>3 DEF LogLine, RefusedByMode
    <2> QED
      BY <2>1, <2>2
  <1> QED
    BY <1>1, <1>2 DEF ErrorLoggedAsFailure

\* A handler that is no namespace operation leaves the directory alone, and an
\* owner changes only under the name the request touches.
LEMMA DirFrame ==
    ASSUME TypeOK, MakeInv, NEW u \in Threads, Handler(u),
           req[u].op \notin NamespaceOps
    PROVE  /\ dir' = dir
           /\ \/ owner' = owner
              \/ /\ req[u].path \in Touched(req[u]) /\ req[u].path \in Names
                 /\ owner' = [owner EXCEPT ![dir[req[u].path]] = req[u].owner]
  <1>1. CASE Attribute(u)
    <2>1. req[u].path \in Touched(req[u])
      BY <1>1 DEF Attribute, At, Touched, PathOps, FdOps
    <2>2. req[u].path \in Names
      BY <1>1, ServedRequest DEF Attribute, At, RequestSet
    <2> QED
      BY <1>1, <2>1, <2>2 DEF Attribute
  <1>2. CASE \/ Descriptor(u) \/ Readlink(u) \/ Open(u) \/ Count(u)
            \/ Fallocate(u) \/ Refuse(u) \/ Deaf(u) \/ NoCase(u)
    BY <1>2 DEF Descriptor, Readlink, Open, Count, Fallocate, Refuse, Deaf,
       NoCase, NoEffect
  <1>3. CASE Remove(u) \/ Rename(u) \/ MakeNode(u) \/ MakeLink(u) \/ Create(u)
    BY <1>3 DEF Remove, Rename, MakeNode, MakeLink, Create, At, NamespaceOps
  <1>4. CASE Lchown(u)
    BY <1>4 DEF Lchown, MakeInv, NamespaceOps
  <1> QED
    BY <1>1, <1>2, <1>3, <1>4 DEF Handler

\* What a make in flight has bound stays bound, unshared and owned, whoever
\* moves: the other requests in flight are compatible with it.
LEMMA MakeStep ==
    ASSUME TypeOK, Exclusion, MakeInv, NEW u \in Threads,
           Dispatch(u) \/ Handler(u) \/ Log(u) \/ Reply(u)
    PROVE  MakeInv'
  <1> DEFINE Busy(t) == /\ req[t].op \in MakeNewOps
                        /\ pc[t] = "lchown" \/ (Finished(t) /\ result[t] = 0)
             Held(t) == /\ made[t] \in Inodes
                        /\ dir[Target(req[t])] = made[t]
                        /\ \A n \in Names : n # Target(req[t]) => dir[n] # made[t]
                        /\ pc[t] # "lchown" => owner[made[t]] = req[t].uid
             Good(t) == /\ pc[t] = "lchown" => req[t].op \in MakeNewOps \cup {"link"}
                        /\ Busy(t) => Held(t)
  <1>1. ASSUME NEW t \in Threads, t # u PROVE Good(t)'
    <2>1. /\ pc'[t] = pc[t] /\ req'[t] = req[t] /\ result'[t] = result[t]
          /\ made'[t] = made[t]
      BY <1>1, Frame
    <2>2. (pc[t] = "lchown" => req[t].op \in MakeNewOps \cup {"link"})'
      BY <2>1 DEF MakeInv
    <2>3. ASSUME Busy(t) PROVE Held(t)'
      <3>1. Held(t)
        BY <2>3 DEF MakeInv
      <3>2. Target(req[t]) \in Touched(req[t]) /\ req[t].op \in NamespaceOps
        BY <2>3 DEF Target, Touched, MakeNewOps, NamespaceOps, FdOps
      <3>3. CASE Dispatch(u) \/ Log(u) \/ Reply(u)
        BY <2>1, <3>1, <3>3 DEF Dispatch, Log, Reply, Target
      <3>4. CASE Handler(u)
        <4>1. pc[u] # "idle" /\ pc[t] # "idle"
          BY <2>3, <3>4, HandlerControl DEF Finished
        <4>2. /\ req[u].op \notin NamespaceOps
              /\ Target(req[t]) \notin Touched(req[u])
          BY <1>1, <3>2, <4>1 DEF Exclusion, Compatible
        <4>3. dir' = dir
          BY <3>4, <4>2, DirFrame
        <4>4. owner'[made[t]] = owner[made[t]]
          <5>1. CASE owner' = owner
            BY <5>1
          <5>2. CASE /\ req[u].path \in Touched(req[u]) /\ req[u].path \in Names
                     /\ owner' = [owner EXCEPT ![dir[req[u].path]] = req[u].owner]
            <6>1. dir[req[u].path] # made[t]
              BY <3>1, <4>2, <5>2
            <6> QED
              BY <3>1, <5>2, <6>1 DEF TypeOK
          <5> QED
            BY <3>4, <4>2, <5>1, <5>2, DirFrame
        <4> QED
          BY <2>1, <3>1, <4>3, <4>4
      <3> QED
        BY <3>3, <3>4
    <2>4. Busy(t)' => Busy(t)
      BY <2>1 DEF Finished
    <2> QED
      BY <2>2, <2>3, <2>4
  <1>2. Good(u)'
    <2>1. CASE Dispatch(u) \/ Reply(u)
      BY <2>1 DEF Dispatch, Reply, Finished, TypeOK
    <2>2. CASE Log(u)
      BY <2>2 DEF Log, MakeInv, Finished, TypeOK
    <2>3. CASE MakeNode(u)
      <3>1. req'[u] = req[u] /\ req[u].op \in MakeNewOps /\ Target(req[u]) \in Names
        <4>1. pc[u] # "idle" /\ req[u].op \in MakeNewOps
          BY <2>3 DEF MakeNode, At
        <4> QED
          BY <2>3, <4>1, HandlerControl, ServedRequest
             DEF Handler, RequestSet, Target
      <3>2. ASSUME NEW i \in Inodes, Free(i), Bind(u, Target(req[u]), i), GoToLchown(u)
            PROVE  Good(u)'
        BY <3>1, <3>2 DEF Free, Bind, GoToLchown, TypeOK
      <3>3. ASSUME NEW e \in Errnos, Fail(u, e) PROVE Good(u)'
        <4>1. pc'[u] = "log" /\ result'[u] = -e
          BY <3>3 DEF Fail, Return, TypeOK
        <4>2. result'[u] # 0
          BY <4>1, ErrnoNat
        <4> QED
          BY <4>1, <4>2
      <3> QED
        BY <2>3, <3>2, <3>3 DEF MakeNode
    <2>4. CASE Lchown(u)
      <3>1. /\ req'[u] = req[u] /\ made' = made /\ dir' = dir /\ pc'[u] = "log"
            /\ pc[u] = "lchown"
        BY <2>4 DEF Lchown, Succeed, Fail, Return, TypeOK
      <3>2. CASE req[u].op \notin MakeNewOps
        BY <3>1, <3>2
      <3>3. ASSUME req[u].op \in MakeNewOps,
                   owner' = [owner EXCEPT ![dir[Target(req[u])]] = req[u].uid]
            PROVE  Good(u)'
        <4>1. Held(u)
          BY <3>1, <3>3 DEF MakeInv
        <4> QED
          BY <3>1, <3>3, <4>1 DEF TypeOK
      <3>4. ASSUME NEW e \in Errnos, Fail(u, e) PROVE Good(u)'
        <4>1. result'[u] = -e
          BY <3>4 DEF Fail, Return, TypeOK
        <4>2. result'[u] # 0
          BY <4>1, ErrnoNat
        <4> QED
          BY <3>1, <4>2
      <3> QED
        BY <2>4, <3>2, <3>3, <3>4 DEF Lchown
    <2>5. CASE MakeLink(u)
      <3>1. req'[u] = req[u] /\ req[u].op = "link"
        BY <2>5 DEF MakeLink, At, Fail, Return, GoToLchown
      <3> QED
        BY <3>1 DEF MakeNewOps
    <2>6. CASE Handler(u) /\ ~ MakeNode(u) /\ ~ MakeLink(u) /\ ~ Lchown(u)
      <3>1. req[u].op \notin MakeNewOps
        BY <2>6 DEF Handler, Attribute, Descriptor, Remove, Rename, Readlink,
           Create, Open, Count, Fallocate, Refuse, Deaf, NoCase, At, PathOps,
           FdOps, CountOps, OpenOps, MakeNewOps, RemoveOps, Unsupported, DeafOps
      <3>2. req'[u] = req[u] /\ (pc'[u] = "lchown" => req[u].op \in MakeNewOps \cup {"link"})
        BY <2>6, HandlerControl DEF TypeOK
      <3> QED
        BY <3>1, <3>2
    <2> QED
      BY <2>1, <2>2, <2>3, <2>4, <2>5, <2>6
  <1> QED
    BY <1>1, <1>2 DEF MakeInv

-----------------------------------------------------------------------------
(* The theorems.                                                           *)

LEMMA InitInv == Init => IInv
  <1> SUFFICES ASSUME Init PROVE IInv
    OBVIOUS
  <1>1. \A t \in Threads : pc[t] = "idle" /\ rec[t] = NoRecord
    BY DEF Init
  <1> QED
    BY <1>1, InitType DEF IInv, Exclusion, OutcomeInv, LogInv,
       ErrorLoggedAsFailure, MakeInv, Finished, Answered

LEMMA StepInv == IInv /\ [Next]_vars => IInv'
  <1> SUFFICES ASSUME IInv, [Next]_vars PROVE IInv'
    OBVIOUS
  <1>1. TypeOK'
    BY StepType DEF IInv
  <1>2. ASSUME NEW u \in Threads, Dispatch(u) \/ Handler(u) \/ Log(u) \/ Reply(u)
        PROVE  IInv'
    BY <1>1, <1>2, ExclusionStep, OutcomeStep, LogInvStep, ErrorLoggedStep, MakeStep
       DEF IInv
  <1>3. CASE UNCHANGED vars
    BY <1>1, <1>3 DEF vars, IInv, Exclusion, OutcomeInv, LogInv,
       ErrorLoggedAsFailure, MakeInv, Finished, Answered, RefusedByMode
  <1> QED
    BY <1>2, <1>3, StepCases

\* The invariant the three properties follow from holds in every reachable
\* state: requests in flight exclude one another where they must, and a finished
\* request carries its own outcome, its own errno and the inode it made.
THEOREM Invariance == Spec => []IInv
  BY InitInv, StepInv, PTL DEF Spec

\* The value proxy answers a request with is the outcome of that request's own
\* system calls, although every handler reads a per-thread errno that earlier
\* requests have written.
THEOREM ReplyCorrect == Spec => []ReplyIsOwnOutcome
  <1>1. IInv => ReplyIsOwnOutcome
    BY DEF IInv, OutcomeInv, ReplyIsOwnOutcome, Finished, Answered
  <1> QED
    BY <1>1, Invariance, PTL

\* A request answered with an error is never logged as a success, nor under
\* another error number.
THEOREM ErrorLogCorrect == Spec => []ErrorLoggedAsFailure
  <1>1. IInv => ErrorLoggedAsFailure
    BY DEF IInv
  <1> QED
    BY <1>1, Invariance, PTL

\* mknod, mkdir and symlink make and then lchown; a reply of 0 means that the
\* caller owns what the request made.
THEOREM OwnershipCorrect == Spec => []MadeOwnedByCaller
  <1>1. IInv => MadeOwnedByCaller
    BY ProxyAssumption
       DEF IInv, MakeInv, MadeOwnedByCaller, Finished, Answered
  <1> QED
    BY <1>1, Invariance, PTL

-----------------------------------------------------------------------------
(* The two system calls of a make.                                         *)

\* Another request in flight next to a make between its calls changes no name,
\* and touches none of the make's.
LEMMA MakeExcludes ==
    ASSUME IInv, NEW t \in Threads, NEW u \in Threads, t # u,
           pc[t] = "lchown", pc[u] # "idle"
    PROVE  /\ req[u].op \notin NamespaceOps
           /\ Target(req[t]) \in Touched(req[t])
           /\ Touched(req[t]) \cap Touched(req[u]) = {}
  <1>1. req[t].op \in MakeNewOps \cup {"link"}
    BY DEF IInv, MakeInv
  <1>2. req[t].op \in NamespaceOps /\ Target(req[t]) \in Touched(req[t])
    BY <1>1 DEF NamespaceOps, MakeNewOps, Target, Touched, FdOps
  <1>3. Compatible(req[t], req[u])
    BY DEF IInv, Exclusion
  <1> QED
    BY <1>2, <1>3 DEF Compatible

\* Nobody disturbs what a make has done by its first call.
LEMMA HalfStep ==
    ASSUME IInv, HalfInv, NEW u \in Threads,
           Dispatch(u) \/ Handler(u) \/ Log(u) \/ Reply(u)
    PROVE  HalfInv'
  <1> DEFINE Good(t) == pc[t] = "lchown" =>
                          /\ req[t].op \in MakeNewOps => owner[made[t]] = Daemon
                          /\ req[t].op = "link" =>
                               /\ req[t].path # req[t].to
                               /\ Bound(req[t].path)
                               /\ dir[req[t].to] = dir[req[t].path]
  <1>0. TypeOK /\ MakeInv
    BY DEF IInv
  <1>1. ASSUME NEW t \in Threads, t # u PROVE Good(t)'
    <2>1. pc'[t] = pc[t] /\ req'[t] = req[t] /\ made'[t] = made[t]
      BY <1>0, <1>1, Frame
    <2>2. SUFFICES ASSUME pc[t] = "lchown" PROVE Good(t)'
      BY <2>1
    <2>3. Good(t)
      BY DEF HalfInv
    <2>4. CASE Dispatch(u) \/ Log(u) \/ Reply(u)
      BY <2>1, <2>3, <2>4 DEF Dispatch, Log, Reply, Bound
    <2>5. CASE Handler(u)
      <3>1. pc[u] # "idle"
        BY <1>0, <2>5, HandlerControl
      <3>2. /\ req[u].op \notin NamespaceOps
            /\ Target(req[t]) \in Touched(req[t])
            /\ Touched(req[t]) \cap Touched(req[u]) = {}
        BY <1>1, <2>2, <3>1, MakeExcludes
      <3>3. dir' = dir
        BY <1>0, <2>5, <3>2, DirFrame
      <3>4. ASSUME req[t].op \in MakeNewOps PROVE owner'[made[t]] = owner[made[t]]
        <4>1. made[t] \in Inodes /\ dir[Target(req[t])] = made[t]
              /\ \A n \in Names : n # Target(req[t]) => dir[n] # made[t]
          BY <2>2, <3>4 DEF IInv, MakeInv
        <4>2. CASE owner' = owner
          BY <4>2
        <4>3. CASE /\ req[u].path \in Touched(req[u]) /\ req[u].path \in Names
                   /\ owner' = [owner EXCEPT ![dir[req[u].path]] = req[u].owner]
          <5>1. dir[req[u].path] # made[t]
            BY <3>2, <4>1, <4>3
          <5> QED
            BY <1>0, <4>1, <4>3, <5>1 DEF TypeOK
        <4> QED
          BY <1>0, <2>5, <3>2, <4>2, <4>3, DirFrame
      <3> QED
        BY <2>1, <2>3, <3>3, <3>4 DEF Bound
    <2> QED
      BY <2>4, <2>5
  <1>2. Good(u)'
    <2>1. SUFFICES ASSUME pc'[u] = "lchown" PROVE Good(u)'
      OBVIOUS
    <2>2. Handler(u)
      BY <1>0, <2>1 DEF Dispatch, Log, Reply, TypeOK
    <2>3. req' = req /\ req[u].op \in MakeNewOps \cup {"link"}
      BY <1>0, <2>1, <2>2, HandlerControl DEF TypeOK
    <2>4. pc[u] # "idle" /\ req[u] \in RequestSet
      BY <1>0, <2>2, HandlerControl, ServedRequest
    <2>5. CASE MakeNode(u)
      <3>1. PICK i \in Inodes : Bind(u, Target(req[u]), i)
        BY <1>0, <2>1, <2>5 DEF MakeNode, Fail, Return, TypeOK
      <3>2. req[u].op # "link"
        BY <2>5 DEF MakeNode, At, MakeNewOps
      <3> QED
        BY <1>0, <2>3, <3>1, <3>2 DEF Bind, TypeOK
    <2>6. CASE MakeLink(u)
      <3>1. /\ Bound(req[u].path) /\ ~ Bound(req[u].to)
            /\ dir' = [dir EXCEPT ![req[u].to] = dir[req[u].path]]
        BY <1>0, <2>1, <2>6 DEF MakeLink, Fail, Return, TypeOK
      <3>2. req[u].path \in Names /\ req[u].to \in Names
        BY <2>4 DEF RequestSet
      <3>3. req[u].op \notin MakeNewOps
        BY <2>6 DEF MakeLink, At, MakeNewOps
      <3> QED
        BY <1>0, <2>3, <3>1, <3>2, <3>3 DEF Bound, TypeOK
    <2>7. CASE ~ MakeNode(u) /\ ~ MakeLink(u)
      <3>1. Lchown(u)
        BY <2>2, <2>3, <2>7 DEF Handler, Attribute, Descriptor, Remove, Rename, Readlink,
           Create, Open, Count, Fallocate, Refuse, Deaf, NoCase, At, PathOps,
           FdOps, CountOps, OpenOps, MakeNewOps, RemoveOps, Unsupported, DeafOps
      <3> QED
        BY <1>0, <2>1, <3>1 DEF Lchown, Succeed, Fail, Return, TypeOK
    <2> QED
      BY <2>5, <2>6, <2>7
  <1> QED
    BY <1>1, <1>2 DEF HalfInv

\* Both hold in the first state.
LEMMA AtomicInit == Init => IInv /\ HalfInv
  BY InitInv DEF Init, HalfInv

\* Both are preserved by every step.
LEMMA AtomicStep == IInv /\ HalfInv /\ [Next]_vars => (IInv /\ HalfInv)'
  <1>1. IInv /\ HalfInv /\ UNCHANGED vars => HalfInv'
    BY DEF vars, HalfInv, Bound
  <1> QED
    BY <1>1, StepInv, HalfStep, StepCases

-----------------------------------------------------------------------------
(* What is seen.                                                           *)

\* A name that is not hidden is seen as it is.
LEMMA SeenName ==
    ASSUME NEW n \in Names, ~ Hidden(n)
    PROVE  Visible[n] = dir[n]
  BY DEF Visible

\* A name is seen as it is or not at all, and an inode that is seen with its
\* owner.
LEMMA SeenThings ==
    ASSUME TypeOK
    PROVE  /\ Visible \in [Names -> Inodes \cup {None}]
           /\ \A n \in Names : Visible[n] # None => Visible[n] = dir[n]
           /\ \A n \in Names : Visible[n] # None => Owners[Visible[n]] = owner[Visible[n]]
  <1>1. Visible \in [Names -> Inodes \cup {None}]
    BY DEF Visible, TypeOK
  <1>2. \A n \in Names : Visible[n] # None => Visible[n] = dir[n]
    BY DEF Visible
  <1>3. ASSUME NEW n \in Names, Visible[n] # None
        PROVE  Owners[Visible[n]] = owner[Visible[n]]
    <2>1. Visible[n] \in Inodes
      BY <1>1, <1>3
    <2> QED
      BY <2>1 DEF Owners
  <1> QED
    BY <1>1, <1>2, <1>3

\* The names another request in flight touches are not hidden.
LEMMA TouchedSeen ==
    ASSUME IInv, NEW u \in Threads, pc[u] = "call", NEW n \in Names,
           n \in Touched(req[u])
    PROVE  Visible[n] = dir[n]
  <1>1. ASSUME NEW t \in Threads, pc[t] = "lchown", Target(req[t]) = n PROVE FALSE
    BY <1>1, MakeExcludes
  <1> QED
    BY <1>1, SeenName DEF Hidden

\* While a request that changes names is about to, none is hidden.
LEMMA NamespaceSeen ==
    ASSUME IInv, NEW u \in Threads, pc[u] = "call", req[u].op \in NamespaceOps
    PROVE  Visible = dir
  <1>1. ASSUME NEW t \in Threads, pc[t] = "lchown" PROVE FALSE
    BY <1>1, MakeExcludes
  <1> QED
    BY <1>1 DEF Hidden, Visible, IInv, TypeOK

\* What a make in its second call has bound is all that is hidden.
LEMMA MakeHides ==
    ASSUME IInv, NEW u \in Threads, pc[u] = "lchown"
    PROVE  \A n \in Names : Visible[n] = IF n = Target(req[u]) THEN None ELSE dir[n]
  <1>1. ASSUME NEW t \in Threads, pc[t] = "lchown", t # u PROVE FALSE
    <2>1. req[t].op \notin NamespaceOps
      BY <1>1, MakeExcludes
    <2>2. req[t].op \in MakeNewOps \cup {"link"}
      BY <1>1 DEF IInv, MakeInv
    <2> QED
      BY <2>1, <2>2 DEF NamespaceOps
  <1> QED
    BY <1>1 DEF Hidden, Visible

\* Become, from the names and the owners of those that are seen afterwards.
LEMMA Becomes ==
    ASSUME NEW d, NEW o, Visible' = d,
           \A n \in Names : d[n] \in Inodes => owner'[d[n]] = o[d[n]]
    PROVE  Seen!Become(d, o)
  <1>1. Owners' = [i \in Inodes |-> IF \E n \in Names : d[n] = i THEN owner'[i] ELSE None]
    BY DEF Owners
  <1>2. Owners' = [i \in Inodes |-> IF \E n \in Names : d[n] = i THEN o[i] ELSE None]
    BY <1>1
  <1> QED
    BY <1>2 DEF Seen!Become

\* Nothing that is seen changes with the same names hidden.
LEMMA Keeps ==
    ASSUME dir' = dir, owner' = owner, \A n \in Names : Hidden(n)' = Hidden(n)
    PROVE  Seen!Keep
  <1>1. Visible' = Visible
    BY DEF Visible
  <1>2. Owners' = Owners
    BY <1>1 DEF Owners
  <1> QED
    BY <1>1, <1>2 DEF Seen!Keep

-----------------------------------------------------------------------------
(* The instant: a handler that returns is granted or denied.               *)

\* Returning makes the result the answer and hides nothing any more.
LEMMA Returned ==
    ASSUME IInv, NEW u \in Threads, Handler(u), pc'[u] = "log",
           Seen!Grant(req[u], result'[u]) \/ Seen!Deny(req[u], result'[u])
    PROVE  Seen!Effect(u)
  <1>0. TypeOK
    BY DEF IInv
  <1>1. pc[u] \in {"call", "lchown"} /\ req' = req
    BY <1>0, HandlerControl
  <1>2. req[u] # NoRequest
    BY <1>0, <1>1, NoRequestIsNone DEF TypeOK
  <1>3. Answers[u] = {}
    BY <1>1 DEF Answers
  <1>4. Answers' = [Answers EXCEPT ![u] = {result'[u]}]
    <2>1. \A t \in Threads : t # u => pc'[t] = pc[t] /\ result'[t] = result[t]
      BY <1>0, Frame
    <2> QED
      BY <2>1 DEF Answers
  <1>5. Answers'[u] = {result'[u]}
    BY <1>4 DEF Answers
  <1>6. req[u] # Seen!NoRequest
    BY <1>2 DEF NoRequest, Seen!NoRequest
  <1>7. req[u] # Seen!NoRequest /\ Answers[u] = {} /\ UNCHANGED req
    BY <1>1, <1>3, <1>6
  <1>8. CASE Seen!Grant(req[u], result'[u])
    <2>1. \E v \in Answers'[u] : Answers' = [Answers EXCEPT ![u] = {v}] /\ Seen!Grant(req[u], v)
      BY <1>4, <1>5, <1>8
    <2> QED
      BY <1>7, <2>1 DEF Seen!Effect
  <1>9. CASE Seen!Deny(req[u], result'[u])
    <2>1. \E v \in Answers'[u] : Answers' = [Answers EXCEPT ![u] = {v}] /\ Seen!Deny(req[u], v)
      BY <1>4, <1>5, <1>9
    <2> QED
      BY <1>7, <2>1 DEF Seen!Effect
  <1> QED
    BY <1>8, <1>9

\* From "call" to "log" the same names are hidden.
LEMMA SameHidden ==
    ASSUME TypeOK, NEW u \in Threads, Handler(u), pc[u] = "call", pc'[u] = "log",
           NEW n \in Names
    PROVE  Hidden(n)' = Hidden(n)
  <1>1. req' = req /\ pc' = [pc EXCEPT ![u] = "log"]
    BY HandlerControl DEF TypeOK
  <1> QED
    BY <1>1 DEF Hidden, TypeOK

\* With no effect, what is seen stays.
LEMMA NothingDone ==
    ASSUME TypeOK, NEW u \in Threads, Handler(u), pc[u] = "call", pc'[u] = "log",
           dir' = dir, owner' = owner
    PROVE  Seen!Keep
  BY SameHidden, Keeps

\* A handler that fails and has no effect is denied.
LEMMA Refused ==
    ASSUME TypeOK, NEW u \in Threads, Handler(u), pc[u] = "call",
           NEW e \in Nat \ {0}, Fail(u, e), dir' = dir, owner' = owner,
           req[u].op \notin DeafOps \cup {"lock"}
    PROVE  Seen!Deny(req[u], result'[u])
  <1>1. pc'[u] = "log" /\ result'[u] = -e
    BY DEF Fail, Return, TypeOK
  <1>2. Seen!Keep
    BY <1>1, NothingDone
  <1>3. result'[u] < 0
    BY <1>1
  <1> QED
    BY <1>2, <1>3 DEF Seen!Deny, Seen!DeafOps, DeafOps

\* When no name is hidden before and after, the step is seen as it is.
LEMMA NamespaceDone ==
    ASSUME IInv, NEW u \in Threads, Handler(u), pc[u] = "call", pc'[u] = "log",
           req[u].op \in NamespaceOps, dir' \in [Names -> Inodes \cup {None}]
    PROVE  Visible = dir /\ Visible' = dir'
  <1>0. TypeOK
    BY DEF IInv
  <1>1. Visible = dir
    BY NamespaceSeen
  <1>2. \A t \in Threads : pc[t] # "lchown"
    <2>1. ASSUME NEW t \in Threads, pc[t] = "lchown" PROVE FALSE
      BY <2>1, MakeExcludes
    <2> QED
      BY <2>1
  <1>3. \A t \in Threads : pc'[t] # "lchown"
    BY <1>0, <1>2, Frame
  <1> QED
    BY <1>1, <1>3 DEF Visible, Hidden

\* Both modules take the operations from Operations.
LEMMA SameOps ==
    /\ Seen!PathOps = PathOps /\ Seen!FdOps = FdOps /\ Seen!OpenOps = OpenOps
    /\ Seen!CountOps = CountOps /\ Seen!DeafOps = DeafOps
    /\ Seen!RemoveOps = RemoveOps /\ Seen!MakeNewOps = MakeNewOps
    /\ \A r : Seen!Target(r) = Target(r)
  BY DEF Seen!PathOps, PathOps, Seen!FdOps, FdOps, Seen!OpenOps, OpenOps,
     Seen!CountOps, CountOps, Seen!DeafOps, DeafOps, Seen!RemoveOps, RemoveOps,
     Seen!MakeNewOps, MakeNewOps, Seen!Target, Target

\* The handlers that change no name and no owner.
LEMMA QuietEffect ==
    ASSUME IInv, NEW u \in Threads, Handler(u),
           \/ Descriptor(u) \/ Open(u) \/ Count(u) \/ Readlink(u)
           \/ Fallocate(u) \/ Refuse(u) \/ Deaf(u) \/ NoCase(u)
    PROVE  Seen!Effect(u)
  <1>0. TypeOK /\ errno[u] \in Nat
    BY DEF IInv, TypeOK
  <1>1. pc[u] = "call" /\ pc'[u] = "log" /\ dir' = dir /\ owner' = owner
    BY <1>0 DEF Descriptor, Open, Count, Readlink, Fallocate, Refuse, Deaf, NoCase,
       At, NoEffect, Fail, Succeed, Return, TypeOK
  <1>2. Seen!Keep
    BY <1>0, <1>1, NothingDone
  <1>3. CASE /\ req[u].op \in FdOps \cup OpenOps \cup DeafOps \cup {"fallocate", "lock"}
             /\ result'[u] = 0
    BY <1>1, <1>2, <1>3, SameOps, Returned DEF Seen!Grant
  <1>4. CASE req[u].op \in CountOps \cup {"readlink"} /\ result'[u] >= 0
    BY <1>1, <1>2, <1>4, SameOps, Returned DEF Seen!Grant
  <1>5. CASE req[u].op \notin DeafOps \cup {"lock"} /\ result'[u] < 0
    BY <1>1, <1>2, <1>5, SameOps, Returned DEF Seen!Deny
  <1>6. ASSUME NEW e \in Errnos, Fail(u, e) PROVE result'[u] < 0
    BY <1>0, <1>6, ErrnoNat DEF Fail, Return, TypeOK
  <1>7. ASSUME NEW n \in Int, Succeed(u, n) PROVE result'[u] = n
    BY <1>0, <1>7 DEF Succeed, Return, TypeOK
  <1>8. CASE Descriptor(u)
    <2>1. req[u].op \in FdOps /\ req[u].op \notin DeafOps \cup {"lock"}
      BY <1>8 DEF Descriptor, At, FdOps, DeafOps
    <2> QED
      BY <1>0, <1>3, <1>5, <1>6, <1>7, <1>8, <2>1, ProductValue DEF Descriptor
  <1>9. CASE Open(u)
    <2>1. req[u].op \in OpenOps /\ req[u].op \notin DeafOps \cup {"lock"}
      BY <1>9 DEF Open, At, OpenOps, DeafOps
    <2> QED
      BY <1>3, <1>5, <1>6, <1>7, <1>9, <2>1 DEF Open
  <1>10. CASE Count(u)
    <2>1. req[u].op \in CountOps /\ req[u].op \notin DeafOps \cup {"lock"}
      BY <1>10 DEF Count, At, CountOps, DeafOps
    <2> QED
      BY <1>4, <1>5, <1>6, <1>7, <1>10, <2>1, ProxyAssumption DEF Count
  <1>11. CASE Readlink(u)
    <2>1. req[u].op = "readlink" /\ req[u].op \notin DeafOps \cup {"lock"}
      BY <1>11 DEF Readlink, At, DeafOps
    <2>2. ASSUME NEW len \in 1 .. MaxLen, Succeed(u, Product(u, len))
          PROVE  result'[u] >= 0
      <3>1. Product(u, len) \in Int /\ Product(u, len) >= 0
        BY <1>0, ProxyAssumption, ProductValue
      <3> QED
        BY <1>7, <2>2, <3>1
    <2> QED
      BY <1>4, <1>5, <1>6, <1>11, <2>1, <2>2 DEF Readlink
  <1>12. CASE Fallocate(u)
    <2>1. req[u].op = "fallocate" /\ req[u].op \notin DeafOps \cup {"lock"}
      BY <1>12 DEF Fallocate, At, DeafOps
    <2>2. Return(u, -EOPNOTSUPP, EOPNOTSUPP) => result'[u] < 0
      BY <1>0, ProxyAssumption, ErrnoNat DEF Return, TypeOK
    <2>3. ASSUME Fail(u, 0) PROVE result'[u] = 0
      <3>1. failed'[u] = 0
        BY <1>0, <2>3 DEF Fail, Return, TypeOK
      <3> QED
        BY <1>0, <1>1, <2>1, <3>1, HandlerOutcome DEF GoodOutcome, CountOps
    <2> QED
      BY <1>3, <1>5, <1>6, <1>12, <2>1, <2>2, <2>3 DEF Fallocate
  <1>13. CASE Refuse(u)
    <2>1. req[u].op \notin DeafOps \cup {"lock"}
      BY <1>13 DEF Refuse, At, Unsupported, DeafOps
    <2> QED
      BY <1>5, <1>6, <1>13, <2>1, ProxyAssumption DEF Refuse
  <1>14. CASE Deaf(u) \/ NoCase(u)
    <2>1. req[u].op \in DeafOps \cup {"lock"}
      BY <1>14 DEF Deaf, NoCase, At
    <2>2. result'[u] = 0
      BY <1>0, <1>7, <1>14 DEF Deaf, NoCase, Return, TypeOK
    <2> QED
      BY <1>3, <2>1, <2>2
  <1> QED
    BY <1>8, <1>9, <1>10, <1>11, <1>12, <1>13, <1>14

\* What a call on a path does to what is seen.
LEMMA AttributeEffect ==
    ASSUME IInv, NEW u \in Threads, Attribute(u)
    PROVE  Seen!Effect(u)
  <1> DEFINE path == req[u].path
  <1>0. TypeOK /\ Handler(u)
    BY DEF IInv, Handler
  <1>1. /\ pc[u] = "call" /\ pc'[u] = "log" /\ dir' = dir
        /\ req[u].op \in PathOps /\ req[u].op \notin DeafOps \cup {"lock"}
    BY <1>0 DEF Attribute, At, Fail, Succeed, Return, TypeOK, PathOps, DeafOps
  <1>2. path \in Names /\ path \in Touched(req[u])
    BY <1>0, <1>1, ServedRequest DEF RequestSet, Touched, PathOps, FdOps
  <1>3. Visible[path] = dir[path]
    BY <1>1, <1>2, TouchedSeen
  <1>4. CASE \E e \in Errnos : Fail(u, e) /\ owner' = owner
    BY <1>0, <1>1, <1>4, Refused, Returned, ProxyAssumption
  <1>5. CASE /\ Bound(path) /\ Succeed(u, Product(u, 0))
             /\ req[u].op # "chown" /\ owner' = owner
    <2>1. result'[u] = 0
      BY <1>0, <1>5, ProductValue DEF Succeed, Return, TypeOK
    <2>2. Seen!Keep /\ Seen!Bound(path)
      BY <1>0, <1>1, <1>3, <1>5, NothingDone DEF Seen!Bound, Bound
    <2>3. Seen!Grant(req[u], result'[u])
      BY <1>1, <1>5, <2>1, <2>2, SameOps DEF Seen!Grant
    <2> QED
      BY <1>0, <1>1, <2>3, Returned
  <1>6. CASE /\ Bound(path) /\ Succeed(u, Product(u, 0)) /\ req[u].op = "chown"
             /\ owner' = [owner EXCEPT ![dir[path]] = req[u].owner]
    <2> DEFINE o == [Owners EXCEPT ![Visible[path]] = req[u].owner]
    <2>1. result'[u] = 0
      BY <1>0, <1>6, ProductValue DEF Succeed, Return, TypeOK
    <2>2. Visible' = Visible
      BY <1>0, <1>1, SameHidden DEF Visible
    <2>3. ASSUME NEW n \in Names, Visible[n] \in Inodes
          PROVE  owner'[Visible[n]] = o[Visible[n]]
      <3>1. Owners[Visible[n]] = owner[Visible[n]]
        BY <1>0, <2>3, SeenThings, ProxyAssumption
      <3>2. Visible[n] \in DOMAIN Owners /\ Visible[n] \in DOMAIN owner
        BY <1>0, <2>3 DEF Owners, TypeOK
      <3> QED
        BY <1>3, <1>6, <3>1, <3>2
    <2>4. Seen!Become(Visible, o)
      BY <2>2, <2>3, Becomes
    <2>5. Seen!Bound(path)
      BY <1>3, <1>6 DEF Seen!Bound, Bound
    <2>6. Seen!Grant(req[u], result'[u])
      BY <1>6, <2>1, <2>4, <2>5 DEF Seen!Grant
    <2> QED
      BY <1>0, <1>1, <2>6, Returned
  <1> QED
    BY <1>4, <1>5, <1>6 DEF Attribute

\* The two handlers that remove or rename an entry.
LEMMA EntryEffect ==
    ASSUME IInv, NEW u \in Threads, Remove(u) \/ Rename(u)
    PROVE  Seen!Effect(u)
  <1> DEFINE path == req[u].path
             to == req[u].to
             Done(d) == /\ Bound(path) /\ Succeed(u, Product(u, 0))
                        /\ owner' = owner /\ dir' = d
  <1>0. TypeOK /\ Handler(u)
    BY DEF IInv, Handler
  <1>1. /\ pc[u] = "call" /\ pc'[u] = "log" /\ owner' = owner
        /\ req[u].op \in RemoveOps \cup {"rename"}
        /\ req[u].op \notin DeafOps \cup {"lock"} /\ req[u].op \in NamespaceOps
    BY <1>0 DEF Remove, Rename, At, Fail, Succeed, Return, TypeOK, RemoveOps, DeafOps,
       NamespaceOps
  <1>2. path \in Names /\ to \in Names
    BY <1>0, <1>1, ServedRequest DEF RequestSet
  <1>3. dir' \in [Names -> Inodes \cup {None}]
    BY <1>0, HandlerType DEF TypeOK
  <1>4. Visible = dir /\ Visible' = dir'
    BY <1>0, <1>1, <1>3, NamespaceDone
  <1>5. ASSUME NEW n \in Names, dir'[n] \in Inodes, NEW m \in Names, dir[m] = dir'[n]
        PROVE  owner'[dir'[n]] = Owners[dir'[n]]
    BY <1>0, <1>1, <1>4, <1>5, SeenThings, ProxyAssumption
  <1>6. CASE \E e \in Errnos : Fail(u, e) /\ dir' = dir
    BY <1>0, <1>1, <1>6, Refused, Returned, ProxyAssumption
  <1>7. ASSUME Succeed(u, Product(u, 0)), Bound(path)
        PROVE  result'[u] = 0 /\ Seen!Bound(path)
    BY <1>0, <1>4, <1>7, ProductValue DEF Succeed, Return, TypeOK, Seen!Bound, Bound
  <1>8. CASE /\ req[u].op \in RemoveOps /\ Done([dir EXCEPT ![path] = None])
    <2>1. \A n \in Names : dir'[n] \in Inodes => \E m \in Names : dir[m] = dir'[n]
      BY <1>0, <1>2, <1>8, ProxyAssumption DEF TypeOK
    <2>2. \A n \in Names : dir'[n] \in Inodes => owner'[dir'[n]] = Owners[dir'[n]]
      BY <1>5, <2>1
    <2> DEFINE d == [Visible EXCEPT ![path] = None]
    <2>3. Visible' = d /\ d = dir'
      BY <1>4, <1>8
    <2> HIDE DEF d
    <2>4. Seen!Become(d, Owners)
      BY <2>2, <2>3, Becomes
    <2>5. Seen!Grant(req[u], result'[u])
      BY <1>7, <1>8, <2>4, SameOps DEF Seen!Grant, d
    <2> QED
      BY <1>0, <1>1, <2>5, Returned
  <1>9. CASE req[u].op = "rename" /\ dir[path] = dir[to] /\ Done(dir)
    <2>1. Seen!Keep
      BY <1>0, <1>1, <1>9, NothingDone
    <2>2. Seen!Grant(req[u], result'[u])
      BY <1>4, <1>7, <1>9, <2>1 DEF Seen!Grant
    <2> QED
      BY <1>0, <1>1, <2>2, Returned
  <1>10. CASE /\ req[u].op = "rename" /\ dir[path] # dir[to]
              /\ Done([dir EXCEPT ![to] = dir[path], ![path] = None])
    <2>1. \A n \in Names : dir'[n] \in Inodes => \E m \in Names : dir[m] = dir'[n]
      BY <1>0, <1>2, <1>10, ProxyAssumption DEF TypeOK
    <2>2. \A n \in Names : dir'[n] \in Inodes => owner'[dir'[n]] = Owners[dir'[n]]
      BY <1>5, <2>1
    <2> DEFINE d == [Visible EXCEPT ![to] = Visible[path], ![path] = None]
    <2>3. Visible' = d /\ d = dir'
      BY <1>4, <1>10
    <2> HIDE DEF d
    <2>4. Seen!Become(d, Owners)
      BY <2>2, <2>3, Becomes
    <2>5. Seen!Grant(req[u], result'[u])
      BY <1>4, <1>7, <1>10, <2>4 DEF Seen!Grant, d
    <2> QED
      BY <1>0, <1>1, <2>5, Returned
  <1> QED
    BY <1>1, <1>6, <1>8, <1>9, <1>10 DEF Remove, Rename, At

\* An object that is made and answered for in one step is seen as the daemon's.
LEMMA MadeAtOnce ==
    ASSUME IInv, NEW u \in Threads, Handler(u), pc[u] = "call", pc'[u] = "log",
           req[u].op \in NamespaceOps, NEW n \in Names, ~ Bound(n),
           NEW i \in Inodes, Free(i), Bind(u, n, i)
    PROVE  Seen!Make(n, Daemon)
  <1> DEFINE d == [Visible EXCEPT ![n] = i]
             o == [Owners EXCEPT ![i] = Daemon]
  <1>0. TypeOK /\ dir' \in [Names -> Inodes \cup {None}]
    BY HandlerType DEF IInv, TypeOK
  <1>1. Visible = dir /\ Visible' = dir'
    BY <1>0, NamespaceDone
  <1>2. Visible' = d /\ ~ Seen!Bound(n) /\ Seen!Free(i)
    BY <1>1 DEF Bind, Seen!Bound, Bound, Seen!Free, Free
  <1>3. ASSUME NEW m \in Names, d[m] \in Inodes PROVE owner'[d[m]] = o[d[m]]
    <2>1. DOMAIN Owners = Inodes /\ DOMAIN owner = Inodes
      BY <1>0 DEF Owners, TypeOK
    <2>2. CASE d[m] = i
      BY <2>1, <2>2 DEF Bind
    <2>3. CASE d[m] # i
      <3>1. d[m] = Visible[m]
        BY <1>0, <1>1, <2>3 DEF TypeOK
      <3>2. Owners[Visible[m]] = owner[Visible[m]]
        BY <1>0, <1>3, <3>1, SeenThings, ProxyAssumption
      <3> QED
        BY <1>3, <2>1, <2>3, <3>1, <3>2 DEF Bind
    <2> QED
      BY <2>2, <2>3
  <1> HIDE DEF d, o
  <1>4. Seen!Become(d, o)
    BY <1>2, <1>3, Becomes
  <1> QED
    BY <1>2, <1>4 DEF Seen!Make, d, o

\* What the second call of a make leaves to be seen: everything.
LEMMA AfterLchown ==
    ASSUME IInv, NEW u \in Threads, Lchown(u)
    PROVE  /\ pc[u] = "lchown" /\ pc'[u] = "log" /\ dir' = dir
           /\ Handler(u) /\ req[u].op \in MakeNewOps \cup {"link"}
           /\ Target(req[u]) \in Names
           /\ Visible' = dir
  <1>0. TypeOK
    BY DEF IInv
  <1>1. pc[u] = "lchown" /\ pc'[u] = "log" /\ dir' = dir /\ Handler(u)
    BY <1>0 DEF Lchown, Fail, Succeed, Return, TypeOK, Handler
  <1>2. req[u].op \in MakeNewOps \cup {"link"}
    BY <1>1 DEF IInv, MakeInv
  <1>3. Target(req[u]) \in Names
    BY <1>0, <1>1, ServedRequest DEF RequestSet, Target
  <1>4. ASSUME NEW t \in Threads, t # u, pc[t] = "lchown" PROVE FALSE
    <2>1. req[t].op \notin NamespaceOps
      BY <1>1, <1>4, MakeExcludes
    <2>2. req[t].op \in MakeNewOps \cup {"link"}
      BY <1>4 DEF IInv, MakeInv
    <2> QED
      BY <2>1, <2>2 DEF NamespaceOps
  <1>5. \A t \in Threads : pc'[t] # "lchown"
    BY <1>0, <1>1, <1>4, Frame
  <1>6. Visible' = [n \in Names |-> dir[n]]
    BY <1>1, <1>5 DEF Visible, Hidden
  <1> QED
    BY <1>0, <1>1, <1>2, <1>3, <1>6 DEF TypeOK

\* After the second call a new object is seen with the owner it has then.
LEMMA MadeInTwo ==
    ASSUME IInv, NEW u \in Threads, Lchown(u), req[u].op \in MakeNewOps,
           owner' = owner \/ owner' = [owner EXCEPT ![made[u]] = req[u].uid],
           NEW uid, owner'[made[u]] = uid
    PROVE  Seen!Make(Target(req[u]), uid)
  <1> DEFINE n == Target(req[u])
             i == made[u]
             d == [Visible EXCEPT ![n] = i]
             o == [Owners EXCEPT ![i] = uid]
  <1>0. TypeOK
    BY DEF IInv
  <1>1. /\ pc[u] = "lchown" /\ n \in Names /\ Visible' = dir
    BY AfterLchown
  <1>2. \A m \in Names : Visible[m] = IF m = n THEN None ELSE dir[m]
    BY <1>1, MakeHides
  <1>3. i \in Inodes /\ dir[n] = i /\ \A m \in Names : m # n => dir[m] # i
    BY <1>1 DEF IInv, MakeInv
  <1>4. ~ Seen!Bound(n) /\ Seen!Free(i)
    BY <1>1, <1>2, <1>3, ProxyAssumption DEF Seen!Bound, Seen!Free
  <1>5. Visible' = d
    <2>1. Visible \in [Names -> Inodes \cup {None}] /\ dir \in [Names -> Inodes \cup {None}]
      BY <1>0, SeenThings DEF TypeOK
    <2> QED
      BY <1>1, <1>2, <1>3, <2>1
  <1>6. ASSUME NEW m \in Names, d[m] \in Inodes PROVE owner'[d[m]] = o[d[m]]
    <2>1. DOMAIN Owners = Inodes /\ DOMAIN owner = Inodes
      BY <1>0 DEF Owners, TypeOK
    <2>2. CASE m = n
      <3>1. d[m] = i
        BY <1>1, <1>3, <1>5, <2>2
      <3> QED
        BY <1>3, <2>1, <3>1
    <2>3. CASE m # n
      <3>1. d[m] = Visible[m] /\ d[m] # i
        BY <1>1, <1>2, <1>3, <1>5, <2>3
      <3>2. Owners[Visible[m]] = owner[Visible[m]]
        BY <1>0, <1>6, <3>1, SeenThings, ProxyAssumption
      <3> QED
        BY <1>6, <2>1, <3>1, <3>2
    <2> QED
      BY <2>2, <2>3
  <1>7. i \in Inodes
    BY <1>3
  <1> HIDE DEF d, o
  <1>8. Seen!Become(d, o)
    BY <1>5, <1>6, Becomes
  <1> QED
    BY <1>4, <1>7, <1>8 DEF Seen!Make, d, o

\* After the second call the new name is seen, with the owner the inode has then.
LEMMA LinkedInTwo ==
    ASSUME IInv, HalfInv, NEW u \in Threads, Lchown(u), req[u].op = "link",
           \/ owner' = owner
           \/ owner' = [owner EXCEPT ![dir[Target(req[u])]] = req[u].uid],
           NEW uid, owner'[dir[req[u].path]] = uid
    PROVE  Seen!LinkTo(req[u], uid)
  <1> DEFINE path == req[u].path
             to == req[u].to
             d == [Visible EXCEPT ![to] = Visible[path]]
             o == [Owners EXCEPT ![Visible[path]] = uid]
  <1>0. TypeOK /\ Target(req[u]) = to
    BY DEF IInv, Target
  <1>1. /\ pc[u] = "lchown" /\ to \in Names /\ Visible' = dir /\ path \in Names
    BY <1>0, AfterLchown, ServedRequest DEF RequestSet
  <1>2. \A m \in Names : Visible[m] = IF m = to THEN None ELSE dir[m]
    BY <1>0, <1>1, MakeHides
  <1>3. path # to /\ dir[path] # None /\ dir[to] = dir[path]
    BY <1>1 DEF HalfInv, Bound
  <1>4. ~ Seen!Bound(to) /\ Seen!Bound(path) /\ Visible[path] = dir[path]
    BY <1>1, <1>2, <1>3 DEF Seen!Bound
  <1>5. Visible' = d
    <2>1. Visible \in [Names -> Inodes \cup {None}] /\ dir \in [Names -> Inodes \cup {None}]
      BY <1>0, SeenThings DEF TypeOK
    <2> QED
      BY <1>1, <1>2, <1>3, <1>4, <2>1
  <1>6. ASSUME NEW m \in Names, d[m] \in Inodes PROVE owner'[d[m]] = o[d[m]]
    <2>1. DOMAIN Owners = Inodes /\ DOMAIN owner = Inodes
      BY <1>0 DEF Owners, TypeOK
    <2>2. d[m] = dir[m]
      BY <1>1, <1>5
    <2>3. CASE dir[m] = dir[path]
      BY <1>4, <1>6, <2>1, <2>2, <2>3
    <2>4. CASE dir[m] # dir[path]
      <3>1. Visible[m] = dir[m]
        BY <1>2, <1>3, <2>4
      <3>2. Owners[dir[m]] = owner[dir[m]]
        BY <1>0, <1>6, <2>2, <3>1, SeenThings, ProxyAssumption
      <3>3. owner'[dir[m]] = owner[dir[m]]
        BY <1>0, <1>3, <1>6, <2>1, <2>2, <2>4
      <3> QED
        BY <1>4, <2>2, <2>4, <3>2, <3>3
    <2> QED
      BY <2>3, <2>4
  <1> HIDE DEF d, o
  <1>7. Seen!Become(d, o)
    BY <1>5, <1>6, Becomes
  <1> QED
    BY <1>4, <1>7 DEF Seen!LinkTo, d, o

\* What the handlers do in one call that make a name, or fail to.
LEMMA MakeEffect ==
    ASSUME IInv, NEW u \in Threads, MakeNode(u) \/ MakeLink(u) \/ Create(u),
           pc'[u] = "log"
    PROVE  Seen!Effect(u)
  <1>0. TypeOK /\ Handler(u)
    BY DEF IInv, Handler
  <1>1. /\ pc[u] = "call" /\ req[u].op \in NamespaceOps
        /\ req[u].op \in MakeNewOps \cup {"link", "create"}
        /\ req[u].op \notin DeafOps \cup {"lock"}
    BY DEF MakeNode, MakeLink, Create, At, NamespaceOps, MakeNewOps, DeafOps
  <1>2. Target(req[u]) \in Names /\ req[u].path \in Names
    BY <1>0, <1>1, ServedRequest DEF RequestSet, Target
  <1>3. CASE \E e \in Errnos : Fail(u, e) /\ dir' = dir /\ owner' = owner
    BY <1>0, <1>1, <1>3, Refused, Returned, ProxyAssumption
  <1>4. CASE /\ MakeNode(u) /\ ~ Bound(Target(req[u]))
             /\ \E i \in Inodes : Free(i) /\ Bind(u, Target(req[u]), i)
             /\ \E e \in Errnos : Fail(u, e)
    <2>1. Seen!Make(Target(req[u]), Daemon)
      BY <1>0, <1>1, <1>2, <1>4, MadeAtOnce
    <2>2. req[u].op \in MakeNewOps /\ result'[u] < 0
      BY <1>0, <1>4, ErrnoNat, ProxyAssumption DEF MakeNode, At, Fail, Return, TypeOK
    <2>3. Seen!Deny(req[u], result'[u])
      BY <1>1, <2>1, <2>2, SameOps DEF Seen!Deny
    <2> QED
      BY <1>0, <2>3, Returned
  <1>5. CASE /\ Create(u) /\ Succeed(u, 0)
             /\ \/ Bound(req[u].path) /\ NoEffect
                \/ /\ ~ Bound(req[u].path)
                   /\ \E i \in Inodes : Free(i) /\ Bind(u, req[u].path, i)
    <2>1. req[u].op = "create" /\ result'[u] = 0
      BY <1>0, <1>5 DEF Create, At, Succeed, Return, TypeOK
    <2>2. CASE Bound(req[u].path) /\ NoEffect
      <3>1. Visible = dir
        BY <1>1, NamespaceSeen
      <3>2. Seen!Bound(req[u].path) /\ Seen!Keep
        BY <1>0, <1>1, <2>2, <3>1, NothingDone DEF NoEffect, Seen!Bound, Bound
      <3>3. Seen!Grant(req[u], result'[u])
        BY <2>1, <3>2 DEF Seen!Grant
      <3> QED
        BY <1>0, <3>3, Returned
    <2>3. CASE /\ ~ Bound(req[u].path)
               /\ \E i \in Inodes : Free(i) /\ Bind(u, req[u].path, i)
      <3>1. Seen!Make(req[u].path, Daemon)
        BY <1>0, <1>1, <1>2, <2>3, MadeAtOnce
      <3>2. Seen!Grant(req[u], result'[u])
        BY <2>1, <3>1 DEF Seen!Grant
      <3> QED
        BY <1>0, <3>2, Returned
    <2> QED
      BY <1>5, <2>2, <2>3
  <1>6. ~ GoToLchown(u)
    BY <1>0 DEF GoToLchown, TypeOK
  <1> QED
    BY <1>3, <1>4, <1>5, <1>6 DEF MakeNode, MakeLink, Create, NoEffect

\* The second call of a make, done or failed, settles what is seen.
LEMMA LchownEffect ==
    ASSUME IInv, HalfInv, NEW u \in Threads, Lchown(u)
    PROVE  Seen!Effect(u)
  <1> DEFINE n == Target(req[u])
  <1>0. TypeOK /\ Handler(u) /\ pc[u] = "lchown" /\ pc'[u] = "log" /\ n \in Names
    BY AfterLchown DEF IInv
  <1>1. req[u].op \in MakeNewOps \cup {"link"} /\ req[u].op \notin DeafOps \cup {"lock"}
    BY AfterLchown DEF MakeNewOps, DeafOps
  <1>2. req[u].op \in MakeNewOps => made[u] \in Inodes /\ dir[n] = made[u]
    BY <1>0 DEF IInv, MakeInv
  <1>3. req[u].op = "link" => /\ dir[n] = dir[req[u].path] /\ n = req[u].to
                              /\ req[u].path # n /\ Bound(req[u].path)
    BY <1>0 DEF HalfInv, Target
  <1>4. req[u].path \in Names
    BY <1>0, ServedRequest DEF RequestSet
  <1>5. dir[n] \in Inodes
    BY <1>0, <1>1, <1>2, <1>3, <1>4 DEF Bound, TypeOK
  <1>6. CASE /\ Succeed(u, Product(u, 0))
             /\ owner' = [owner EXCEPT ![dir[n]] = req[u].uid]
    <2>1. result'[u] = 0 /\ owner'[dir[n]] = req[u].uid
      BY <1>0, <1>5, <1>6, ProductValue DEF Succeed, Return, TypeOK
    <2>2. CASE req[u].op \in MakeNewOps
      <3>1. Seen!Make(n, req[u].uid)
        BY <1>2, <1>6, <2>1, <2>2, MadeInTwo
      <3>2. Seen!Grant(req[u], result'[u])
        BY <2>1, <2>2, <3>1, SameOps DEF Seen!Grant
      <3> QED
        BY <1>0, <3>2, Returned
    <2>3. CASE req[u].op = "link"
      <3>1. Seen!LinkTo(req[u], req[u].uid)
        BY <1>3, <1>6, <2>1, <2>3, LinkedInTwo
      <3>2. Seen!Grant(req[u], result'[u])
        BY <2>1, <2>3, <3>1 DEF Seen!Grant
      <3> QED
        BY <1>0, <3>2, Returned
    <2> QED
      BY <1>1, <2>2, <2>3
  <1>7. CASE (\E e \in Errnos : Fail(u, e)) /\ owner' = owner
    <2>1. result'[u] < 0
      BY <1>0, <1>7, ErrnoNat, ProxyAssumption DEF Fail, Return, TypeOK
    <2>2. CASE req[u].op \in MakeNewOps
      <3>1. owner'[made[u]] = Daemon
        BY <1>0, <1>7, <2>2 DEF HalfInv
      <3>2. Seen!Make(n, Daemon)
        BY <1>7, <2>2, <3>1, MadeInTwo
      <3>3. Seen!Deny(req[u], result'[u])
        BY <1>1, <2>1, <2>2, <3>2, SameOps DEF Seen!Deny
      <3> QED
        BY <1>0, <3>3, Returned
    <2>3. CASE req[u].op = "link"
      <3>1. Visible[req[u].path] = dir[req[u].path]
        BY <1>0, <1>3, <1>4, <2>3, MakeHides
      <3>2. dir[req[u].path] \in Inodes
        BY <1>3, <1>5, <2>3
      <3>3. Owners[Visible[req[u].path]] = owner[dir[req[u].path]]
        BY <1>0, <1>4, <3>1, <3>2, SeenThings, ProxyAssumption
      <3>4. Seen!LinkTo(req[u], Owners[Visible[req[u].path]])
        BY <1>7, <2>3, <3>3, LinkedInTwo
      <3>5. Seen!Deny(req[u], result'[u])
        BY <1>1, <2>1, <2>3, <3>4, SameOps DEF Seen!Deny
      <3> QED
        BY <1>0, <3>5, Returned
    <2> QED
      BY <1>1, <2>2, <2>3
  <1> QED
    BY <1>6, <1>7 DEF Lchown

\* A handler that returns has taken effect.
LEMMA HandlerEffect ==
    ASSUME IInv, HalfInv, NEW u \in Threads, Handler(u), pc'[u] = "log"
    PROVE  Seen!Effect(u)
  BY QuietEffect, AttributeEffect, EntryEffect, MakeEffect, LchownEffect DEF Handler

-----------------------------------------------------------------------------
(* The other steps, and the theorem.                                       *)

\* The first call of a make hides what it makes: nothing is seen to happen.
LEMMA HalfStutters ==
    ASSUME IInv, NEW u \in Threads, Handler(u), pc'[u] = "lchown"
    PROVE  UNCHANGED Seen!vars
  <1> DEFINE n == Target(req[u])
  <1>0. TypeOK /\ TypeOK'
    BY HandlerType DEF IInv
  <1>1. /\ req' = req /\ pc' = [pc EXCEPT ![u] = "lchown"]
        /\ req[u].op \in MakeNewOps \cup {"link"}
    BY <1>0, HandlerControl DEF TypeOK
  <1>2. MakeNode(u) \/ MakeLink(u)
    BY <1>0, <1>1 DEF Handler, Attribute, Descriptor, Remove, Rename, Lchown, Readlink,
       Create, Open, Count, Fallocate, Refuse, Deaf, NoCase, Fail, Succeed, Return, TypeOK
  <1>3. pc[u] = "call" /\ req[u].op \in NamespaceOps
    BY <1>1, <1>2 DEF MakeNode, MakeLink, At, NamespaceOps
  <1>4. n \in Names /\ req[u].path \in Names /\ (req[u].op = "link" => n = req[u].to)
    BY <1>0, <1>3, ServedRequest DEF RequestSet, Target
  <1>5. Visible = dir
    BY <1>3, NamespaceSeen
  <1>6. /\ dir[n] = None
        /\ \A m \in Names : m # n => dir'[m] = dir[m]
        /\ \A m \in Names : dir[m] # None => owner'[dir[m]] = owner[dir[m]]
    <2>2. CASE MakeNode(u)
      <3>1. PICK i \in Inodes : Free(i) /\ Bind(u, n, i) /\ ~ Bound(n)
        BY <1>0, <1>1, <2>2 DEF MakeNode, Fail, Return, TypeOK
      <3>2. dir[n] = None
        BY <3>1 DEF Bound
      <3>3. \A m \in Names : m # n => dir'[m] = dir[m]
        BY <1>0, <3>1 DEF Bind, TypeOK
      <3>4. \A m \in Names : dir[m] # None => owner'[dir[m]] = owner[dir[m]]
        BY <1>0, <3>1 DEF Bind, Free, TypeOK
      <3> QED
        BY <3>2, <3>3, <3>4
    <2>3. CASE MakeLink(u)
      <3>1. /\ ~ Bound(req[u].to) /\ owner' = owner
            /\ dir' = [dir EXCEPT ![req[u].to] = dir[req[u].path]]
            /\ n = req[u].to
        BY <1>0, <1>1, <1>4, <2>3 DEF MakeLink, At, Fail, Return, TypeOK
      <3> QED
        BY <1>0, <3>1 DEF Bound, TypeOK
    <2> QED
      BY <1>2, <2>2, <2>3
  <1>7. \A m \in Names : Hidden(m)' <=> m = n
    <2>1. \A t \in Threads : t # u => pc[t] # "lchown"
      <3>1. ASSUME NEW t \in Threads, t # u, pc[t] = "lchown" PROVE FALSE
        BY <1>3, <3>1, MakeExcludes
      <3> QED
        BY <3>1
    <2>2. \A t \in Threads : pc'[t] = "lchown" <=> t = u
      BY <1>0, <1>1, <2>1 DEF TypeOK
    <2> QED
      BY <1>1, <2>2 DEF Hidden
  <1>8. Visible' = [m \in Names |-> IF m = n THEN None ELSE dir'[m]]
    BY <1>7 DEF Visible
  <1>9. Visible' = Visible
    BY <1>0, <1>5, <1>6, <1>8 DEF TypeOK
  <1>10. Owners' = Owners
    <2>1. ASSUME NEW i \in Inodes, NEW m \in Names, Visible[m] = i
          PROVE  owner'[i] = owner[i]
      BY <1>5, <1>6, <2>1, ProxyAssumption
    <2>2. Owners' = [i \in Inodes |-> IF \E m \in Names : Visible[m] = i THEN owner'[i] ELSE None]
      BY <1>9 DEF Owners
    <2> QED
      BY <2>1, <2>2 DEF Owners
  <1>11. Answers' = Answers
    <2>1. pc'[u] \notin {"log", "reply"} /\ pc[u] \notin {"log", "reply"}
      BY <1>3
    <2>2. \A t \in Threads : t # u => pc'[t] = pc[t] /\ result'[t] = result[t]
      BY <1>0, Frame
    <2> QED
      BY <2>1, <2>2 DEF Answers
  <1> QED
    BY <1>1, <1>9, <1>10, <1>11 DEF Seen!vars

\* A request is dispatched and answered as Passthrough has it; writing the
\* line is not seen.
LEMMA OtherSteps ==
    ASSUME TypeOK, NEW u \in Threads, Dispatch(u) \/ Log(u) \/ Reply(u)
    PROVE  Seen!Arrive(u) \/ Seen!Leave(u) \/ UNCHANGED Seen!vars
  <1>1. /\ dir' = dir /\ owner' = owner /\ pc[u] \notin {"call", "lchown"}
        /\ \E w \in {"call", "log", "reply", "idle"} : w # "lchown" /\ pc' = [pc EXCEPT ![u] = w]
    BY DEF Dispatch, Log, Reply
  <1>2. \A t \in Threads : t # u => /\ pc'[t] = pc[t] /\ req'[t] = req[t]
                                    /\ result'[t] = result[t]
    BY Frame
  <1>3. \A t \in Threads : pc'[t] = "lchown" <=> pc[t] = "lchown" /\ t # u
    BY <1>1 DEF TypeOK
  <1>4. \A n \in Names : Hidden(n)' = Hidden(n)
    BY <1>1, <1>2, <1>3 DEF Hidden
  <1>5. Seen!Keep
    BY <1>1, <1>4, Keeps
  <1>6. CASE Dispatch(u)
    <2>1. req[u] = NoRequest
      BY <1>6 DEF Dispatch, TypeOK
    <2>2. Answers' = Answers
      BY <1>2, <1>6 DEF Answers, Dispatch, TypeOK
    <2>3. \E r \in Requests : req' = [req EXCEPT ![u] = r]
      BY <1>6 DEF Dispatch
    <2> QED
      BY <1>5, <2>1, <2>2, <2>3 DEF Seen!Arrive, Seen!Keep, Seen!NoRequest, NoRequest
  <1>7. CASE Log(u)
    <2>1. Answers' = Answers /\ req' = req
      BY <1>2, <1>7 DEF Answers, Log, TypeOK
    <2> QED
      BY <1>5, <2>1 DEF Seen!vars, Seen!Keep
  <1>8. CASE Reply(u)
    <2>1. Answers[u] # {} /\ Answers' = [Answers EXCEPT ![u] = {}]
      BY <1>2, <1>8 DEF Answers, Reply, TypeOK
    <2>2. req' = [req EXCEPT ![u] = NoRequest]
      BY <1>8 DEF Reply
    <2> QED
      BY <1>5, <2>1, <2>2 DEF Seen!Leave, Seen!NoRequest, NoRequest
  <1> QED
    BY <1>6, <1>7, <1>8

\* The backing directory is seen as it was when LoggedFS was mounted over it.
LEMMA SeenInit == Init => Seen!Init
  <1> SUFFICES ASSUME Init PROVE Seen!Init
    OBVIOUS
  <1>0. TypeOK
    BY InitType
  <1>1. req = [t \in Threads |-> Seen!NoRequest]
    BY DEF Init, NoRequest, Seen!NoRequest
  <1>2. Answers = [t \in Threads |-> {}]
    BY DEF Init, Answers
  <1>3. Visible \in [Names -> Inodes \cup {None}]
    BY <1>0, SeenThings
  <1>4. \A i \in Inodes : Seen!Free(i) => Owners[i] = None
    BY DEF Seen!Free, Owners
  <1> QED
    BY <1>1, <1>2, <1>3, <1>4 DEF Seen!Init

\* Every step is one of Passthrough's or not seen.
LEMMA SeenStep == IInv /\ HalfInv /\ [Next]_vars => [Seen!Next]_Seen!vars
  <1> SUFFICES ASSUME IInv, HalfInv, [Next]_vars PROVE [Seen!Next]_Seen!vars
    OBVIOUS
  <1>0. TypeOK
    BY DEF IInv
  <1>1. CASE UNCHANGED vars
    <2>1. Visible' = Visible /\ Answers' = Answers
      BY <1>1 DEF vars, Visible, Hidden, Answers
    <2>2. Owners' = Owners
      BY <1>1, <2>1 DEF vars, Owners
    <2> QED
      BY <1>1, <2>1, <2>2 DEF vars, Seen!vars
  <1>2. ASSUME NEW u \in Threads, Handler(u) PROVE [Seen!Next]_Seen!vars
    <2>1. pc'[u] \in {"log", "lchown"}
      BY <1>0, <1>2, HandlerControl DEF TypeOK
    <2>2. CASE pc'[u] = "log"
      BY <1>2, <2>2, HandlerEffect DEF Seen!Next
    <2>3. CASE pc'[u] = "lchown"
      BY <1>2, <2>3, HalfStutters
    <2> QED
      BY <2>1, <2>2, <2>3
  <1>3. ASSUME NEW u \in Threads, Dispatch(u) \/ Log(u) \/ Reply(u)
        PROVE  [Seen!Next]_Seen!vars
    BY <1>0, <1>3, OtherSteps DEF Seen!Next
  <1> QED
    BY <1>1, <1>2, <1>3, StepCases

\* For all threads, names and requests, the proxy is seen as a filesystem in
\* which every request takes effect at one instant.
THEOREM Atomicity == Spec => Atomic
  <1>1. Spec => [](IInv /\ HalfInv)
    BY AtomicInit, AtomicStep, PTL DEF Spec
  <1> QED
    BY <1>1, SeenInit, SeenStep, PTL DEF Spec, Atomic, Seen!Spec

=============================================================================
