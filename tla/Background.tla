----------------------------- MODULE Background -----------------------------
(***************************************************************************)
(* cpplog's composite loggers: Tee and Multiplex, Filtering, and           *)
(* BackgroundLogger with its concurrent_queue, put together as a graph.    *)
(* Every sendLogMessage answers whether its caller may delete the message; *)
(* a background logger answers no, and deletes the message on its own      *)
(* thread.  Each message is logged by a thread of its own; those threads   *)
(* and the background threads walk the graph at the same time.             *)
(***************************************************************************)
EXTENDS Integers, FiniteSets, SequencesExt

CONSTANTS Msg,       \* log statements; each runs once
          LevelOf,   \* their level
          N,         \* number of loggers
          Graphs     \* the ways to put N loggers together

Kinds == {"stream", "filter", "multiplex", "background"}

Node(i) == [kind : Kinds, to : Seq(1 .. i - 1), level : Nat]

\* Loggers are built before the loggers that forward to them.
ASSUME GraphAssumption ==
    /\ N \in Nat \ {0} /\ LevelOf \in [Msg -> Nat]
    /\ \A g \in Graphs :
         /\ DOMAIN g = 1 .. N
         /\ \A i \in 1 .. N : g[i] \in Node(i)
         /\ \A i \in 1 .. N :
              g[i].kind \in {"filter", "background"} => Len(g[i].to) = 1
    /\ 0 \notin Msg /\ Msg \cap (1 .. N) = {}

VARIABLES
    logger,      \* the graph
    pc, todo,    \* per thread: where it is, and the loggers it has yet to call
    del,         \* per thread: deleteMessage, m_deleteMessage
    queue,       \* per background logger: m_queue
    next,        \* per background thread: nextLogEntry
    owner,       \* per background logger: what its owner has done to it
    frees,       \* how often an item was deleted
    forwarded,   \* per background logger: what it passed on
    written      \* per stream: the messages it holds

vars == <<logger, pc, todo, del, queue, next, owner, frees, forwarded, written>>

Background == {i \in 1 .. N : logger[i].kind = "background"}
\* Item b of a queue is m_dummyItem of logger b.
Items   == Msg \cup (1 .. N)
\* A message's own thread carries the message's name, a background logger's
\* thread the logger's.
Threads == Msg \cup (1 .. N)
Root    == N
None    == 0
Entry(t) == IF t \in Msg THEN t ELSE next[t]

Init ==
    /\ logger \in Graphs
    /\ pc = [t \in Threads |-> IF t \in Msg THEN "new" ELSE "pop"]
    /\ todo = [t \in Threads |-> <<>>]
    /\ del = [t \in Threads |-> t \notin Msg]
    /\ queue = [b \in 1 .. N |-> <<>>] /\ next = [b \in 1 .. N |-> None]
    /\ owner = [b \in 1 .. N |-> "open"]
    /\ frees = [i \in Items |-> 0]
    /\ forwarded = [b \in 1 .. N |-> <<>>]
    /\ written = [s \in 1 .. N |-> <<>>]

-----------------------------------------------------------------------------
(* concurrent_queue                                                        *)

\* Mutant: the waiting thread is not told.
PushSilently(b, item) ==
    /\ queue' = [queue EXCEPT ![b] = Append(@, item)]
    /\ UNCHANGED pc

\* Mutant: what is pushed last is popped first.
PushInFront(b, item) ==
    /\ queue' = [queue EXCEPT ![b] = <<item>> \o @]
    /\ pc' = [pc EXCEPT ![b] = IF @ = "asleep" THEN "pop" ELSE @]

\* push: append and notify_one, under the mutex.
Push(b, item) ==
    /\ queue' = [queue EXCEPT ![b] = Append(@, item)]
    /\ pc' = [pc EXCEPT ![b] = IF @ = "asleep" THEN "pop" ELSE @]

\* wait_and_pop, the queue empty: the wait releases the mutex.
Sleep(b) ==
    /\ pc[b] = "pop" /\ queue[b] = <<>>
    /\ pc' = [pc EXCEPT ![b] = "asleep"]
    /\ UNCHANGED <<logger, todo, del, queue, next, owner, frees, forwarded, written>>

\* A condition variable may wake without a notification; the loop looks again.
WakeSpuriously(b) ==
    /\ pc[b] = "asleep"
    /\ pc' = [pc EXCEPT ![b] = "pop"]
    /\ UNCHANGED <<logger, todo, del, queue, next, owner, frees, forwarded, written>>

\* wait_and_pop, the queue not empty, and the test for the dummy item: the
\* dummy skips sendLogMessage, and deleteMessage keeps its value.
Pop(b) ==
    LET item == Head(queue[b]) IN
    /\ pc[b] = "pop" /\ queue[b] # <<>>
    /\ queue' = [queue EXCEPT ![b] = Tail(@)]
    /\ next' = [next EXCEPT ![b] = item]
    /\ IF item # b
       THEN /\ pc' = [pc EXCEPT ![b] = "send"]
            /\ todo' = [todo EXCEPT ![b] = logger[b].to]
            /\ del' = [del EXCEPT ![b] = TRUE]
       ELSE /\ pc' = [pc EXCEPT ![b] = "decide"]
            /\ UNCHANGED <<todo, del>>
    /\ UNCHANGED <<logger, owner, frees, forwarded, written>>

-----------------------------------------------------------------------------
(* sendLogMessage of each kind of logger                                   *)

Calls(t, kind) ==
    pc[t] = "send" /\ todo[t] # <<>> /\ logger[Head(todo[t])].kind = kind

\* OstreamLogger: write the buffer, answer true.
WriteStream(t) ==
    /\ Calls(t, "stream")
    /\ written' = [written EXCEPT ![Head(todo[t])] = Append(@, Entry(t))]
    /\ todo' = [todo EXCEPT ![t] = Tail(@)]
    /\ UNCHANGED <<logger, pc, del, queue, next, owner, frees, forwarded>>

\* FilteringLogger and TFilteringLogger: forward what has the level.
Filter(t) ==
    LET f == logger[Head(todo[t])] IN
    /\ Calls(t, "filter")
    /\ todo' = [todo EXCEPT ![t] =
                  IF LevelOf[Entry(t)] >= f.level THEN f.to \o Tail(@) ELSE Tail(@)]
    /\ UNCHANGED <<logger, pc, del, queue, next, owner, frees, forwarded, written>>

\* TeeLogger and MultiplexLogger: one after the other.
Multiplex(t) ==
    /\ Calls(t, "multiplex")
    /\ todo' = [todo EXCEPT ![t] = logger[Head(@)].to \o Tail(@)]
    /\ UNCHANGED <<logger, pc, del, queue, next, owner, frees, forwarded, written>>

\* Mutant: deleteMessage = sendLogMessage(...) && deleteMessage.
RestEvaluated(rest) == rest

\* After an answer of false, `deleteMessage && ...` calls none of the others,
\* in this multiplexer nor in those above it.
Rest(rest) == <<>>

\* Mutant: the message is left to the caller.
EnqueueAndDelete(t) ==
    LET b == Head(todo[t]) IN
    /\ Calls(t, "background")
    /\ Push(b, Entry(t))
    /\ todo' = [todo EXCEPT ![t] = Rest(Tail(@))]
    /\ UNCHANGED <<logger, del, next, owner, frees, forwarded, written>>

\* BackgroundLogger: push, answer false.
Enqueue(t) ==
    LET b == Head(todo[t]) IN
    /\ Calls(t, "background")
    /\ Push(b, Entry(t))
    /\ todo' = [todo EXCEPT ![t] = Rest(Tail(@))]
    /\ del' = [del EXCEPT ![t] = FALSE]
    /\ UNCHANGED <<logger, next, owner, frees, forwarded, written>>

\* FilteringLogger::SetLevel, at any time.
SetLevel(i, level) ==
    /\ logger[i].kind = "filter" /\ level # logger[i].level
    /\ logger' = [logger EXCEPT ![i].level = level]
    /\ UNCHANGED <<pc, todo, del, queue, next, owner, frees, forwarded, written>>

-----------------------------------------------------------------------------
(* The threads                                                             *)

\* LogMessage's destructor calls Flush, which sends the message.
Flush(m) ==
    /\ pc[m] = "new" /\ \A b \in Background : owner[b] \notin {"destroying", "gone"}
    /\ pc' = [pc EXCEPT ![m] = "send"]
    /\ todo' = [todo EXCEPT ![m] = <<Root>>]
    /\ del' = [del EXCEPT ![m] = TRUE]
    /\ UNCHANGED <<logger, queue, next, owner, frees, forwarded, written>>

\* The outermost sendLogMessage returns.
Sent(t) ==
    /\ pc[t] = "send" /\ todo[t] = <<>>
    /\ pc' = [pc EXCEPT ![t] = "decide"]
    /\ forwarded' = IF t \in Msg THEN forwarded
                    ELSE [forwarded EXCEPT ![t] = Append(@, next[t])]
    /\ UNCHANGED <<logger, todo, del, queue, next, owner, frees, written>>

\* Delete the entry when told to; a message's thread is done with it, a
\* background thread ends after the dummy.
Afterwards(t) ==
    /\ pc[t] = "decide"
    /\ frees' = [frees EXCEPT ![Entry(t)] = IF del[t] THEN @ + 1 ELSE @]
    /\ pc' = [pc EXCEPT ![t] = IF Entry(t) = t THEN "ended" ELSE "pop"]
    /\ UNCHANGED <<logger, todo, del, queue, next, owner, forwarded, written>>

\* Stop: push the dummy item, then join.
Stop(b) ==
    /\ owner[b] = "open"
    /\ owner' = [owner EXCEPT ![b] = "joining"]
    /\ Push(b, b)
    /\ UNCHANGED <<logger, todo, del, next, frees, forwarded, written>>

\* A logger is destroyed when nobody will use it any more: after all messages
\* and after the loggers built on it.
Unused(b) ==
    /\ \A m \in Msg : pc[m] \in {"new", "ended"}
    /\ \A c \in Background : c > b => owner[c] = "gone"

\* The destructor calls Stop, also when the owner has: then there is no thread
\* left to join, and the dummy, maybe deleted, stays in the queue.
Destroy(b) ==
    /\ owner[b] \in {"open", "stopped"} /\ Unused(b)
    /\ owner' = [owner EXCEPT ![b] = IF @ = "open" THEN "destroying" ELSE "gone"]
    /\ Push(b, b)
    /\ UNCHANGED <<logger, todo, del, next, frees, forwarded, written>>

\* m_backgroundThread.join() returns.
Joined(b) ==
    /\ owner[b] \in {"joining", "destroying"} /\ pc[b] = "ended"
    /\ owner' = [owner EXCEPT ![b] = IF @ = "joining" THEN "stopped" ELSE "gone"]
    /\ UNCHANGED <<logger, pc, todo, del, queue, next, frees, forwarded, written>>

Call(t) == WriteStream(t) \/ Filter(t) \/ Multiplex(t) \/ Enqueue(t) \/ Sent(t) \/ Afterwards(t)

Work(b) == Sleep(b) \/ Pop(b) \/ Call(b)

Next ==
    \/ \E m \in Msg : Flush(m) \/ Call(m)
    \/ \E b \in Background : Work(b) \/ WakeSpuriously(b) \/ Stop(b) \/ Destroy(b) \/ Joined(b)
    \/ \E i \in 1 .. N : \E level \in {LevelOf[m] : m \in Msg} : SetLevel(i, level)

\* The background threads run, and join returns when its thread has ended.
\* The threads that log, and the owners, may stop anywhere.
Spec ==
    /\ Init /\ [][Next]_vars
    /\ \A b \in 1 .. N :
         WF_vars(b \in Background /\ Work(b)) /\ WF_vars(b \in Background /\ Joined(b))

-----------------------------------------------------------------------------
(* Properties.                                                             *)

\* Nothing is deleted twice; a thread that calls nobody is at rest.
TypeOK ==
    /\ DOMAIN logger = 1 .. N /\ \A i \in 1 .. N : logger[i] \in Node(i)
    /\ \A t \in Threads : /\ pc[t] \in {"new", "pop", "asleep", "send", "decide", "ended"}
                          /\ pc[t] # "send" => todo[t] = <<>>
    /\ todo \in [Threads -> Seq(1 .. N)] /\ del \in [Threads -> BOOLEAN]
    /\ queue \in [1 .. N -> Seq(Items)] /\ next \in [1 .. N -> Items \cup {None}]
    /\ owner \in [1 .. N -> {"open", "joining", "stopped", "destroying", "gone"}]
    /\ frees \in [Items -> 0 .. 1]
    /\ forwarded \in [1 .. N -> Seq(Msg)] /\ written \in [1 .. N -> Seq(Msg)]

\* Who may still delete m: a thread walking with it that has not been told no,
\* and every place of it in a queue.
Holders(m) ==
    {<<t, 0>> : t \in {u \in Threads : pc[u] \in {"send", "decide"} /\ Entry(u) = m /\ del[u]}}
        \cup UNION {{<<b, i>> : i \in {k \in DOMAIN queue[b] : queue[b][k] = m}} : b \in 1 .. N}

\* Once its statement has run, a message has one holder until it is deleted,
\* through any graph of loggers, and none after: the answers of
\* sendLogMessage neither lose it nor give it to two.  (A logger that has stopped
\* holds what is still put into its queue.)
HeldOnce ==
    \A m \in Msg : Cardinality(Holders(m)) = IF pc[m] = "new" THEN 0 ELSE 1 - frees[m]

\* No logger is called with a message that another thread has deleted
\* meanwhile: the first that keeps it is the last that sees it.
NoUseAfterFree ==
    \A t \in Threads : pc[t] = "send" /\ todo[t] # <<>> => frees[Entry(t)] = 0

\* Stop, of the item it pushes: "The loop will free the dummy item for us, we can
\* ignore it."  The thread that has ended has deleted it.
DummyFreed == \A b \in Background : pc[b] = "ended" => frees[b] = 1

\* The loggers each logger leads to.
Behind ==
    LET behind[i \in 1 .. N] == UNION {{j} \cup behind[j] : j \in ToSet(logger[i].to)}
    IN  behind

\* Loggers in a row keep the order: what a logger passed on stands on a stream
\* behind it, behind however many others, in the order it was passed on.  (A
\* stream that two paths lead to can get messages in another order.)
StreamsInOrder ==
    \A b \in Background : \A s \in Behind[b] :
        \A i, j \in DOMAIN written[s] : \A k, l \in DOMAIN forwarded[b] :
            i < j /\ written[s][i] = forwarded[b][k] /\ written[s][j] = forwarded[b][l]
                => k < l

\* What logger b has accepted in time: its thread has it, or it is before the
\* dummy.
Pending(b) ==
    LET dummies == {i \in 1 .. Len(queue[b]) : queue[b][i] = b}
        upTo    == IF dummies = {} THEN Len(queue[b])
                   ELSE (CHOOSE i \in dummies : \A j \in dummies : i <= j) - 1
    IN  IF next[b] = b THEN <<>>
        ELSE (IF pc[b] = "send" THEN <<next[b]>> ELSE <<>>) \o SubSeq(queue[b], 1, upTo)

Logs ==
    INSTANCE AsyncLog WITH
        Log     <- 1 .. N,
        pending <- [b \in 1 .. N |-> Pending(b)],
        emitted <- forwarded,
        phase   <- [b \in 1 .. N |->
                      CASE owner[b] = "open" -> "open"
                        [] owner[b] \in {"joining", "destroying"} -> "closing"
                        [] OTHER -> "closed"]

\* Every background logger is the asynchronous log it promises to be, whoever
\* sends to it and whatever it forwards to; above all, Stop returns.
LogImplemented == Logs!Spec
=============================================================================
