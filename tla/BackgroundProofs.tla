-------------------------- MODULE BackgroundProofs --------------------------
(***************************************************************************)
(* Proofs about Background, for every graph of loggers, every number of    *)
(* messages and every interleaving: the types; a message is deleted once   *)
(* and by one thread, and no logger is called with it afterwards; the      *)
(* dummy item is freed unless the last message was taken over; every       *)
(* background logger is the log that AsyncLog describes; and loggers in a  *)
(* row keep the order.                                                     *)
(***************************************************************************)
EXTENDS Background, FiniteSetTheorems, SequenceTheorems, WellFoundedInduction, TLAPS

\* Where a thread may be.
Step == {"new", "pop", "asleep", "send", "decide", "ended"}

\* The types the proofs rest on.
Shape ==
    /\ DOMAIN logger = 1 .. N /\ \A i \in 1 .. N : logger[i] \in Node(i)
    /\ pc \in [Threads -> Step] /\ todo \in [Threads -> Seq(1 .. N)]
    /\ del \in [Threads -> BOOLEAN]
    /\ queue \in [1 .. N -> Seq(Items)] /\ next \in [1 .. N -> Items \cup {None}]
    /\ frees \in [Items -> Nat]

\* Only messages travel; a logger's own dummy is all else its queue holds, and it
\* is never sent.  A thread that was told no has nobody left to call.
Travel ==
    /\ \A t \in Threads : todo[t] # <<>> => pc[t] = "send" /\ del[t]
    /\ \A m \in Msg : pc[m] \in {"new", "send", "decide", "ended"}
    /\ \A b \in 1 .. N : /\ pc[b] = "send" => next[b] \in Msg
                         /\ pc[b] = "decide" => next[b] \in Msg \cup {b}
                         /\ pc[b] # "new"
                         /\ \A i \in DOMAIN queue[b] : queue[b][i] \in Msg \cup {b}

\* Thread t has m and has not been told no.
Walks(t, m) == pc[t] \in {"send", "decide"} /\ Entry(t) = m /\ del[t]

\* Nobody walks with m.
NoWalker(m)  == \A t \in Threads : ~Walks(t, m)
\* No queue holds m.
NotQueued(m) == \A b \in 1 .. N : \A i \in DOMAIN queue[b] : queue[b][i] # m

\* Nobody holds m twice, and not two hold it.
AtMostOne(m) ==
    /\ \A t, u \in Threads : Walks(t, m) /\ Walks(u, m) => t = u
    /\ NoWalker(m) \/ NotQueued(m)
    /\ \A b, c \in 1 .. N : \A i \in DOMAIN queue[b] : \A j \in DOMAIN queue[c] :
          queue[b][i] = m /\ queue[c][j] = m => b = c /\ i = j

\* A message has its holder from its statement to its deletion.
Held ==
    \A m \in Msg :
        /\ AtMostOne(m)
        /\ frees[m] \in {0, 1}
        /\ pc[m] = "new" => frees[m] = 0
        /\ pc[m] = "new" \/ frees[m] = 1 => NoWalker(m) /\ NotQueued(m)
        /\ pc[m] # "new" /\ frees[m] = 0 => ~NoWalker(m) \/ ~NotQueued(m)

\* The inductive invariant of HeldOnce and NoUseAfterFree.
IInv == Shape /\ Travel /\ Held

-----------------------------------------------------------------------------

\* What Append does to the places of a sequence.
LEMMA Appended ==
    ASSUME NEW T, NEW s \in Seq(T), NEW x \in T
    PROVE  /\ Append(s, x) \in Seq(T)
           /\ DOMAIN s = 1 .. Len(s) /\ Len(s) \in Nat
           /\ DOMAIN Append(s, x) = 1 .. (Len(s) + 1)
           /\ Append(s, x)[Len(s) + 1] = x
           /\ \A i \in DOMAIN s : Append(s, x)[i] = s[i]
OBVIOUS

\* What Tail does to the places of a sequence.
LEMMA Dropped ==
    ASSUME NEW T, NEW s \in Seq(T), s # <<>>
    PROVE  /\ Tail(s) \in Seq(T) /\ Head(s) \in T
           /\ 1 \in DOMAIN s /\ s[1] = Head(s)
           /\ \A i \in DOMAIN Tail(s) : i + 1 \in DOMAIN s /\ i + 1 # 1 /\ Tail(s)[i] = s[i + 1]
           /\ \A i \in DOMAIN s : i = 1 \/ (i - 1 \in DOMAIN Tail(s) /\ Tail(s)[i - 1] = s[i])
           /\ \A i \in DOMAIN s : i \in Int
OBVIOUS

\* A logger forwards to loggers.
LEMMA Forwards ==
    ASSUME Shape, NEW i \in 1 .. N
    PROVE  logger[i].to \in Seq(1 .. N)
<1>1. N \in Nat /\ i \in Nat BY GraphAssumption
<1>2. logger[i].to \in Seq(1 .. i - 1) BY DEF Shape, Node
<1>3. 1 .. i - 1 \subseteq 1 .. N BY <1>1
<1> QED BY <1>2, <1>3, SeqMonotonic

\* Before the first statement nothing is held and nothing deleted.
LEMMA InitInv == Init => IInv
<1> SUFFICES ASSUME Init PROVE IInv OBVIOUS
<1>1. Shape BY GraphAssumption DEF Init, Shape, Step, Threads, Items
<1>2. Travel
    <2>1. \A b \in 1 .. N : b \notin Msg /\ pc[b] = "pop" /\ queue[b] = <<>>
        BY GraphAssumption DEF Init, Threads
    <2>2. \A t \in Threads : todo[t] = <<>> BY DEF Init
    <2>3. \A m \in Msg : pc[m] = "new" BY DEF Init, Threads
    <2> QED BY <2>1, <2>2, <2>3 DEF Travel
<1>3. Held
    BY GraphAssumption DEF Init, Held, AtMostOne, NoWalker, NotQueued, Walks, Items, Threads
<1> QED BY <1>1, <1>2, <1>3 DEF IInv

\* Steps that change neither who has a message nor what is deleted.
LEMMA HoldersKept ==
    ASSUME Held, UNCHANGED <<queue, frees>>,
           \A t \in Threads, m \in Msg : Walks(t, m)' <=> Walks(t, m),
           \A m \in Msg : pc'[m] = "new" <=> pc[m] = "new"
    PROVE  Held'
BY DEF Held, AtMostOne, NoWalker, NotQueued

\* A dummy item is pushed.
LEMMA DummyPushed ==
    ASSUME IInv, NEW b \in 1 .. N, Push(b, b), UNCHANGED <<logger, todo, del, next, frees>>
    PROVE  IInv'
<1>1. queue[b] \in Seq(Items) /\ b \in Items /\ b \in Threads /\ b \notin Msg
    BY GraphAssumption DEF IInv, Shape, Items, Threads
<1>2. queue' = [queue EXCEPT ![b] = Append(queue[b], b)] BY DEF Push
<1>3. \A c \in 1 .. N : c # b => queue'[c] = queue[c] BY <1>2 DEF IInv, Shape
<1>4. queue'[b] = Append(queue[b], b) BY <1>2 DEF IInv, Shape
<1>5. Shape'
    <2>1. queue' \in [1 .. N -> Seq(Items)] BY <1>1, <1>2, Appended DEF IInv, Shape
    <2>2. pc' \in [Threads -> Step] BY DEF IInv, Shape, Push, Step
    <2> QED BY <2>1, <2>2 DEF IInv, Shape
<1>6. \A t \in Threads : pc'[t] = pc[t] \/ (t \notin Msg /\ pc[t] = "asleep" /\ pc'[t] = "pop")
    BY <1>1 DEF IInv, Shape, Push
<1>7. Travel'
    <2>1. \A c \in 1 .. N : \A i \in DOMAIN queue'[c] : queue'[c][i] \in Msg \cup {c}
        <3>1. \A i \in DOMAIN queue'[b] : queue'[b][i] \in Msg \cup {b}
            BY <1>1, <1>4, Appended DEF IInv, Travel
        <3> QED BY <1>3, <3>1 DEF IInv, Travel
    <2> QED BY <1>6, <2>1 DEF IInv, Travel, Threads
<1>8. \A t \in Threads, m \in Msg : Walks(t, m)' <=> Walks(t, m)
    BY <1>6 DEF Walks, Entry
<1>9. \A m \in Msg, c \in 1 .. N :
        \A i : i \in DOMAIN queue'[c] /\ queue'[c][i] = m
                 <=> i \in DOMAIN queue[c] /\ queue[c][i] = m
    BY <1>1, <1>3, <1>4, Appended
<1>10. Held'
    BY <1>6, <1>8, <1>9 DEF IInv, Held, AtMostOne, NoWalker, NotQueued, Threads
<1> QED BY <1>5, <1>7, <1>10 DEF IInv

\* A background thread that waits has nothing.
LEMMA SleepStep ==
    ASSUME IInv, NEW b \in 1 .. N, Sleep(b) \/ WakeSpuriously(b)
    PROVE  IInv'
<1>1. b \in Threads /\ b \notin Msg BY GraphAssumption DEF Threads
<1>2. \A t \in Threads : pc'[t] = pc[t] \/
          (t = b /\ pc[t] \in {"pop", "asleep"} /\ pc'[t] \in {"pop", "asleep"})
    BY <1>1 DEF IInv, Shape, Sleep, WakeSpuriously
<1>3. Shape' BY DEF IInv, Shape, Sleep, WakeSpuriously, Step
<1>4. Travel' BY <1>1, <1>2 DEF IInv, Travel, Sleep, WakeSpuriously, Threads
<1>5. Held'
    <2>1. \A t \in Threads, m \in Msg : Walks(t, m)' <=> Walks(t, m)
        BY <1>2 DEF Walks, Entry, Sleep, WakeSpuriously
    <2> QED BY <1>1, <1>2, <2>1, HoldersKept DEF IInv, Sleep, WakeSpuriously, Threads
<1> QED BY <1>3, <1>4, <1>5 DEF IInv

\* The front of the queue goes to the thread, and the rest moves up.
LEMMA PopStep ==
    ASSUME IInv, NEW b \in 1 .. N, Pop(b)
    PROVE  IInv'
<1> DEFINE item == Head(queue[b])
<1>1. b \in Threads /\ b \notin Msg /\ queue[b] \in Seq(Items) /\ queue[b] # <<>>
    BY GraphAssumption DEF IInv, Shape, Threads, Pop
<1>2. item \in Items /\ item \in Msg \cup {b}
    BY <1>1, Dropped DEF IInv, Travel
<1>3. \A c \in 1 .. N : queue'[c] = IF c = b THEN Tail(queue[b]) ELSE queue[c]
    BY DEF IInv, Shape, Pop
<1>4. /\ next' = [next EXCEPT ![b] = item]
      /\ \/ /\ item \in Msg /\ pc' = [pc EXCEPT ![b] = "send"]
            /\ todo' = [todo EXCEPT ![b] = logger[b].to] /\ del' = [del EXCEPT ![b] = TRUE]
         \/ /\ item = b /\ pc' = [pc EXCEPT ![b] = "decide"] /\ UNCHANGED <<todo, del>>
      /\ UNCHANGED <<logger, frees>>
    BY <1>1, <1>2 DEF Pop
<1>5. Shape'
    <2>1. queue' \in [1 .. N -> Seq(Items)] BY <1>1, Dropped DEF IInv, Shape, Pop
    <2>2. logger[b].to \in Seq(1 .. N) BY Forwards DEF IInv
    <2> QED BY <1>1, <1>2, <1>4, <2>1, <2>2 DEF IInv, Shape, Step
<1>6. \A c \in 1 .. N : \A i \in DOMAIN queue'[c] :
          \E j \in DOMAIN queue[c] : queue'[c][i] = queue[c][j]
    <2>1. ASSUME NEW i \in DOMAIN queue'[b]
          PROVE  \E j \in DOMAIN queue[b] : queue'[b][i] = queue[b][j]
        <3>1. queue'[b] = Tail(queue[b]) BY <1>3
        <3>2. i + 1 \in DOMAIN queue[b] /\ queue'[b][i] = queue[b][i + 1]
            BY <1>1, <3>1, Dropped
        <3> QED BY <3>2
    <2> QED BY <1>3, <2>1
<1>7. Travel'
    <2>1. \A t \in Threads : t # b => pc'[t] = pc[t] /\ todo'[t] = todo[t] /\ del'[t] = del[t]
        BY <1>4 DEF IInv, Shape
    <2>2. todo'[b] # <<>> => pc'[b] = "send" /\ del'[b]
        BY <1>1, <1>4 DEF IInv, Shape, Travel, Pop
    <2>3. \A m \in Msg : pc'[m] = pc[m] BY <1>1, <2>1 DEF Threads
    <2>4. \A c \in 1 .. N : /\ pc'[c] = "send" => next'[c] \in Msg
                            /\ pc'[c] = "decide" => next'[c] \in Msg \cup {c}
                            /\ pc'[c] # "new"
        BY <1>1, <1>4 DEF IInv, Shape, Travel, Threads
    <2>5. \A c \in 1 .. N : \A i \in DOMAIN queue'[c] : queue'[c][i] \in Msg \cup {c}
        BY <1>6 DEF IInv, Travel
    <2> QED BY <2>1, <2>2, <2>3, <2>4, <2>5 DEF IInv, Travel
<1>8. \A m \in Msg : pc'[m] = pc[m] BY <1>1, <1>4 DEF IInv, Shape, Threads
<1>9. \A t \in Threads, m \in Msg :
        Walks(t, m)' <=> Walks(t, m) \/ (t = b /\ m = item)
    BY <1>1, <1>4 DEF IInv, Shape, Walks, Entry, Pop
<1>10. ASSUME NEW m \in Msg PROVE
        /\ AtMostOne(m)'
        /\ pc'[m] = "new" \/ frees'[m] = 1 => NoWalker(m)' /\ NotQueued(m)'
        /\ pc'[m] # "new" /\ frees'[m] = 0 => ~NoWalker(m)' \/ ~NotQueued(m)'
    <2>1. /\ AtMostOne(m)
          /\ pc[m] = "new" \/ frees[m] = 1 => NoWalker(m) /\ NotQueued(m)
          /\ pc[m] # "new" /\ frees[m] = 0 => ~NoWalker(m) \/ ~NotQueued(m)
        BY DEF IInv, Held
    <2>2. \A c \in 1 .. N : c # b => queue'[c] = queue[c] BY <1>3
    <2>3. queue'[b] = Tail(queue[b]) BY <1>3
    <2>4. /\ 1 \in DOMAIN queue[b] /\ queue[b][1] = item
          /\ \A i \in DOMAIN queue'[b] : i \in Int /\ i + 1 \in DOMAIN queue[b] /\ i + 1 # 1
                                          /\ queue'[b][i] = queue[b][i + 1]
          /\ \A i \in DOMAIN queue[b] :
                i = 1 \/ (i - 1 \in DOMAIN queue'[b] /\ queue'[b][i - 1] = queue[b][i])
        BY <1>1, <2>3, Dropped
    <2>5. CASE m = item
        <3>1. NoWalker(m) /\ ~NotQueued(m) BY <2>1, <2>4, <2>5 DEF AtMostOne, NotQueued
        <3>2. NotQueued(m)'
            BY <2>1, <2>2, <2>4, <2>5 DEF AtMostOne, NotQueued
        <3>3. \A t \in Threads : Walks(t, m)' <=> t = b BY <1>9, <2>5, <3>1 DEF NoWalker
        <3> QED BY <1>1, <1>4, <1>8, <2>1, <3>1, <3>2, <3>3 DEF AtMostOne, NoWalker, NotQueued
    <2>6. CASE m # item
        <3>1. \A t \in Threads : Walks(t, m)' <=> Walks(t, m) BY <1>9, <2>6
        <3>2. NotQueued(m)' <=> NotQueued(m)
            BY <2>2, <2>4, <2>6 DEF NotQueued
        <3>3. \A c, d \in 1 .. N : \A i \in DOMAIN queue'[c] : \A j \in DOMAIN queue'[d] :
                 queue'[c][i] = m /\ queue'[d][j] = m => c = d /\ i = j
            BY <2>1, <2>2, <2>4 DEF AtMostOne
        <3> QED BY <1>4, <1>8, <2>1, <3>1, <3>2, <3>3 DEF AtMostOne, NoWalker
    <2> QED BY <2>5, <2>6
<1>11. Held' BY <1>4, <1>8, <1>10 DEF IInv, Held
<1> QED BY <1>5, <1>7, <1>11 DEF IInv

\* A logger that forwards within the thread, or returns.
LEMMA CallStep ==
    ASSUME IInv, NEW t \in Threads, WriteStream(t) \/ Filter(t) \/ Multiplex(t)
    PROVE  IInv'
<1>1. pc[t] = "send" /\ todo[t] # <<>> /\ todo[t] \in Seq(1 .. N)
    BY DEF IInv, Shape, WriteStream, Filter, Multiplex, Calls
<1>2. Head(todo[t]) \in 1 .. N /\ Tail(todo[t]) \in Seq(1 .. N) BY <1>1, Dropped
<1>3. logger[Head(todo[t])].to \o Tail(todo[t]) \in Seq(1 .. N)
    <2>1. logger[Head(todo[t])].to \in Seq(1 .. N) BY <1>2, Forwards DEF IInv
    <2> QED BY <1>2, <2>1
<1>4. /\ UNCHANGED <<logger, pc, del, queue, next, frees>>
      /\ \E rest \in Seq(1 .. N) : todo' = [todo EXCEPT ![t] = rest]
    BY <1>2, <1>3 DEF WriteStream, Filter, Multiplex
<1>5. Shape' BY <1>4 DEF IInv, Shape
<1>6. Travel' BY <1>1, <1>4 DEF IInv, Shape, Travel
<1>7. Held'
    <2>1. \A u \in Threads, m \in Msg : Walks(u, m)' <=> Walks(u, m)
        BY <1>4 DEF Walks, Entry
    <2> QED BY <1>4, <2>1, HoldersKept DEF IInv
<1> QED BY <1>5, <1>6, <1>7 DEF IInv

\* What is sent is a message, never a dummy.
LEMMA EntrySent ==
    ASSUME IInv, NEW t \in Threads, pc[t] = "send"
    PROVE  Entry(t) \in Msg
BY DEF IInv, Travel, Entry, Threads

\* The message goes from the thread, which answers no, to the end of the queue.
LEMMA EnqueueStep ==
    ASSUME IInv, NEW t \in Threads, Enqueue(t)
    PROVE  IInv'
<1> DEFINE b == Head(todo[t])
           e == Entry(t)
<1>1. pc[t] = "send" /\ todo[t] # <<>> /\ todo[t] \in Seq(1 .. N) /\ del[t]
    BY DEF IInv, Shape, Travel, Enqueue, Calls
<1>2. b \in 1 .. N /\ b \in Threads /\ b \notin Msg /\ e \in Msg /\ e \in Items /\ e \in Threads
    BY <1>1, Dropped, EntrySent, GraphAssumption DEF Threads, Items
<1>3. Walks(t, e) BY <1>1 DEF Walks
<1>4. /\ queue' = [queue EXCEPT ![b] = Append(queue[b], e)]
      /\ pc' = [pc EXCEPT ![b] = IF @ = "asleep" THEN "pop" ELSE @]
      /\ todo' = [todo EXCEPT ![t] = <<>>] /\ del' = [del EXCEPT ![t] = FALSE]
      /\ UNCHANGED <<logger, next, frees>>
    BY DEF Enqueue, Push, Rest
<1> HIDE DEF b, e
<1>5. queue[b] \in Seq(Items) BY <1>2 DEF IInv, Shape
<1>6. Shape'
    <2>1. queue' \in [1 .. N -> Seq(Items)] BY <1>2, <1>4, <1>5, Appended DEF IInv, Shape
    <2>2. pc' \in [Threads -> Step] BY <1>2, <1>4 DEF IInv, Shape, Step
    <2>3. todo' \in [Threads -> Seq(1 .. N)] /\ del' \in [Threads -> BOOLEAN]
        BY <1>4 DEF IInv, Shape
    <2> QED BY <1>4, <2>1, <2>2, <2>3 DEF IInv, Shape
<1>7. \A u \in Threads : pc'[u] = pc[u] \/ (u \notin Msg /\ pc[u] = "asleep" /\ pc'[u] = "pop")
    BY <1>2, <1>4 DEF IInv, Shape
<1>8. \A c \in 1 .. N : c # b => queue'[c] = queue[c] BY <1>4 DEF IInv, Shape
<1>9. queue'[b] = Append(queue[b], e) BY <1>2, <1>4 DEF IInv, Shape
<1>10. \A u \in Threads : u # t => todo'[u] = todo[u] /\ del'[u] = del[u]
    BY <1>4 DEF IInv, Shape
<1>11. todo'[t] = <<>> /\ ~del'[t] BY <1>4 DEF IInv, Shape
<1>12. Travel'
    <2>1. \A u \in Threads : todo'[u] # <<>> => pc'[u] = "send" /\ del'[u]
        BY <1>7, <1>10, <1>11 DEF IInv, Travel
    <2>2. \A c \in 1 .. N : \A i \in DOMAIN queue'[c] : queue'[c][i] \in Msg \cup {c}
        <3>1. \A i \in DOMAIN queue'[b] : queue'[b][i] \in Msg \cup {b}
            BY <1>2, <1>5, <1>9, Appended DEF IInv, Travel
        <3> QED BY <1>8, <3>1 DEF IInv, Travel
    <2> QED BY <1>4, <1>7, <2>1, <2>2 DEF IInv, Travel, Threads
<1>13. \A u \in Threads, m \in Msg : Walks(u, m)' <=> Walks(u, m) /\ u # t
    BY <1>4, <1>7, <1>10, <1>11 DEF Walks, Entry
<1>14. ASSUME NEW m \in Msg PROVE
        /\ AtMostOne(m)'
        /\ pc'[m] = "new" \/ frees'[m] = 1 => NoWalker(m)' /\ NotQueued(m)'
        /\ pc'[m] # "new" /\ frees'[m] = 0 => ~NoWalker(m)' \/ ~NotQueued(m)'
    <2>1. /\ AtMostOne(m)
          /\ pc[m] = "new" \/ frees[m] = 1 => NoWalker(m) /\ NotQueued(m)
          /\ pc[m] # "new" /\ frees[m] = 0 => ~NoWalker(m) \/ ~NotQueued(m)
        BY DEF IInv, Held
    <2>2. pc'[m] = "new" <=> pc[m] = "new" BY <1>7 DEF Threads
    <2>3. /\ DOMAIN queue[b] = 1 .. Len(queue[b]) /\ Len(queue[b]) \in Nat
          /\ DOMAIN queue'[b] = 1 .. (Len(queue[b]) + 1) /\ queue'[b][Len(queue[b]) + 1] = e
          /\ \A i \in DOMAIN queue[b] : queue'[b][i] = queue[b][i]
        BY <1>2, <1>5, <1>9, Appended
    <2>4. CASE m = e
        <3>1. ~NoWalker(m) /\ NotQueued(m) BY <1>3, <2>1, <2>4 DEF AtMostOne, NoWalker
        <3>2. NoWalker(m)' BY <1>3, <1>13, <2>1, <2>4 DEF AtMostOne, NoWalker
        <3>3. \A c \in 1 .. N : \A i \in DOMAIN queue'[c] :
                queue'[c][i] = m <=> c = b /\ i = Len(queue[b]) + 1
            BY <1>8, <2>3, <2>4, <3>1 DEF NotQueued
        <3>4. ~NotQueued(m)' BY <1>2, <2>3, <2>4 DEF NotQueued
        <3> QED BY <1>4, <2>1, <2>2, <3>1, <3>2, <3>3, <3>4 DEF AtMostOne, NoWalker
    <2>5. CASE m # e
        <3>1. \A u \in Threads : Walks(u, m)' <=> Walks(u, m)
            BY <1>3, <1>13, <2>5 DEF Walks
        <3>2. \A c \in 1 .. N : \A i : i \in DOMAIN queue'[c] /\ queue'[c][i] = m
                                        <=> i \in DOMAIN queue[c] /\ queue[c][i] = m
            BY <1>8, <2>3, <2>5
        <3> QED BY <1>4, <2>1, <2>2, <3>1, <3>2 DEF AtMostOne, NoWalker, NotQueued
    <2> QED BY <2>4, <2>5
<1>15. Held' BY <1>4, <1>7, <1>14 DEF IInv, Held, Threads
<1> QED BY <1>6, <1>12, <1>15 DEF IInv

\* The outermost answer leaves the message where it was.
LEMMA SentStep ==
    ASSUME IInv, NEW t \in Threads, Sent(t)
    PROVE  IInv'
<1>1. \A u \in Threads : pc'[u] = pc[u] \/ (u = t /\ pc[u] = "send" /\ pc'[u] = "decide")
    BY DEF IInv, Shape, Sent
<1>2. Shape' BY DEF IInv, Shape, Sent, Step
<1>3. Travel'
    <2>1. \A b \in 1 .. N : pc'[b] = "decide" => next'[b] \in Msg \cup {b}
        BY <1>1 DEF IInv, Travel, Sent, Threads
    <2> QED BY <1>1, <2>1 DEF IInv, Travel, Sent, Threads
<1>4. Held'
    <2>1. \A u \in Threads, m \in Msg : Walks(u, m)' <=> Walks(u, m)
        BY <1>1 DEF Walks, Entry, Sent
    <2> QED BY <1>1, <2>1, HoldersKept DEF IInv, Sent, Threads
<1> QED BY <1>2, <1>3, <1>4 DEF IInv

\* Who has the message when the answers are in deletes it.
LEMMA AfterwardsStep ==
    ASSUME IInv, NEW t \in Threads, Afterwards(t)
    PROVE  IInv'
<1> DEFINE e == Entry(t)
<1>1. pc[t] = "decide" /\ e \in Items /\ (e \in Msg \/ e = t)
    BY DEF IInv, Shape, Travel, Afterwards, Entry, Threads, Items
<1>2. /\ frees' = [frees EXCEPT ![e] = IF del[t] THEN @ + 1 ELSE @]
      /\ pc' = [pc EXCEPT ![t] = IF e = t THEN "ended" ELSE "pop"]
      /\ UNCHANGED <<logger, todo, del, queue, next>>
    BY DEF Afterwards
<1>3. t \in Msg => e = t BY DEF Entry
<1>4. e \in Msg /\ del[t] => Walks(t, e) BY <1>1 DEF Walks
<1>5. \A u \in Threads : u # t => pc'[u] = pc[u] BY <1>2 DEF IInv, Shape
<1>6. pc'[t] \in {"ended", "pop"} /\ (t \in Msg => pc'[t] = "ended")
    BY <1>2, <1>3 DEF IInv, Shape
<1>7. \A u \in Threads, m \in Msg : Walks(u, m)' <=> Walks(u, m) /\ u # t
    BY <1>2, <1>5, <1>6 DEF Walks, Entry
<1>8. \A m \in Msg : Walks(t, m) <=> m = e /\ del[t] BY <1>1 DEF Walks
<1> HIDE DEF e
<1>9. Shape' BY <1>1, <1>2 DEF IInv, Shape, Step
<1>10. Travel' BY <1>1, <1>2, <1>5, <1>6 DEF IInv, Travel, Threads
<1>11. ASSUME NEW m \in Msg PROVE
        /\ AtMostOne(m)' /\ frees'[m] \in {0, 1}
        /\ pc'[m] = "new" => frees'[m] = 0
        /\ pc'[m] = "new" \/ frees'[m] = 1 => NoWalker(m)' /\ NotQueued(m)'
        /\ pc'[m] # "new" /\ frees'[m] = 0 => ~NoWalker(m)' \/ ~NotQueued(m)'
    <2>1. /\ AtMostOne(m) /\ frees[m] \in {0, 1} /\ m \in Items /\ m \in Threads
          /\ pc[m] = "new" => frees[m] = 0
          /\ pc[m] = "new" \/ frees[m] = 1 => NoWalker(m) /\ NotQueued(m)
          /\ pc[m] # "new" /\ frees[m] = 0 => ~NoWalker(m) \/ ~NotQueued(m)
        BY DEF IInv, Held, Items, Threads
    <2>2. pc'[m] = "new" <=> pc[m] = "new" BY <1>1, <1>5, <1>6, <2>1
    <2>3. NotQueued(m)' <=> NotQueued(m) BY <1>2 DEF NotQueued
    <2>4. CASE m = e /\ del[t]
        <3>1. Walks(t, m) BY <1>4, <2>4
        <3>2. ~NoWalker(m) /\ NotQueued(m) BY <2>1, <3>1 DEF AtMostOne, NoWalker
        <3>3. NoWalker(m)' BY <1>7, <2>1, <3>1 DEF AtMostOne, NoWalker
        <3>4. frees[m] = 0 /\ frees'[m] = 1
            BY <1>2, <2>1, <2>4, <3>2 DEF IInv, Shape
        <3>5. AtMostOne(m)' BY <2>3, <3>2, <3>3 DEF AtMostOne, NoWalker, NotQueued
        <3> QED BY <2>1, <2>2, <2>3, <3>2, <3>3, <3>4, <3>5
    <2>5. CASE ~(m = e /\ del[t])
        <3>1. \A u \in Threads : Walks(u, m)' <=> Walks(u, m) BY <1>7, <1>8, <2>5
        <3>2. frees'[m] = frees[m] BY <1>2, <2>1, <2>5 DEF IInv, Shape
        <3>3. NoWalker(m)' <=> NoWalker(m) BY <3>1 DEF NoWalker
        <3>4. AtMostOne(m)' BY <1>2, <2>1, <2>3, <3>1, <3>3 DEF AtMostOne
        <3> QED BY <2>1, <2>2, <2>3, <3>2, <3>3, <3>4
    <2> QED BY <2>4, <2>5
<1>12. Held' BY <1>11 DEF Held
<1> QED BY <1>9, <1>10, <1>12 DEF IInv

\* A statement's message is first with its own thread.
LEMMA FlushStep ==
    ASSUME IInv, NEW m \in Msg, Flush(m)
    PROVE  IInv'
<1>1. m \in Threads /\ m \notin 1 .. N /\ pc[m] = "new" /\ Root \in 1 .. N
    BY GraphAssumption DEF Flush, Threads, Root
<1>2. /\ pc' = [pc EXCEPT ![m] = "send"] /\ todo' = [todo EXCEPT ![m] = <<Root>>]
      /\ del' = [del EXCEPT ![m] = TRUE] /\ UNCHANGED <<logger, queue, next, frees>>
    BY DEF Flush
<1>3. Shape' BY <1>1, <1>2 DEF IInv, Shape, Step
<1>4. Travel' BY <1>1, <1>2 DEF IInv, Shape, Travel, Threads
<1>5. \A u \in Threads, k \in Msg : Walks(u, k)' <=> Walks(u, k) \/ (u = m /\ k = m)
    BY <1>1, <1>2 DEF IInv, Shape, Walks, Entry
<1>6. ASSUME NEW k \in Msg PROVE
        /\ AtMostOne(k)' /\ frees'[k] \in {0, 1}
        /\ pc'[k] = "new" => frees'[k] = 0
        /\ pc'[k] = "new" \/ frees'[k] = 1 => NoWalker(k)' /\ NotQueued(k)'
        /\ pc'[k] # "new" /\ frees'[k] = 0 => ~NoWalker(k)' \/ ~NotQueued(k)'
    <2>1. /\ AtMostOne(k) /\ frees[k] \in {0, 1} /\ k \in Threads
          /\ pc[k] = "new" => frees[k] = 0
          /\ pc[k] = "new" \/ frees[k] = 1 => NoWalker(k) /\ NotQueued(k)
          /\ pc[k] # "new" /\ frees[k] = 0 => ~NoWalker(k) \/ ~NotQueued(k)
        BY DEF IInv, Held, Threads
    <2>2. NotQueued(k)' <=> NotQueued(k) BY <1>2 DEF NotQueued
    <2>3. CASE k = m
        BY <1>1, <1>2, <1>5, <2>1, <2>2, <2>3
        DEF IInv, Shape, AtMostOne, NoWalker, NotQueued
    <2>4. CASE k # m
        <3>1. \A u \in Threads : Walks(u, k)' <=> Walks(u, k) BY <1>5, <2>4
        <3>2. NoWalker(k)' <=> NoWalker(k) BY <3>1 DEF NoWalker
        <3>3. AtMostOne(k)' BY <1>2, <2>1, <2>2, <3>1, <3>2 DEF AtMostOne
        <3>4. pc'[k] = pc[k] /\ frees'[k] = frees[k] BY <1>2, <2>1, <2>4 DEF IInv, Shape
        <3> QED BY <2>1, <2>2, <3>2, <3>3, <3>4
    <2> QED BY <2>3, <2>4
<1>7. Held' BY <1>6 DEF Held
<1> QED BY <1>3, <1>4, <1>7 DEF IInv

\* SetLevel, join and stuttering.
LEMMA QuietStep ==
    ASSUME IInv, UNCHANGED <<pc, todo, del, queue, next, frees>>,
           DOMAIN logger' = 1 .. N /\ \A i \in 1 .. N : logger'[i] \in Node(i)
    PROVE  IInv'
<1>1. Shape' BY DEF IInv, Shape
<1>2. Travel' BY DEF IInv, Travel
<1>3. Held'
    <2>1. \A t \in Threads, m \in Msg : Walks(t, m)' <=> Walks(t, m) BY DEF Walks, Entry
    <2> QED BY <2>1, HoldersKept DEF IInv
<1> QED BY <1>1, <1>2, <1>3 DEF IInv

\* The inductive step.
LEMMA NextInv == IInv /\ [Next]_vars => IInv'
<1> SUFFICES ASSUME IInv, [Next]_vars PROVE IInv' OBVIOUS
<1>1. ASSUME NEW t \in Threads, Call(t) PROVE IInv'
    BY <1>1, CallStep, EnqueueStep, SentStep, AfterwardsStep DEF Call
<1>2. ASSUME NEW m \in Msg, Flush(m) \/ Call(m) PROVE IInv'
    BY <1>1, <1>2, FlushStep DEF Threads
<1>3. ASSUME NEW b \in Background,
             Work(b) \/ WakeSpuriously(b) \/ Stop(b) \/ Destroy(b) \/ Joined(b)
      PROVE  IInv'
    <2>1. b \in 1 .. N /\ b \in Threads BY DEF Background, Threads
    <2>2. CASE Work(b) \/ WakeSpuriously(b)
        BY <1>1, <2>1, <2>2, SleepStep, PopStep DEF Work
    <2>3. CASE Stop(b) \/ Destroy(b) BY <2>1, <2>3, DummyPushed DEF Stop, Destroy
    <2>4. CASE Joined(b) BY <2>4, QuietStep DEF Joined, IInv, Shape
    <2> QED BY <1>3, <2>2, <2>3, <2>4
<1>4. ASSUME NEW i \in 1 .. N, NEW m \in Msg, SetLevel(i, LevelOf[m]) PROVE IInv'
    <2>1. LevelOf[m] \in Nat BY GraphAssumption
    <2>2. DOMAIN logger' = 1 .. N /\ \A j \in 1 .. N : logger'[j] \in Node(j)
        BY <1>4, <2>1 DEF IInv, Shape, SetLevel, Node
    <2> QED BY <1>4, <2>2, QuietStep DEF SetLevel
<1>5. CASE UNCHANGED vars BY <1>5, QuietStep DEF vars, IInv, Shape
<1> QED BY <1>2, <1>3, <1>4, <1>5 DEF Next

\* In every reachable state a message is with one thread or in one place of one
\* queue, until it is deleted.
THEOREM Invariance == Spec => []IInv
<1> QED BY InitInv, NextInv, PTL DEF Spec

\* No message is leaked or deleted twice, through any graph of loggers.
THEOREM HeldCorrect == Spec => []HeldOnce
<1>1. IInv => HeldOnce
    <2>1. SUFFICES ASSUME IInv, NEW m \in Msg
                   PROVE  Cardinality(Holders(m)) = IF pc[m] = "new" THEN 0 ELSE 1 - frees[m]
        BY DEF HeldOnce
    <2>2. /\ AtMostOne(m) /\ frees[m] \in {0, 1}
          /\ pc[m] = "new" \/ frees[m] = 1 => NoWalker(m) /\ NotQueued(m)
          /\ pc[m] # "new" /\ frees[m] = 0 => ~NoWalker(m) \/ ~NotQueued(m)
        BY <2>1 DEF IInv, Held
    <2>3. \A h : h \in Holders(m) <=>
            \/ \E t \in Threads : Walks(t, m) /\ h = <<t, 0>>
            \/ \E b \in 1 .. N : \E i \in DOMAIN queue[b] : queue[b][i] = m /\ h = <<b, i>>
        BY DEF Holders, Walks
    <2>4. CASE pc[m] = "new" \/ frees[m] = 1
        <3>1. Holders(m) = {} BY <2>2, <2>3, <2>4 DEF NoWalker, NotQueued
        <3> QED BY <2>4, <3>1, FS_EmptySet
    <2>5. CASE pc[m] # "new" /\ frees[m] = 0
        <3>1. \E h : Holders(m) = {h}
            <4>1. CASE ~NoWalker(m)
                <5>1. PICK t \in Threads : Walks(t, m) BY <4>1 DEF NoWalker
                <5>2. Holders(m) = {<<t, 0>>}
                    BY <2>2, <2>3, <4>1, <5>1 DEF AtMostOne, NotQueued
                <5> QED BY <5>2
            <4>2. CASE NoWalker(m)
                <5>0. PICK b \in 1 .. N : \E i \in DOMAIN queue[b] : queue[b][i] = m
                    BY <2>2, <2>5, <4>2 DEF NotQueued
                <5>1. PICK i \in DOMAIN queue[b] : queue[b][i] = m BY <5>0
                <5>2. Holders(m) = {<<b, i>>}
                    BY <2>2, <2>3, <4>2, <5>1 DEF AtMostOne, NoWalker
                <5> QED BY <5>2
            <4> QED BY <4>1, <4>2
        <3>2. PICK h : Holders(m) = {h} BY <3>1
        <3>3. Cardinality({h}) = 1 BY FS_Singleton
        <3> QED BY <2>5, <3>2, <3>3
    <2> QED BY <2>2, <2>4, <2>5
<1> QED BY <1>1, Invariance, PTL

\* The first logger that keeps a message is the last that is called with it, so no
\* logger is called with one that has been deleted.
THEOREM UseCorrect == Spec => []NoUseAfterFree
<1>1. IInv => NoUseAfterFree
    <2>1. SUFFICES ASSUME IInv, NEW t \in Threads, pc[t] = "send", todo[t] # <<>>
                   PROVE  frees[Entry(t)] = 0
        BY DEF NoUseAfterFree
    <2>2. Entry(t) \in Msg BY <2>1, EntrySent
    <2>3. Walks(t, Entry(t)) BY <2>1 DEF IInv, Travel, Walks
    <2> QED BY <2>1, <2>2, <2>3 DEF IInv, Held, NoWalker
<1> QED BY <1>1, Invariance, PTL

-----------------------------------------------------------------------------
(* Dummy items, and the types.                                             *)

\* The dummy item is not in the queue of b.
NoDummy(b) == \A i \in DOMAIN queue[b] : queue[b][i] # b

\* The types of what was passed on and written.
Logged ==
    /\ owner \in [1 .. N -> {"open", "joining", "stopped", "destroying", "gone"}]
    /\ forwarded \in [1 .. N -> Seq(Msg)] /\ written \in [1 .. N -> Seq(Msg)]

\* Stop and the destructor push the dummy, and its thread ends with it: until then
\* it is in the queue or in the thread's hands, and it is deleted at most once.
Dummies ==
    \A b \in 1 .. N :
        /\ owner[b] = "open" => next[b] # b /\ NoDummy(b)
        /\ owner[b] \in {"joining", "destroying"} => next[b] = b \/ ~NoDummy(b)
        /\ owner[b] \in {"stopped", "gone"} => pc[b] = "ended"
        /\ next[b] = b => pc[b] \in {"decide", "ended"}
        /\ pc[b] = "ended" => next[b] = b
        /\ frees[b] \in {0, 1} /\ (pc[b] # "ended" => frees[b] = 0)

\* What is added to IInv for the dummy items.
DInv == Logged /\ Dummies

\* Initially no queue holds a dummy.
LEMMA InitDummies == Init => DInv
<1> SUFFICES ASSUME Init PROVE DInv OBVIOUS
<1>1. \A b \in 1 .. N : b \in Threads /\ b \notin Msg /\ b \in Items /\ b # None
    BY GraphAssumption DEF Threads, Items, None
<1>2. <<>> \in Seq(Msg) OBVIOUS
<1>3. Logged BY <1>2 DEF Init, Logged
<1>4. Dummies BY <1>1 DEF Init, Dummies, NoDummy
<1> QED BY <1>3, <1>4 DEF DInv

\* Only messages are passed on or written.
LEMMA LoggedStep ==
    ASSUME IInv, Logged, [Next]_vars
    PROVE  Logged'
<1>1. ASSUME NEW t \in Threads, WriteStream(t) PROVE Logged'
    <2>1. pc[t] = "send" /\ todo[t] # <<>> /\ todo[t] \in Seq(1 .. N)
        BY <1>1 DEF IInv, Shape, WriteStream, Calls
    <2>2. Head(todo[t]) \in 1 .. N /\ Entry(t) \in Msg BY <2>1, Dropped, EntrySent
    <2>3. Append(written[Head(todo[t])], Entry(t)) \in Seq(Msg) BY <2>2, Appended DEF Logged
    <2> QED BY <1>1, <2>3 DEF WriteStream, Logged
<1>2. ASSUME NEW t \in Threads, Sent(t) PROVE Logged'
    <2>1. CASE t \in Msg BY <1>2, <2>1 DEF Sent, Logged
    <2>2. CASE t \notin Msg
        <3>1. t \in 1 .. N /\ Entry(t) = next[t] /\ pc[t] = "send"
            BY <1>2, <2>2 DEF Sent, Threads, Entry
        <3>2. next[t] \in Msg BY <3>1, EntrySent
        <3>3. Append(forwarded[t], next[t]) \in Seq(Msg) BY <3>1, <3>2, Appended DEF Logged
        <3> QED BY <1>2, <2>2, <3>3 DEF Sent, Logged
    <2> QED BY <2>1, <2>2
<1>3. ASSUME NEW t \in Threads, Call(t) PROVE Logged'
    BY <1>1, <1>2, <1>3 DEF Call, Filter, Multiplex, Enqueue, Afterwards, Logged
<1>4. ASSUME NEW m \in Msg, Flush(m) \/ Call(m) PROVE Logged'
    BY <1>3, <1>4 DEF Flush, Logged, Threads
<1>5. ASSUME NEW b \in Background,
             Work(b) \/ WakeSpuriously(b) \/ Stop(b) \/ Destroy(b) \/ Joined(b)
      PROVE  Logged'
    <2>1. b \in 1 .. N /\ b \in Threads BY DEF Background, Threads
    <2>2. CASE Call(b) BY <1>3, <2>1, <2>2
    <2>3. CASE Sleep(b) \/ Pop(b) \/ WakeSpuriously(b)
        BY <2>3 DEF Sleep, Pop, WakeSpuriously, Logged
    <2>4. CASE Stop(b) \/ Destroy(b) \/ Joined(b)
        BY <2>4 DEF Stop, Destroy, Joined, Logged
    <2> QED BY <1>5, <2>2, <2>3, <2>4 DEF Work
<1>6. ASSUME NEW i \in 1 .. N, NEW m \in Msg, SetLevel(i, LevelOf[m]) PROVE Logged'
    BY <1>6 DEF SetLevel, Logged
<1>7. CASE UNCHANGED vars BY <1>7 DEF vars, Logged
<1> QED BY <1>4, <1>5, <1>6, <1>7 DEF Next

\* A push onto a queue wakes its thread, and nothing else moves.
LEMMA Pushed ==
    ASSUME IInv, NEW b \in 1 .. N, NEW x \in Items, Push(b, x)
    PROVE  /\ \A c \in 1 .. N : c # b => queue'[c] = queue[c]
           /\ queue[b] \in Seq(Items) /\ queue'[b] = Append(queue[b], x)
           /\ \A t \in Threads : pc'[t] = pc[t] \/ (t = b /\ pc[t] = "asleep" /\ pc'[t] = "pop")
           /\ \A i \in DOMAIN queue[b] : i \in DOMAIN queue'[b] /\ queue'[b][i] = queue[b][i]
           /\ Len(queue[b]) + 1 \in DOMAIN queue'[b] /\ queue'[b][Len(queue[b]) + 1] = x
           /\ \A i \in DOMAIN queue'[b] : i \in DOMAIN queue[b] \/ i = Len(queue[b]) + 1
<1>1. queue[b] \in Seq(Items) /\ queue' = [queue EXCEPT ![b] = Append(queue[b], x)]
    BY DEF IInv, Shape, Push
<1>2. (\A c \in 1 .. N : c # b => queue'[c] = queue[c]) /\ queue'[b] = Append(queue[b], x)
    BY <1>1 DEF IInv, Shape
<1>3. \A t \in Threads : pc'[t] = pc[t] \/ (t = b /\ pc[t] = "asleep" /\ pc'[t] = "pop")
    BY DEF IInv, Shape, Push
<1>4. /\ DOMAIN queue[b] = 1 .. Len(queue[b]) /\ Len(queue[b]) \in Nat
      /\ DOMAIN queue'[b] = 1 .. (Len(queue[b]) + 1)
      /\ queue'[b][Len(queue[b]) + 1] = x
      /\ \A i \in DOMAIN queue[b] : queue'[b][i] = queue[b][i]
    BY <1>1, <1>2, Appended
<1> QED BY <1>1, <1>2, <1>3, <1>4

\* Every step keeps the account of the dummy items.
LEMMA DummiesStep ==
    ASSUME IInv, IInv', DInv, [Next]_vars
    PROVE  Dummies'
<1>0. \A b \in 1 .. N : b \in Threads /\ b \notin Msg /\ b \in Items /\ b # None
    BY GraphAssumption DEF Threads, Items, None
<1>a. ASSUME UNCHANGED <<queue, next, owner, frees>>,
             \A c \in 1 .. N : pc'[c] = "ended" <=> pc[c] = "ended",
             \A c \in 1 .. N : pc[c] = "decide" => pc'[c] = "decide"
      PROVE  Dummies'
    BY <1>a DEF DInv, Dummies, NoDummy
<1>1. ASSUME NEW t \in Threads, WriteStream(t) \/ Filter(t) \/ Multiplex(t) PROVE Dummies'
    BY <1>1, <1>a DEF WriteStream, Filter, Multiplex
<1>2. ASSUME NEW t \in Threads, Enqueue(t) PROVE Dummies'
    <2>1. pc[t] = "send" /\ todo[t] # <<>> /\ todo[t] \in Seq(1 .. N)
        BY <1>2 DEF IInv, Shape, Enqueue, Calls
    <2>a. PICK b \in 1 .. N : b = Head(todo[t]) BY <2>1, Dropped
    <2>b. PICK e \in Msg : e = Entry(t) BY <2>1, EntrySent
    <2>2. b \in 1 .. N /\ e \in Msg /\ e \in Items BY DEF Items
    <2>3. Push(b, e) /\ UNCHANGED <<next, owner, frees>> BY <1>2, <2>a, <2>b DEF Enqueue
    <2>4. \A c \in 1 .. N : NoDummy(c)' <=> NoDummy(c)
        <3>1. ASSUME NEW c \in 1 .. N, c # b PROVE NoDummy(c)' <=> NoDummy(c)
            <4>1. queue'[c] = queue[c] BY <2>2, <2>3, <3>1, Pushed
            <4> QED BY <4>1 DEF NoDummy
        <3>2. NoDummy(b)' <=> NoDummy(b)
            <4>1. /\ \A i \in DOMAIN queue[b] : i \in DOMAIN queue'[b] /\ queue'[b][i] = queue[b][i]
                  /\ queue'[b][Len(queue[b]) + 1] = e
                  /\ \A i \in DOMAIN queue'[b] : i \in DOMAIN queue[b] \/ i = Len(queue[b]) + 1
                BY <2>2, <2>3, Pushed
            <4>2. e # b BY <1>0, <2>2
            <4> QED BY <4>1, <4>2 DEF NoDummy
        <3>3. ASSUME NEW c \in 1 .. N PROVE NoDummy(c)' <=> NoDummy(c)
            <4>1. CASE c = b BY <3>2, <4>1
            <4> QED BY <3>1, <4>1
        <3> QED BY <3>3
    <2>5. \A c \in 1 .. N : pc'[c] = pc[c] \/ (pc[c] = "asleep" /\ pc'[c] = "pop")
        BY <1>0, <2>2, <2>3, Pushed
    <2> QED BY <2>3, <2>4, <2>5 DEF DInv, Dummies
<1>3. ASSUME NEW t \in Threads, Sent(t) PROVE Dummies'
    <2>1. \A u \in Threads : pc'[u] = pc[u] \/ (pc[u] = "send" /\ pc'[u] = "decide")
        BY <1>3 DEF IInv, Shape, Sent
    <2> QED BY <1>0, <1>3, <1>a, <2>1 DEF Sent
<1>4. ASSUME NEW t \in Threads, Afterwards(t) PROVE Dummies'
    <2> DEFINE e == Entry(t)
    <2>1. pc[t] = "decide" /\ e \in Items /\ (e \in Msg \/ e = t)
        BY <1>4 DEF IInv, Shape, Travel, Afterwards, Entry, Threads, Items
    <2>2. /\ frees' = [frees EXCEPT ![e] = IF del[t] THEN @ + 1 ELSE @]
          /\ pc' = [pc EXCEPT ![t] = IF e = t THEN "ended" ELSE "pop"]
          /\ UNCHANGED <<queue, next, owner>>
        BY <1>4 DEF Afterwards
    <2>3. t \in 1 .. N => e = next[t] BY <1>0 DEF Entry
    <2> HIDE DEF e
    <2>4. ASSUME NEW c \in 1 .. N, c # t
          PROVE  pc'[c] = pc[c] /\ frees'[c] = frees[c]
        BY <1>0, <2>1, <2>2, <2>4 DEF IInv, Shape
    <2>5. ASSUME t \in 1 .. N
          PROVE  /\ pc'[t] = (IF next[t] = t THEN "ended" ELSE "pop")
                 /\ frees'[t] \in {0, 1}
                 /\ pc'[t] # "ended" => frees'[t] = 0
        <3>1. pc'[t] = IF next[t] = t THEN "ended" ELSE "pop" BY <2>2, <2>3, <2>5 DEF IInv, Shape
        <3>2. frees[t] = 0 BY <2>1, <2>5 DEF DInv, Dummies
        <3>3. frees'[t] \in {0, 1} /\ (next[t] # t => frees'[t] = 0)
            BY <1>0, <2>2, <2>3, <2>5, <3>2 DEF IInv, Shape
        <3> QED BY <3>1, <3>3
    <2>6. ASSUME NEW c \in 1 .. N PROVE
            /\ owner'[c] = "open" => next'[c] # c /\ NoDummy(c)'
            /\ owner'[c] \in {"joining", "destroying"} => next'[c] = c \/ ~NoDummy(c)'
            /\ owner'[c] \in {"stopped", "gone"} => pc'[c] = "ended"
            /\ next'[c] = c => pc'[c] \in {"decide", "ended"}
            /\ pc'[c] = "ended" => next'[c] = c
            /\ frees'[c] \in {0, 1} /\ (pc'[c] # "ended" => frees'[c] = 0)
        <3>1. NoDummy(c)' <=> NoDummy(c) BY <2>2 DEF NoDummy
        <3>2. CASE c # t BY <2>2, <2>4, <3>1, <3>2 DEF DInv, Dummies
        <3>3. CASE c = t
            <4>1. owner[c] \notin {"stopped", "gone"} BY <2>1, <3>3 DEF DInv, Dummies
            <4> QED BY <2>2, <2>5, <3>1, <3>3, <4>1 DEF DInv, Dummies
        <3> QED BY <3>2, <3>3
    <2> QED BY <2>6 DEF Dummies
<1>5. ASSUME NEW t \in Threads, Call(t) PROVE Dummies'
    BY <1>1, <1>2, <1>3, <1>4, <1>5 DEF Call
<1>6. ASSUME NEW m \in Msg, Flush(m) PROVE Dummies'
    <2>1. ASSUME NEW c \in 1 .. N PROVE pc'[c] = pc[c]
        <3>1. c # m /\ c \in Threads BY <1>0
        <3> QED BY <1>6, <3>1 DEF Flush, IInv, Shape
    <2> QED BY <1>6, <1>a, <2>1 DEF Flush
<1>7. ASSUME NEW b \in 1 .. N, Sleep(b) \/ WakeSpuriously(b) PROVE Dummies'
    <2>1. \A u \in Threads : \/ pc'[u] = pc[u]
                             \/ pc[u] \in {"pop", "asleep"} /\ pc'[u] \in {"pop", "asleep"}
        BY <1>7, <1>0 DEF IInv, Shape, Sleep, WakeSpuriously
    <2> QED BY <1>0, <1>7, <1>a, <2>1 DEF Sleep, WakeSpuriously
<1>8. ASSUME NEW b \in 1 .. N, Pop(b) PROVE Dummies'
    <2> DEFINE item == Head(queue[b])
    <2>1. queue[b] \in Seq(Items) /\ queue[b] # <<>> /\ pc[b] = "pop"
        BY <1>8 DEF IInv, Shape, Pop
    <2>2. item \in Msg \cup {b} BY <2>1, Dropped DEF IInv, Travel
    <2>3. /\ \A c \in 1 .. N : c # b => queue'[c] = queue[c] /\ next'[c] = next[c] /\ pc'[c] = pc[c]
          /\ queue'[b] = Tail(queue[b]) /\ next'[b] = item
          /\ pc'[b] = IF item = b THEN "decide" ELSE "send"
          /\ UNCHANGED <<owner, frees>>
        BY <1>0, <1>8 DEF IInv, Shape, Pop
    <2>4. \A c \in 1 .. N : c # b => (NoDummy(c)' <=> NoDummy(c)) BY <2>3 DEF NoDummy
    <2>5. /\ NoDummy(b) => NoDummy(b)' /\ item # b
          /\ NoDummy(b)' /\ item # b => NoDummy(b)
        <3>1. /\ 1 \in DOMAIN queue[b] /\ queue[b][1] = item
              /\ \A i \in DOMAIN queue'[b] : i + 1 \in DOMAIN queue[b]
                                              /\ queue'[b][i] = queue[b][i + 1]
              /\ \A i \in DOMAIN queue[b] :
                    i = 1 \/ (i - 1 \in DOMAIN queue'[b] /\ queue'[b][i - 1] = queue[b][i])
            BY <2>1, <2>3, Dropped
        <3> QED BY <3>1 DEF NoDummy
    <2> HIDE DEF item
    <2> QED BY <2>1, <2>3, <2>4, <2>5 DEF DInv, Dummies
<1>9. ASSUME NEW b \in 1 .. N, Push(b, b), UNCHANGED <<next, frees>>,
             \/ owner[b] = "open" /\ owner'[b] \in {"joining", "destroying"}
             \/ owner[b] = "stopped" /\ owner'[b] = "gone",
             \A c \in 1 .. N : c # b => owner'[c] = owner[c]
      PROVE  Dummies'
    <2>1. \A c \in 1 .. N : c # b => (NoDummy(c)' <=> NoDummy(c)) BY <1>0, <1>9, Pushed DEF NoDummy
    <2>2. ~NoDummy(b)' BY <1>0, <1>9, Pushed DEF NoDummy
    <2>3. \A c \in 1 .. N : pc'[c] = pc[c] \/ (pc[c] = "asleep" /\ pc'[c] = "pop")
        BY <1>0, <1>9, Pushed
    <2> QED BY <1>9, <2>1, <2>2, <2>3 DEF DInv, Dummies
<1>10. ASSUME NEW b \in 1 .. N, Joined(b) PROVE Dummies'
    <2>1. pc[b] = "ended" /\ \A c \in 1 .. N : c # b => owner'[c] = owner[c]
        BY <1>10 DEF Joined, DInv, Logged
    <2>2. owner'[b] \in {"stopped", "gone"} BY <1>10 DEF Joined, DInv, Logged
    <2>3. \A c \in 1 .. N : NoDummy(c)' <=> NoDummy(c) BY <1>10 DEF Joined, NoDummy
    <2> QED BY <1>10, <2>1, <2>2, <2>3 DEF Joined, DInv, Dummies
<1>11. ASSUME NEW b \in 1 .. N, Stop(b) \/ Destroy(b) PROVE Dummies'
    BY <1>9, <1>11 DEF Stop, Destroy, DInv, Logged
<1>12. ASSUME NEW i \in 1 .. N, NEW m \in Msg, SetLevel(i, LevelOf[m]) PROVE Dummies'
    BY <1>12, <1>a DEF SetLevel
<1>13. CASE UNCHANGED vars BY <1>13, <1>a DEF vars
<1>14. ASSUME NEW b \in Background,
              Work(b) \/ WakeSpuriously(b) \/ Stop(b) \/ Destroy(b) \/ Joined(b)
       PROVE  Dummies'
    BY <1>0, <1>5, <1>7, <1>8, <1>10, <1>11, <1>14 DEF Work, Background
<1> QED BY <1>5, <1>6, <1>12, <1>13, <1>14 DEF Next, Threads

\* Both invariants hold always.
LEMMA DInvariance == Spec => [](IInv /\ DInv)
<1>1. IInv /\ DInv /\ [Next]_vars => DInv'
    <2> SUFFICES ASSUME IInv, DInv, [Next]_vars PROVE DInv' OBVIOUS
    <2>1. IInv' BY NextInv
    <2>2. Logged' BY LoggedStep DEF DInv
    <2>3. Dummies' BY <2>1, DummiesStep
    <2> QED BY <2>2, <2>3 DEF DInv
<1> QED BY InitInv, InitDummies, NextInv, <1>1, PTL DEF Spec

\* Every variable has its type, nothing is deleted twice, and a thread that calls
\* nobody is at rest, in every graph of loggers.
THEOREM TypeCorrect == Spec => []TypeOK
<1>1. IInv /\ DInv => TypeOK
    <2> SUFFICES ASSUME IInv, DInv PROVE TypeOK OBVIOUS
    <2>1. \A i \in Items : frees[i] \in 0 .. 1
        BY DEF IInv, Held, DInv, Dummies, Items
    <2>2. frees \in [Items -> 0 .. 1] BY <2>1 DEF IInv, Shape
    <2>3. \A t \in Threads : /\ pc[t] \in {"new", "pop", "asleep", "send", "decide", "ended"}
                             /\ pc[t] # "send" => todo[t] = <<>>
        BY DEF IInv, Shape, Travel, Step
    <2> QED BY <2>2, <2>3 DEF TypeOK, IInv, Shape, DInv, Logged
<1> QED BY <1>1, DInvariance, PTL

-----------------------------------------------------------------------------
(* Who was told no: what every background thread's deleteMessage means.     *)

\* Logger c has taken m over.
Has(c, m) == m \in ToSet(queue[c]) \cup ToSet(forwarded[c]) \cup {next[c]}

\* A background thread calls only loggers that were built before its own.
Below == \A b \in 1 .. N : \A i \in DOMAIN todo[b] : todo[b][i] < b

\* The message that the flag of b is about.
Subject(b) ==
    IF pc[b] = "send" THEN next[b] ELSE IF forwarded[b] = <<>> THEN None ELSE Last(forwarded[b])

\* Between two messages, the flag says what became of the last one.
Settled ==
    \A b \in 1 .. N :
        pc[b] # "send" =>
            /\ next[b] \in Msg => Subject(b) = next[b]
            /\ \A m \in Msg :
                  Subject(b) = m /\ del[b] => frees[m] = 1 \/ (pc[b] = "decide" /\ next[b] = m)

\* A background logger below b has taken m over.
HandedOn(b, m) ==
    \E c \in Background : c < b /\ m \in ToSet(queue[c]) \cup ToSet(forwarded[c]) \cup {next[c]}

\* What becomes of the dummy item: deleted by the loop, once, unless the last
\* message was kept by a logger below; its deleteMessage is still there then.
DummyFreedUnlessKept ==
    \A b \in Background :
        pc[b] = "ended" =>
            frees[b] = IF forwarded[b] # <<>> /\ HandedOn(b, Last(forwarded[b])) THEN 0 ELSE 1

\* A message that is new, or walks on its own thread, has been taken over nowhere;
\* one that is queued, nowhere below.
Untouched ==
    /\ \A m \in Msg : pc[m] = "new" => \A c \in 1 .. N : ~Has(c, m)
    /\ \A t, m \in Msg : Walks(t, m) => \A c \in 1 .. N : ~Has(c, m)
    /\ \A b \in 1 .. N, m \in Msg : m \in ToSet(queue[b]) => ~HandedOn(b, m)

\* The flag of a background thread says whether a logger below has taken the
\* message over, and the dummy is deleted as the flag says.
Told ==
    \A b \in 1 .. N :
        /\ Subject(b) = None => del[b]
        /\ \A m \in Msg : Subject(b) = m => (del[b] <=> ~HandedOn(b, m))
        /\ pc[b] = "ended" => frees[b] = IF del[b] THEN 1 ELSE 0

\* The inductive invariant of DummyFreedUnlessKept, on top of IInv and DInv.
KInv == Below /\ Settled /\ Untouched /\ Told

\* HandedOn in terms of Has.
LEMMA HandedIs ==
    ASSUME NEW b, NEW m
    PROVE  HandedOn(b, m) <=> \E c \in Background : c < b /\ Has(c, m)
BY DEF HandedOn, Has

\* The last element of a sequence.
LEMMA LastOf ==
    ASSUME NEW T, NEW s \in Seq(T)
    PROVE  /\ s # <<>> => Last(s) \in T /\ \E i \in DOMAIN s : s[i] = Last(s)
           /\ \A x \in T : Append(s, x) # <<>> /\ Last(Append(s, x)) = x
<1>1. ASSUME s # <<>> PROVE Last(s) \in T /\ \E i \in DOMAIN s : s[i] = Last(s)
    <2>1. Len(s) \in DOMAIN s /\ s[Len(s)] \in T BY <1>1
    <2> QED BY <2>1 DEF Last
<1>2. ASSUME NEW x \in T PROVE Append(s, x) # <<>> /\ Last(Append(s, x)) = x
    <2>1. Len(Append(s, x)) = Len(s) + 1 /\ Append(s, x)[Len(s) + 1] = x /\ Append(s, x) # <<>>
        OBVIOUS
    <2> QED BY <2>1 DEF Last
<1> QED BY <1>1, <1>2

\* The elements of an appended sequence.
LEMMA SetOfAppend ==
    ASSUME NEW T, NEW s \in Seq(T), NEW x \in T
    PROVE  ToSet(Append(s, x)) = ToSet(s) \cup {x}
<1>1. /\ DOMAIN s = 1 .. Len(s) /\ Len(s) \in Nat
      /\ DOMAIN Append(s, x) = 1 .. (Len(s) + 1)
      /\ Append(s, x)[Len(s) + 1] = x
      /\ \A i \in DOMAIN s : Append(s, x)[i] = s[i]
    BY Appended
<1> QED BY <1>1 DEF ToSet

\* The elements of a tail.
LEMMA SetOfTail ==
    ASSUME NEW T, NEW s \in Seq(T), s # <<>>
    PROVE  ToSet(s) = ToSet(Tail(s)) \cup {Head(s)}
<1>1. ASSUME NEW x \in ToSet(s) PROVE x \in ToSet(Tail(s)) \cup {Head(s)}
    <2>1. PICK i \in DOMAIN s : s[i] = x BY DEF ToSet
    <2> QED BY <2>1, Dropped DEF ToSet
<1>2. ASSUME NEW x \in ToSet(Tail(s)) PROVE x \in ToSet(s)
    <2>1. PICK i \in DOMAIN Tail(s) : Tail(s)[i] = x BY <1>2 DEF ToSet
    <2>2. i + 1 \in DOMAIN s /\ s[i + 1] = x BY <2>1, Dropped
    <2> QED BY <2>2 DEF ToSet
<1>3. Head(s) \in ToSet(s)
    <2>1. 1 \in DOMAIN s /\ s[1] = Head(s) BY Dropped
    <2> QED BY <2>1 DEF ToSet
<1> QED BY <1>1, <1>2, <1>3

\* KInv holds initially.
LEMMA InitKeeps == Init => KInv
<1> SUFFICES ASSUME Init PROVE KInv OBVIOUS
<1>1. \A b \in 1 .. N : b \in Threads /\ b \notin Msg BY GraphAssumption DEF Threads
<1>2. \A b \in 1 .. N : /\ pc[b] = "pop" /\ todo[b] = <<>> /\ del[b] /\ queue[b] = <<>>
                        /\ next[b] = None /\ forwarded[b] = <<>>
    BY <1>1 DEF Init
<1>3. None \notin Msg BY GraphAssumption DEF None
<1>4. \A c \in 1 .. N, m \in Msg : ~Has(c, m) BY <1>2, <1>3 DEF Has, ToSet
<1>5. Below BY <1>2 DEF Below
<1>6. Settled BY <1>2, <1>3 DEF Settled, Subject
<1>7. Untouched
    <2>1. \A t \in Msg : pc[t] = "new" BY DEF Init, Threads
    <2>2. \A b \in 1 .. N : ToSet(queue[b]) = {} BY <1>2 DEF ToSet
    <2> QED BY <1>2, <1>4, <2>1, <2>2 DEF Untouched, Walks
<1>8. Told BY <1>2, <1>3 DEF Told, Subject
<1> QED BY <1>5, <1>6, <1>7, <1>8 DEF KInv

-----------------------------------------------------------------------------
(* The steps that hand no message over.                                    *)

\* Messages, loggers and None are told apart by their names.
LEMMA Names ==
    /\ \A b \in 1 .. N : b \in Threads /\ b \notin Msg /\ b \in Items /\ b \in Nat
    /\ \A m \in Msg : m \in Threads /\ m \in Items /\ m # None
BY GraphAssumption DEF Threads, Items, None

\* A step that moves no message hands none on.
LEMMA HandedKept ==
    ASSUME Background' = Background,
           \A c \in 1 .. N, m \in Msg : Has(c, m)' <=> Has(c, m)
    PROVE  \A b \in 1 .. N, m \in Msg : HandedOn(b, m)' <=> HandedOn(b, m)
<1> SUFFICES ASSUME NEW b \in 1 .. N, NEW m \in Msg
             PROVE  HandedOn(b, m)' <=> HandedOn(b, m)
    OBVIOUS
<1>1. HandedOn(b, m) <=> \E c \in Background : c < b /\ Has(c, m) BY HandedIs
<1>2. HandedOn(b, m)' <=> \E c \in Background' : c < b /\ Has(c, m)' BY DEF HandedOn, Has
<1>3. \A c \in Background : c \in 1 .. N BY DEF Background
<1> QED BY <1>1, <1>2, <1>3

\* A step after which every logger has the messages it had.
LEMMA QuietKeeps ==
    ASSUME IInv, DInv, KInv, UNCHANGED <<del, next, frees, forwarded>>,
           Background' = Background, Below',
           \A c \in 1 .. N, m \in Msg : m \in ToSet(queue'[c]) <=> m \in ToSet(queue[c]),
           \A b \in 1 .. N : \/ pc'[b] = pc[b]
                             \/ pc[b] \in {"asleep", "pop"} /\ pc'[b] \in {"asleep", "pop"},
           \A m \in Msg : pc'[m] = pc[m] \/ (pc[m] = "send" /\ pc'[m] = "decide")
    PROVE  KInv'
<1>1. \A c \in 1 .. N, m \in Msg : Has(c, m)' <=> Has(c, m) BY DEF Has
<1>2. \A b \in 1 .. N, m \in Msg : HandedOn(b, m)' <=> HandedOn(b, m) BY <1>1, HandedKept
<1>3. \A b \in 1 .. N : Subject(b)' = Subject(b) BY DEF Subject
<1>4. Settled' BY <1>3 DEF KInv, Settled
<1>5. \A t, m \in Msg : Walks(t, m)' => Walks(t, m) BY DEF Walks, Entry
<1>6. Untouched'
    <2>1. \A m \in Msg : pc'[m] = "new" => pc[m] = "new" OBVIOUS
    <2> QED BY <1>1, <1>2, <1>5, <2>1 DEF KInv, Untouched
<1>7. Told' BY <1>2, <1>3 DEF KInv, Told
<1> QED BY <1>4, <1>6, <1>7 DEF KInv

\* A logger that forwards within the thread.
LEMMA CallKeeps ==
    ASSUME IInv, DInv, KInv, NEW t \in Threads, WriteStream(t) \/ Filter(t) \/ Multiplex(t)
    PROVE  KInv'
<1>1. pc[t] = "send" /\ todo[t] # <<>> /\ todo[t] \in Seq(1 .. N)
    BY DEF IInv, Shape, WriteStream, Filter, Multiplex, Calls
<1>2. PICK h \in 1 .. N : h = Head(todo[t]) BY <1>1, Dropped
<1>3. Tail(todo[t]) \in Seq(1 .. N) BY <1>1, Dropped
<1>4. logger[h].to \in Seq(1 .. h - 1) /\ logger[h].to \in Seq(1 .. N)
    BY Forwards DEF IInv, Shape, Node
<1>5. UNCHANGED <<logger, pc, del, queue, next, frees, forwarded>>
        /\ \/ todo' = [todo EXCEPT ![t] = Tail(@)]
           \/ todo' = [todo EXCEPT ![t] = logger[h].to \o Tail(@)]
    BY <1>2 DEF WriteStream, Filter, Multiplex
<1>6. Below'
    <2>1. ASSUME NEW b \in 1 .. N, b # t PROVE todo'[b] = todo[b]
        BY <1>5, <2>1, Names DEF IInv, Shape
    <2>2. ASSUME t \in 1 .. N, NEW i \in DOMAIN todo'[t] PROVE todo'[t][i] < t
        <3>1. h < t
            <4>1. 1 \in DOMAIN todo[t] /\ todo[t][1] = h BY <1>1, <1>2, Dropped
            <4> QED BY <2>2, <4>1 DEF KInv, Below
        <3>2. \A j \in DOMAIN Tail(todo[t]) : Tail(todo[t])[j] < t
            BY <1>1, <2>2, Dropped DEF KInv, Below
        <3>3. CASE todo'[t] = Tail(todo[t]) BY <2>2, <3>2, <3>3
        <3>4. CASE todo'[t] = logger[h].to \o Tail(todo[t])
            <4> DEFINE to == logger[h].to
                       rest == Tail(todo[t])
            <4>1. to \in Seq(1 .. N) /\ rest \in Seq(1 .. N) BY <1>3, <1>4
            <4>2. \A j \in DOMAIN to : to[j] < t
                <5>1. \A j \in DOMAIN to : to[j] \in 1 .. h - 1 BY <1>4
                <5> QED BY <2>2, <3>1, <5>1
            <4> HIDE DEF to, rest
            <4>3. /\ DOMAIN to = 1 .. Len(to) /\ DOMAIN rest = 1 .. Len(rest)
                  /\ DOMAIN (to \o rest) = 1 .. Len(to) + Len(rest)
                  /\ Len(to) \in Nat /\ Len(rest) \in Nat
                  /\ \A j \in 1 .. Len(to) + Len(rest) :
                        (to \o rest)[j] = IF j <= Len(to) THEN to[j] ELSE rest[j - Len(to)]
                BY <4>1
            <4>4. i \in 1 .. Len(to) + Len(rest) /\ todo'[t][i] = (to \o rest)[i]
                BY <2>2, <3>4, <4>3 DEF to, rest
            <4>5. CASE i <= Len(to)
                BY <4>2, <4>3, <4>4, <4>5
            <4>6. CASE ~(i <= Len(to))
                <5>1. i - Len(to) \in DOMAIN rest BY <4>3, <4>4, <4>6
                <5> QED BY <3>2, <4>3, <4>4, <4>6, <5>1 DEF rest
            <4> QED BY <4>5, <4>6
        <3> QED BY <1>5, <3>3, <3>4 DEF IInv, Shape
    <2> QED BY <2>1, <2>2 DEF KInv, Below
<1> QED BY <1>5, <1>6, QuietKeeps DEF Background

\* An empty queue puts its thread to sleep, and back.
LEMMA SleepKeeps ==
    ASSUME IInv, DInv, KInv, NEW b \in 1 .. N, Sleep(b) \/ WakeSpuriously(b)
    PROVE  KInv'
<1>1. \A u \in Threads : pc'[u] = pc[u] \/
          (u = b /\ pc[u] \in {"pop", "asleep"} /\ pc'[u] \in {"pop", "asleep"})
    BY Names DEF IInv, Shape, Sleep, WakeSpuriously
<1>2. UNCHANGED <<logger, todo, del, queue, next, frees, forwarded>>
    BY DEF Sleep, WakeSpuriously
<1>3. Below' BY <1>2 DEF KInv, Below
<1> QED BY <1>1, <1>2, <1>3, Names, QuietKeeps DEF Background

\* A dummy that is pushed is no message.
LEMMA DummyKeeps ==
    ASSUME IInv, DInv, KInv, NEW b \in 1 .. N, Push(b, b),
           UNCHANGED <<logger, todo, del, next, frees, forwarded>>
    PROVE  KInv'
<1>1. \A u \in Threads : pc'[u] = pc[u] \/ (u = b /\ pc[u] = "asleep" /\ pc'[u] = "pop")
    BY Names, Pushed
<1>2. \A c \in 1 .. N, m \in Msg : m \in ToSet(queue'[c]) <=> m \in ToSet(queue[c])
    <2>1. \A c \in 1 .. N : c # b => queue'[c] = queue[c] BY Names, Pushed
    <2>2. queue[b] \in Seq(Items) /\ queue'[b] = Append(queue[b], b) /\ b \in Items
        BY Names, Pushed
    <2>3. ToSet(queue'[b]) = ToSet(queue[b]) \cup {b} BY <2>2, SetOfAppend
    <2> QED BY <2>1, <2>3, Names
<1>3. Below' BY DEF KInv, Below
<1> QED BY <1>1, <1>2, <1>3, Names, QuietKeeps DEF Background

\* SetLevel leaves who forwards to whom.
LEMMA LevelKeeps ==
    ASSUME IInv, DInv, KInv, UNCHANGED <<pc, todo, del, queue, next, frees, forwarded>>,
           Background' = Background
    PROVE  KInv'
<1>1. Below' BY DEF KInv, Below
<1> QED BY <1>1, QuietKeeps

\* Has after Pop
LEMMA PopKeeps ==
    ASSUME IInv, DInv, KInv, NEW b \in 1 .. N, Pop(b)
    PROVE  KInv'
<1>1. b \in Threads /\ b \notin Msg /\ queue[b] \in Seq(Items) /\ queue[b] # <<>> /\ pc[b] = "pop"
    BY Names DEF IInv, Shape, Pop
<1>2. PICK item \in Msg \cup {b} : item = Head(queue[b]) BY <1>1, Dropped DEF IInv, Travel
<1>3. /\ \A c \in 1 .. N : c # b => queue'[c] = queue[c] /\ next'[c] = next[c]
      /\ \A u \in Threads : u # b => pc'[u] = pc[u] /\ del'[u] = del[u] /\ todo'[u] = todo[u]
      /\ queue'[b] = Tail(queue[b]) /\ next'[b] = item
      /\ UNCHANGED <<logger, frees, forwarded>>
    BY <1>1, <1>2 DEF IInv, Shape, Pop
<1>4. \/ item \in Msg /\ pc'[b] = "send" /\ todo'[b] = logger[b].to /\ del'[b]
      \/ item = b /\ pc'[b] = "decide" /\ todo'[b] = todo[b] /\ del'[b] = del[b]
    BY <1>1, <1>2 DEF IInv, Shape, Pop
<1>5. ToSet(queue[b]) = ToSet(queue'[b]) \cup {item} BY <1>1, <1>2, <1>3, SetOfTail
<1>6. \A c \in 1 .. N, m \in Msg : Has(c, m)' <=> Has(c, m)
    <2>1. \A c \in 1 .. N, m \in Msg : c # b => (Has(c, m)' <=> Has(c, m)) BY <1>3 DEF Has
    <2>2. next[b] \in Msg => next[b] \in ToSet(forwarded[b])
        <3> SUFFICES ASSUME next[b] \in Msg PROVE next[b] \in ToSet(forwarded[b]) OBVIOUS
        <3>1. Subject(b) = next[b] /\ next[b] # None BY <1>1, Names DEF KInv, Settled
        <3>2. forwarded[b] # <<>> /\ Last(forwarded[b]) = next[b] BY <1>1, <3>1 DEF Subject
        <3>3. forwarded[b] \in Seq(Msg) BY DEF DInv, Logged
        <3> QED BY <3>2, <3>3, LastOf DEF ToSet
    <2>3. \A m \in Msg : Has(b, m)' <=> Has(b, m) BY <1>3, <1>5, <2>2 DEF Has
    <2>4. ASSUME NEW c \in 1 .. N, NEW m \in Msg PROVE Has(c, m)' <=> Has(c, m)
        <3>1. CASE c = b BY <2>3, <3>1
        <3> QED BY <2>1, <3>1
    <2> QED BY <2>4
<1>7. Background' = Background BY <1>3 DEF Background
<1>8. \A c \in 1 .. N, m \in Msg : HandedOn(c, m)' <=> HandedOn(c, m)
    BY <1>6, <1>7, HandedKept
<1>9. \A c \in 1 .. N : c # b =>
         /\ pc'[c] = pc[c] /\ del'[c] = del[c] /\ todo'[c] = todo[c] /\ Subject(c)' = Subject(c)
    BY <1>3, Names DEF Subject
<1>10. Below'
    <2>1. \A i \in DOMAIN logger[b].to : logger[b].to[i] < b
        <3>1. logger[b].to \in Seq(1 .. b - 1) BY DEF IInv, Shape, Node
        <3>2. \A i \in DOMAIN logger[b].to : logger[b].to[i] \in 1 .. b - 1 BY <3>1
        <3> QED BY <3>2, Names
    <2>2. \A i \in DOMAIN todo'[b] : todo'[b][i] < b BY <1>4, <2>1 DEF KInv, Below
    <2> QED BY <1>9, <2>2 DEF KInv, Below
<1>11. Untouched'
    <2>1. \A m \in Msg : pc'[m] = pc[m] BY <1>1, <1>3, Names
    <2>2. \A t, m \in Msg : Walks(t, m)' <=> Walks(t, m)
        BY <1>1, <1>3, Names DEF Walks, Entry
    <2>3. \A c \in 1 .. N, m \in Msg : m \in ToSet(queue'[c]) => m \in ToSet(queue[c])
        BY <1>3, <1>5
    <2> QED BY <1>6, <1>8, <2>1, <2>2, <2>3 DEF KInv, Untouched
<1>12. CASE item \in Msg
    <2>1. pc'[b] = "send" /\ del'[b] /\ Subject(b)' = item BY <1>1, <1>3, <1>4, <1>12 DEF Subject
    <2>2. Settled' BY <1>3, <1>9, <2>1 DEF KInv, Settled
    <2>3. ~HandedOn(b, item)
        <3>1. item \in ToSet(queue[b]) BY <1>5
        <3> QED BY <1>12, <3>1 DEF KInv, Untouched
    <2>4. item # None BY <1>12, Names
    <2>5. Told' BY <1>3, <1>8, <1>9, <1>12, <2>1, <2>3, <2>4 DEF KInv, Told
    <2> QED BY <1>10, <1>11, <2>2, <2>5 DEF KInv
<1>13. CASE item = b
    <2>1. pc'[b] = "decide" /\ del'[b] = del[b] /\ next'[b] = b /\ Subject(b)' = Subject(b)
        BY <1>1, <1>3, <1>4, <1>13 DEF Subject
    <2>2. Settled' BY <1>1, <1>3, <1>9, <2>1 DEF KInv, Settled
    <2>3. Told' BY <1>1, <1>3, <1>8, <1>9, <2>1 DEF KInv, Told
    <2> QED BY <1>10, <1>11, <2>2, <2>3 DEF KInv
<1> QED BY <1>12, <1>13

-----------------------------------------------------------------------------
(* The steps that do.                                                      *)

\* A new message is nowhere yet.
LEMMA FlushKeeps ==
    ASSUME IInv, DInv, KInv, NEW m \in Msg, Flush(m)
    PROVE  KInv'
<1>1. pc[m] = "new" /\ \A u \in Threads : u # m =>
         pc'[u] = pc[u] /\ todo'[u] = todo[u] /\ del'[u] = del[u]
    BY Names DEF Flush, IInv, Shape
<1>2. UNCHANGED <<logger, queue, next, frees, forwarded>> /\ pc'[m] = "send"
    BY Names DEF Flush, IInv, Shape
<1>3. \A c \in 1 .. N, k \in Msg : Has(c, k)' <=> Has(c, k) BY <1>2 DEF Has
<1>4. \A b \in 1 .. N, k \in Msg : HandedOn(b, k)' <=> HandedOn(b, k)
    BY <1>2, <1>3, HandedKept DEF Background
<1>5. \A b \in 1 .. N : pc'[b] = pc[b] /\ todo'[b] = todo[b] /\ del'[b] = del[b]
    BY <1>1, Names
<1>6. \A b \in 1 .. N : Subject(b)' = Subject(b) BY <1>2, <1>5 DEF Subject
<1>7. Below' BY <1>5 DEF KInv, Below
<1>8. Settled' BY <1>2, <1>5, <1>6 DEF KInv, Settled
<1>9. Told' BY <1>2, <1>4, <1>5, <1>6 DEF KInv, Told
<1>10. Untouched'
    <2>1. ASSUME NEW t \in Msg, NEW k \in Msg, Walks(t, k)' PROVE Walks(t, k) \/ k = m
        BY <1>1, <1>2, <2>1, Names DEF Walks, Entry
    <2>2. \A k \in Msg : pc'[k] = "new" => pc[k] = "new"
        BY <1>1, <1>2, Names
    <2>3. \A t, k \in Msg : Walks(t, k)' => \A c \in 1 .. N : ~Has(c, k)'
        BY <1>1, <1>3, <2>1 DEF KInv, Untouched
    <2> QED BY <1>2, <1>3, <1>4, <2>2, <2>3 DEF KInv, Untouched
<1> QED BY <1>7, <1>8, <1>9, <1>10 DEF KInv

\* The outermost call returns: what was sent is passed on.
LEMMA SentKeeps ==
    ASSUME IInv, DInv, KInv, NEW t \in Threads, Sent(t)
    PROVE  KInv'
<1>1. pc[t] = "send" /\ pc'[t] = "decide" /\ (\A u \in Threads : u # t => pc'[u] = pc[u])
        /\ UNCHANGED <<logger, todo, del, queue, next, frees>>
    BY DEF Sent, IInv, Shape
<1>2. Below' BY <1>1 DEF KInv, Below
<1>3. Background' = Background BY <1>1 DEF Background
<1>4. CASE t \in Msg
    <2>1. UNCHANGED forwarded BY <1>4 DEF Sent
    <2>2. \A b \in 1 .. N : pc'[b] = pc[b] BY <1>1, <1>4, Names
    <2>3. \A m \in Msg : pc'[m] = pc[m] \/ (pc[m] = "send" /\ pc'[m] = "decide") BY <1>1, Names
    <2> QED BY <1>1, <1>2, <1>3, <2>1, <2>2, <2>3, QuietKeeps
<1>5. CASE t \notin Msg
    <2>0. t \in 1 .. N BY <1>5 DEF Threads
    <2>1. PICK e \in Msg : e = next[t] BY <1>1, <2>0 DEF IInv, Travel
    <2>2. forwarded' = [forwarded EXCEPT ![t] = Append(@, e)] BY <1>5, <2>1 DEF Sent
    <2>3. forwarded[t] \in Seq(Msg) /\ forwarded'[t] = Append(forwarded[t], e)
            /\ \A c \in 1 .. N : c # t => forwarded'[c] = forwarded[c]
        BY <2>0, <2>2 DEF DInv, Logged
    <2>4. ToSet(forwarded'[t]) = ToSet(forwarded[t]) \cup {e}
            /\ forwarded'[t] # <<>> /\ Last(forwarded'[t]) = e
        BY <2>3, SetOfAppend, LastOf
    <2>5. ASSUME NEW c \in 1 .. N, NEW m \in Msg PROVE Has(c, m)' <=> Has(c, m)
        <3>1. CASE c = t BY <1>1, <2>1, <2>4, <3>1 DEF Has
        <3>2. CASE c # t BY <1>1, <2>3, <3>2 DEF Has
        <3> QED BY <3>1, <3>2
    <2>6. \A b \in 1 .. N, m \in Msg : HandedOn(b, m)' <=> HandedOn(b, m)
        BY <1>3, <2>5, HandedKept
    <2>7. \A b \in 1 .. N : b # t => pc'[b] = pc[b] /\ Subject(b)' = Subject(b)
        BY <1>1, <2>3, Names DEF Subject
    <2>8. Subject(t) = e /\ Subject(t)' = e BY <1>1, <2>1, <2>4 DEF Subject
    <2>9. Settled' BY <1>1, <2>1, <2>7, <2>8 DEF KInv, Settled
    <2>10. Told' BY <1>1, <2>6, <2>7, <2>8 DEF KInv, Told
    <2>11. Untouched'
        <3>1. \A m \in Msg : pc'[m] = pc[m] BY <1>1, <1>5, Names
        <3>2. \A u, m \in Msg : Walks(u, m)' <=> Walks(u, m) BY <1>1, <3>1 DEF Walks, Entry
        <3> QED BY <1>1, <2>5, <2>6, <3>1, <3>2 DEF KInv, Untouched
    <2> QED BY <1>2, <2>9, <2>10, <2>11 DEF KInv
<1> QED BY <1>4, <1>5

\* The flag decides on the deletion, of a message or of the dummy.
LEMMA AfterwardsKeeps ==
    ASSUME IInv, IInv', DInv, KInv, NEW t \in Threads, Afterwards(t)
    PROVE  KInv'
<1>1. PICK e \in Items : e = Entry(t)
    BY DEF IInv, Shape, Travel, Afterwards, Entry, Threads, Items
<1>2. pc[t] = "decide" /\ (e \in Msg \/ e = t)
    BY <1>1 DEF IInv, Shape, Travel, Afterwards, Entry, Threads
<1>3. /\ frees' = [frees EXCEPT ![e] = IF del[t] THEN @ + 1 ELSE @]
      /\ pc' = [pc EXCEPT ![t] = IF e = t THEN "ended" ELSE "pop"]
      /\ UNCHANGED <<logger, todo, del, queue, next, forwarded>>
    BY <1>1 DEF Afterwards
<1>4. /\ \A u \in Threads : u # t => pc'[u] = pc[u]
      /\ pc'[t] = IF e = t THEN "ended" ELSE "pop"
      /\ \A i \in Items : i # e => frees'[i] = frees[i]
      /\ frees'[e] = IF del[t] THEN frees[e] + 1 ELSE frees[e]
    BY <1>1, <1>3 DEF IInv, Shape
<1>5. \A c \in 1 .. N, m \in Msg : Has(c, m)' <=> Has(c, m) BY <1>3 DEF Has
<1>6. \A b \in 1 .. N, m \in Msg : HandedOn(b, m)' <=> HandedOn(b, m)
    BY <1>3, <1>5, HandedKept DEF Background
<1>7. Below' BY <1>3 DEF KInv, Below
<1>8. \A b \in 1 .. N : Subject(b)' = Subject(b)
    <2>1. \A b \in 1 .. N : pc'[b] = "send" <=> pc[b] = "send" BY <1>2, <1>4, Names
    <2> QED BY <1>3, <2>1 DEF Subject
<1>9. \A m \in Msg : frees[m] = 1 => frees'[m] = 1
    <2> SUFFICES ASSUME NEW m \in Msg, frees[m] = 1, m = e, del[t] PROVE FALSE
        BY <1>4, Names
    <2>1. Walks(t, m) BY <1>1, <1>2 DEF Walks
    <2>2. NoWalker(m) BY DEF IInv, Held
    <2> QED BY <2>1, <2>2 DEF NoWalker
<1>10. e \in Msg /\ del[t] => frees'[e] = 1
    <2> SUFFICES ASSUME e \in Msg, del[t] PROVE frees'[e] = 1 OBVIOUS
    <2>1. Walks(t, e) BY <1>1, <1>2 DEF Walks
    <2>2. frees[e] = 0 BY <2>1 DEF IInv, Held, NoWalker
    <2> QED BY <1>4, <2>2
<1>11. t \in 1 .. N => e = next[t] BY <1>1, Names DEF Entry
<1>12. Settled'
    <2> SUFFICES ASSUME NEW b \in 1 .. N, pc'[b] # "send"
                 PROVE  /\ next'[b] \in Msg => Subject(b)' = next'[b]
                        /\ \A m \in Msg : Subject(b)' = m /\ del'[b] =>
                              frees'[m] = 1 \/ (pc'[b] = "decide" /\ next'[b] = m)
        BY DEF Settled
    <2>1. pc[b] # "send" BY <1>2, <1>4, Names
    <2>2. /\ next[b] \in Msg => Subject(b) = next[b]
          /\ \A m \in Msg : Subject(b) = m /\ del[b] =>
                frees[m] = 1 \/ (pc[b] = "decide" /\ next[b] = m)
        BY <2>1 DEF KInv, Settled
    <2>3. CASE b # t BY <1>3, <1>4, <1>8, <1>9, <2>2, <2>3, Names
    <2>4. CASE b = t BY <1>3, <1>8, <1>9, <1>10, <1>11, <2>2, <2>4
    <2> QED BY <2>3, <2>4
<1>13. Told'
    <2> SUFFICES ASSUME NEW b \in 1 .. N, pc'[b] = "ended"
                 PROVE  frees'[b] = IF del'[b] THEN 1 ELSE 0
        BY <1>3, <1>6, <1>8 DEF KInv, Told
    <2>1. CASE b # t BY <1>2, <1>3, <1>4, <2>1, Names DEF KInv, Told
    <2>2. CASE b = t
        <3>1. e = t /\ frees[t] = 0 BY <1>2, <1>4, <2>2 DEF DInv, Dummies
        <3> QED BY <1>3, <1>4, <2>2, <3>1
    <2> QED BY <2>1, <2>2
<1>14. Untouched'
    <2>1. \A m \in Msg : pc'[m] = "new" => pc[m] = "new" BY <1>4, Names
    <2>2. \A u, m \in Msg : Walks(u, m)' => Walks(u, m)
        BY <1>2, <1>3, <1>4, Names DEF Walks, Entry
    <2> QED BY <1>3, <1>5, <1>6, <2>1, <2>2 DEF KInv, Untouched
<1> QED BY <1>7, <1>12, <1>13, <1>14 DEF KInv

\* Taking a message over tells the caller no.
LEMMA EnqueueKeeps ==
    ASSUME IInv, DInv, KInv, NEW t \in Threads, Enqueue(t)
    PROVE  KInv'
<1>1. pc[t] = "send" /\ todo[t] # <<>> /\ todo[t] \in Seq(1 .. N) /\ del[t]
    BY DEF IInv, Shape, Travel, Enqueue, Calls
<1>2. PICK b \in 1 .. N : b = Head(todo[t]) BY <1>1, Dropped
<1>3. PICK e \in Msg : e = Entry(t) BY <1>1, EntrySent
<1>4. /\ Push(b, e) /\ todo' = [todo EXCEPT ![t] = <<>>] /\ del' = [del EXCEPT ![t] = FALSE]
      /\ UNCHANGED <<logger, next, frees, forwarded>>
    BY <1>2, <1>3 DEF Enqueue, Rest
<1>5. b \in Background BY <1>2 DEF Enqueue, Calls, Background
<1>6. Walks(t, e) /\ t # b
    <2>1. 1 \in DOMAIN todo[t] /\ todo[t][1] = b BY <1>1, <1>2, Dropped
    <2>2. t \in 1 .. N => b < t BY <2>1 DEF KInv, Below
    <2>3. t # b BY <2>2, Names
    <2> QED BY <1>1, <1>3, <2>3 DEF Walks
<1>7. t \in 1 .. N => b < t /\ e = next[t]
    <2>1. 1 \in DOMAIN todo[t] /\ todo[t][1] = b BY <1>1, <1>2, Dropped
    <2> QED BY <1>3, <2>1, Names DEF KInv, Below, Entry
<1>8. /\ pc'[t] = "send" /\ ~del'[t] /\ todo'[t] = <<>>
      /\ \A u \in Threads : u # t => todo'[u] = todo[u] /\ del'[u] = del[u]
      /\ \A u \in Threads : pc'[u] = pc[u] \/ (u = b /\ pc[u] = "asleep" /\ pc'[u] = "pop")
    BY <1>1, <1>4, <1>6, Names, Pushed DEF IInv, Shape
<1>9. /\ \A c \in 1 .. N : c # b => queue'[c] = queue[c]
      /\ ToSet(queue'[b]) = ToSet(queue[b]) \cup {e}
    <2>1. (\A c \in 1 .. N : c # b => queue'[c] = queue[c])
            /\ queue[b] \in Seq(Items) /\ queue'[b] = Append(queue[b], e)
        BY <1>4, Names, Pushed
    <2> QED BY <2>1, Names, SetOfAppend
<1>10. ASSUME NEW c \in 1 .. N, NEW m \in Msg
       PROVE  Has(c, m)' <=> Has(c, m) \/ (c = b /\ m = e)
    <2>1. CASE c = b BY <1>4, <1>9, <2>1 DEF Has
    <2>2. CASE c # b BY <1>4, <1>9, <2>2 DEF Has
    <2> QED BY <2>1, <2>2
<1>11. Background' = Background BY <1>4 DEF Background
<1>12. ASSUME NEW c \in 1 .. N, NEW m \in Msg
       PROVE  HandedOn(c, m)' <=> HandedOn(c, m) \/ (b < c /\ m = e)
    <2>1. HandedOn(c, m) <=> \E d \in Background : d < c /\ Has(d, m) BY HandedIs
    <2>2. HandedOn(c, m)' <=> \E d \in Background' : d < c /\ Has(d, m)' BY DEF HandedOn, Has
    <2>3. \A d \in Background : d \in 1 .. N BY DEF Background
    <2> QED BY <1>5, <1>10, <1>11, <2>1, <2>2, <2>3
<1>13. AtMostOne(e) /\ NotQueued(e) /\ frees[e] # 1 /\ pc[e] # "new"
    BY <1>6 DEF IInv, Held, AtMostOne, NoWalker
<1>14. \A c \in 1 .. N : Subject(c)' = Subject(c)
    <2>1. \A c \in 1 .. N : pc'[c] = "send" <=> pc[c] = "send" BY <1>8, Names
    <2> QED BY <1>4, <2>1 DEF Subject
<1>15. Below'
    <2>1. \A c \in 1 .. N : c # t => todo'[c] = todo[c] BY <1>8, Names
    <2>2. DOMAIN <<>> = {} OBVIOUS
    <2>3. DOMAIN todo'[t] = {} BY <1>8, <2>2
    <2> QED BY <2>1, <2>3 DEF KInv, Below
<1>16. Settled'
    <2> SUFFICES ASSUME NEW c \in 1 .. N, pc'[c] # "send"
                 PROVE  /\ next'[c] \in Msg => Subject(c)' = next'[c]
                        /\ \A m \in Msg : Subject(c)' = m /\ del'[c] =>
                              frees'[m] = 1 \/ (pc'[c] = "decide" /\ next'[c] = m)
        BY DEF Settled
    <2>1. c # t /\ pc[c] # "send" /\ (pc[c] = "decide" => pc'[c] = "decide") /\ del'[c] = del[c]
        BY <1>8, Names
    <2> QED BY <1>4, <1>14, <2>1 DEF KInv, Settled
<1>17. Untouched'
    <2>1. \A m \in Msg : pc'[m] = "new" => pc[m] = "new" /\ m # e BY <1>8, <1>13, Names
    <2>2. \A u, m \in Msg : Walks(u, m)' => Walks(u, m) /\ m # e
        <3> SUFFICES ASSUME NEW u \in Msg, NEW m \in Msg, Walks(u, m)'
                     PROVE  Walks(u, m) /\ m # e
            OBVIOUS
        <3>1. u # t /\ u # b /\ u \in Threads BY <1>8, Names DEF Walks
        <3>2. Walks(u, m) BY <1>4, <1>8, <3>1 DEF Walks, Entry
        <3> QED BY <1>6, <1>13, <3>1, <3>2 DEF AtMostOne
    <2>3. ASSUME NEW c \in 1 .. N, NEW m \in Msg, m \in ToSet(queue'[c])
          PROVE  ~HandedOn(c, m)'
        <3>1. CASE m # e
            <4>1. m \in ToSet(queue[c]) BY <1>9, <2>3, <3>1
            <4> QED BY <1>12, <3>1, <4>1 DEF KInv, Untouched
        <3>2. CASE m = e
            <4>1. c = b BY <1>9, <1>13, <2>3, <3>2 DEF NotQueued, ToSet
            <4>2. ~HandedOn(b, e)
                <5>1. CASE t \in Msg
                    <6>1. \A d \in 1 .. N : ~Has(d, e) BY <1>6, <5>1 DEF KInv, Untouched
                    <6> QED BY <6>1, HandedIs DEF Background
                <5>2. CASE t \in 1 .. N
                    <6>1. b < t /\ e = next[t] BY <1>7, <5>2
                    <6>2. Subject(t) = e BY <1>1, <6>1 DEF Subject
                    <6>3. ~HandedOn(t, e) BY <1>1, <5>2, <6>2 DEF KInv, Told
                    <6>4. \A d \in Background : d < b => d < t
                        BY <5>2, <6>1, Names DEF Background
                    <6> QED BY <6>3, <6>4, HandedIs
                <5> QED BY <5>1, <5>2 DEF Threads
            <4>3. ~(b < b) BY Names
            <4> QED BY <1>12, <3>2, <4>1, <4>2, <4>3
        <3> QED BY <3>1, <3>2
    <2> QED BY <1>10, <2>1, <2>2, <2>3 DEF KInv, Untouched
<1>18. Told'
    <2>1. ASSUME NEW c \in 1 .. N
          PROVE  /\ Subject(c) = None => del'[c]
                 /\ \A m \in Msg : Subject(c) = m => (del'[c] <=> ~HandedOn(c, m)')
                 /\ pc'[c] = "ended" => frees'[c] = IF del'[c] THEN 1 ELSE 0
        <3>1. CASE c = t
            <4>1. b < t /\ e = next[t] /\ Subject(t) = e BY <1>1, <1>7, <3>1 DEF Subject
            <4> QED BY <1>8, <1>12, <3>1, <4>1, Names
        <3>2. CASE c # t
            <4>1. del'[c] = del[c] BY <1>8, <3>2, Names
            <4>2. pc'[c] = "ended" => pc[c] = "ended" BY <1>8, Names
            <4>3. ASSUME NEW m \in Msg, Subject(c) = m PROVE del'[c] <=> ~HandedOn(c, m)'
                <5>1. del[c] <=> ~HandedOn(c, m) BY <4>3 DEF KInv, Told
                <5>2. ASSUME del[c] PROVE m # e
                    <6>1. CASE pc[c] = "send"
                        <7>1. Walks(c, m) BY <4>3, <5>2, <6>1, Names DEF Walks, Entry, Subject
                        <7> QED BY <1>6, <1>13, <3>2, <7>1, Names DEF AtMostOne
                    <6>2. CASE pc[c] # "send"
                        <7>1. frees[m] = 1 \/ (pc[c] = "decide" /\ next[c] = m)
                            BY <4>3, <5>2, <6>2 DEF KInv, Settled
                        <7>2. CASE frees[m] = 1 BY <1>13, <7>2
                        <7>3. CASE pc[c] = "decide" /\ next[c] = m
                            <8>1. Walks(c, m) BY <5>2, <7>3, Names DEF Walks, Entry
                            <8> QED BY <1>6, <1>13, <3>2, <8>1, Names DEF AtMostOne
                        <7> QED BY <7>1, <7>2, <7>3
                    <6> QED BY <6>1, <6>2
                <5> QED BY <1>12, <4>1, <5>1, <5>2
            <4> QED BY <1>4, <4>1, <4>2, <4>3 DEF KInv, Told
        <3> QED BY <3>1, <3>2
    <2> QED BY <1>14, <2>1 DEF Told
<1> QED BY <1>15, <1>16, <1>17, <1>18 DEF KInv

-----------------------------------------------------------------------------
(* The dummy item.                                                         *)

\* Every step keeps KInv.
LEMMA KeepsStep == IInv /\ IInv' /\ DInv /\ KInv /\ [Next]_vars => KInv'
<1> SUFFICES ASSUME IInv, IInv', DInv, KInv, [Next]_vars PROVE KInv' OBVIOUS
<1>1. ASSUME NEW t \in Threads, Call(t) PROVE KInv'
    BY <1>1, CallKeeps, EnqueueKeeps, SentKeeps, AfterwardsKeeps DEF Call
<1>2. ASSUME NEW m \in Msg, Flush(m) \/ Call(m) PROVE KInv'
    BY <1>1, <1>2, FlushKeeps, Names
<1>3. ASSUME NEW b \in Background,
             Work(b) \/ WakeSpuriously(b) \/ Stop(b) \/ Destroy(b) \/ Joined(b)
      PROVE  KInv'
    <2>1. b \in 1 .. N /\ b \in Threads BY DEF Background, Threads
    <2>2. CASE Work(b) \/ WakeSpuriously(b)
        BY <1>1, <2>1, <2>2, SleepKeeps, PopKeeps DEF Work
    <2>3. CASE Stop(b) \/ Destroy(b) BY <2>1, <2>3, DummyKeeps DEF Stop, Destroy
    <2>4. CASE Joined(b) BY <2>4, LevelKeeps DEF Joined, Background
    <2> QED BY <1>3, <2>2, <2>3, <2>4
<1>4. ASSUME NEW i \in 1 .. N, NEW m \in Msg, SetLevel(i, LevelOf[m]) PROVE KInv'
    <2>1. \A j \in 1 .. N : logger'[j].kind = logger[j].kind
        BY <1>4 DEF SetLevel, IInv, Shape, Node
    <2>2. Background' = Background BY <2>1 DEF Background
    <2> QED BY <1>4, <2>2, LevelKeeps DEF SetLevel
<1>5. CASE UNCHANGED vars BY <1>5, LevelKeeps DEF vars, Background
<1> QED BY <1>2, <1>3, <1>4, <1>5 DEF Next

\* The dummy item is freed with its thread unless the last message was taken over by
\* a logger below: the code relies on the flag that message left behind.
THEOREM DummyCorrect == Spec => []DummyFreedUnlessKept
<1>1. IInv /\ DInv /\ KInv => DummyFreedUnlessKept
    <2> SUFFICES ASSUME IInv, DInv, KInv, NEW b \in Background, pc[b] = "ended"
                 PROVE  frees[b] = IF forwarded[b] # <<>> /\ HandedOn(b, Last(forwarded[b]))
                                   THEN 0 ELSE 1
        BY DEF DummyFreedUnlessKept
    <2>1. b \in 1 .. N BY DEF Background
    <2>2. frees[b] = IF del[b] THEN 1 ELSE 0 BY <2>1 DEF KInv, Told
    <2>3. del[b] \in BOOLEAN BY <2>1, Names DEF IInv, Shape
    <2>4. CASE forwarded[b] = <<>>
        BY <2>1, <2>2, <2>4 DEF KInv, Told, Subject
    <2>5. CASE forwarded[b] # <<>>
        <3>1. PICK m \in Msg : m = Last(forwarded[b])
            BY <2>1, <2>5, LastOf DEF DInv, Logged
        <3>2. del[b] <=> ~HandedOn(b, m) BY <2>1, <2>5, <3>1 DEF KInv, Told, Subject
        <3> QED BY <2>2, <2>5, <3>1, <3>2
    <2> QED BY <2>4, <2>5
<1>2. IInv /\ DInv /\ KInv /\ IInv' /\ [Next]_vars => KInv' BY KeepsStep
<1> QED BY InitKeeps, <1>1, <1>2, DInvariance, PTL DEF Spec

-----------------------------------------------------------------------------
(* What a queue has accepted before an item.                               *)

\* A set of natural numbers has a least element.
LEMMA Least ==
    ASSUME NEW S \in SUBSET Nat, S # {}
    PROVE  \E x \in S : \A y \in S : x =< y
<1> DEFINE T == {0 .. k : k \in S}
<1>1. T \subseteq FiniteSubsetsOf(Nat)
    <2>1. ASSUME NEW k \in S PROVE 0 .. k \in SUBSET Nat /\ IsFiniteSet(0 .. k)
        <3>1. k \in Nat OBVIOUS
        <3>2. IsFiniteSet(0 .. k) BY <3>1, FS_Interval
        <3> QED BY <3>1, <3>2
    <2> QED BY <2>1 DEF FiniteSubsetsOf
<1>2. T # {} OBVIOUS
<1>3. IsWellFoundedOn(StrictSubsetOrdering(Nat), FiniteSubsetsOf(Nat))
    BY FS_StrictSubsetOrderingWellFounded
<1> HIDE DEF T
<1>4. PICK x \in T : \A y \in T : <<y, x>> \notin StrictSubsetOrdering(Nat)
    BY <1>1, <1>2, <1>3, WFMin
<1>5. PICK k \in S : x = 0 .. k BY DEF T
<1>6. ASSUME NEW y \in S PROVE k =< y
    <2>1. k \in Nat /\ y \in Nat OBVIOUS
    <2>2. SUFFICES ASSUME y < k PROVE FALSE BY <2>1
    <2>3. 0 .. y \in T BY DEF T
    <2>4. 0 .. y \subseteq 0 .. k /\ 0 .. y # 0 .. k
        <3>1. k \in 0 .. k /\ k \notin 0 .. y BY <2>1, <2>2
        <3>2. 0 .. y \subseteq 0 .. k BY <2>1, <2>2
        <3> QED BY <3>1, <3>2
    <2>5. 0 .. y \in SUBSET Nat /\ 0 .. k \in SUBSET Nat BY <2>1
    <2>6. <<0 .. y, 0 .. k>> \in StrictSubsetOrdering(Nat)
        BY <2>4, <2>5 DEF StrictSubsetOrdering
    <2> QED BY <1>4, <1>5, <2>3, <2>6
<1> QED BY <1>6

\* The first n elements of q are those before its first x.
Cut(q, x, n) ==
    n \in 0 .. Len(q) /\ (\A i \in 1 .. n : q[i] # x) /\ (n < Len(q) => q[n + 1] = x)

\* What stands before the first x in q.
Accepted(q, x) == SubSeq(q, 1, CHOOSE n : Cut(q, x, n))

\* There is one place to cut at.
LEMMA CutAt ==
    ASSUME NEW T, NEW q \in Seq(T), NEW x, NEW n, Cut(q, x, n)
    PROVE  Accepted(q, x) = SubSeq(q, 1, n) /\ Accepted(q, x) \in Seq(T)
<1>0. Len(q) \in Nat OBVIOUS
<1>1. ASSUME NEW k, Cut(q, x, k) PROVE k = n
    BY <1>0, <1>1 DEF Cut
<1>2. (CHOOSE k : Cut(q, x, k)) = n BY <1>1
<1>3. n \in 0 .. Len(q) BY DEF Cut
<1>4. SubSeq(q, 1, n) \in Seq(T) BY <1>0, <1>3
<1> QED BY <1>2, <1>4 DEF Accepted

\* There is a place to cut at.
LEMMA CutExists ==
    ASSUME NEW T, NEW q \in Seq(T), NEW x
    PROVE  \E n : Cut(q, x, n)
<1> DEFINE S == {i \in 1 .. Len(q) : q[i] = x}
<1>0. Len(q) \in Nat OBVIOUS
<1>1. CASE S = {}
    <2>1. Cut(q, x, Len(q)) BY <1>0, <1>1 DEF Cut
    <2> QED BY <2>1
<1>2. CASE S # {}
    <2>1. S \in SUBSET Nat OBVIOUS
    <2>2. PICK k \in S : \A j \in S : k =< j BY <1>2, <2>1, Least
    <2>3. Cut(q, x, k - 1)
        <3>1. k \in 1 .. Len(q) /\ q[k] = x OBVIOUS
        <3>2. ASSUME NEW i \in 1 .. k - 1 PROVE q[i] # x
            <4>1. i \in 1 .. Len(q) /\ i < k BY <1>0, <3>1
            <4> QED BY <2>2, <3>1, <4>1
        <3> QED BY <1>0, <3>1, <3>2 DEF Cut
    <2> QED BY <2>3
<1> QED BY <1>1, <1>2

\* Without an x, all of the queue is accepted.
LEMMA AcceptedAll ==
    ASSUME NEW T, NEW q \in Seq(T), NEW x, \A i \in DOMAIN q : q[i] # x
    PROVE  Accepted(q, x) = q
<1>1. Len(q) \in Nat /\ DOMAIN q = 1 .. Len(q) /\ SubSeq(q, 1, Len(q)) = q OBVIOUS
<1>2. Cut(q, x, Len(q)) BY <1>1 DEF Cut
<1> QED BY <1>1, <1>2, CutAt

\* The first x that is pushed accepts what was there.
LEMMA AcceptedStop ==
    ASSUME NEW T, NEW q \in Seq(T), NEW x \in T, \A i \in DOMAIN q : q[i] # x
    PROVE  Accepted(Append(q, x), x) = q
<1> DEFINE a == Append(q, x)
<1>1. Len(q) \in Nat /\ DOMAIN q = 1 .. Len(q) /\ a \in Seq(T) /\ Len(a) = Len(q) + 1
        /\ a[Len(q) + 1] = x /\ \A i \in 1 .. Len(q) : a[i] = q[i]
    OBVIOUS
<1>2. SubSeq(a, 1, Len(q)) = q OBVIOUS
<1> HIDE DEF a
<1>3. Cut(a, x, Len(q)) BY <1>1 DEF Cut
<1>4. Accepted(a, x) = q BY <1>1, <1>2, <1>3, CutAt
<1> QED BY <1>4 DEF a

\* What is pushed after an x is not accepted.
LEMMA AcceptedLate ==
    ASSUME NEW T, NEW q \in Seq(T), NEW x, NEW y \in T, ~ \A i \in DOMAIN q : q[i] # x
    PROVE  Accepted(Append(q, y), x) = Accepted(q, x)
<1> DEFINE a == Append(q, y)
<1>1. Len(q) \in Nat /\ DOMAIN q = 1 .. Len(q) /\ a \in Seq(T) /\ Len(a) = Len(q) + 1
        /\ \A i \in 1 .. Len(q) : a[i] = q[i]
    OBVIOUS
<1>2. PICK n : Cut(q, x, n) BY CutExists
<1>3. n \in 0 .. Len(q) /\ n < Len(q) BY <1>1, <1>2 DEF Cut
<1>4. SubSeq(a, 1, n) = SubSeq(q, 1, n) BY <1>3
<1> HIDE DEF a
<1>5. Cut(a, x, n) BY <1>1, <1>2, <1>3 DEF Cut
<1>6. Accepted(a, x) = SubSeq(a, 1, n) BY <1>1, <1>5, CutAt
<1>7. Accepted(q, x) = SubSeq(q, 1, n) BY <1>2, CutAt
<1> QED BY <1>4, <1>6, <1>7 DEF a

\* Popping takes the first that was accepted.
LEMMA AcceptedFirst ==
    ASSUME NEW T, NEW q \in Seq(T), NEW x, q # <<>>
    PROVE  Accepted(q, x) = IF Head(q) = x THEN <<>> ELSE <<Head(q)>> \o Accepted(Tail(q), x)
<1> DEFINE r == Tail(q)
<1>1. Len(q) \in Nat /\ r \in Seq(T) /\ Len(r) = Len(q) - 1 /\ Head(q) = q[1] /\ Len(q) > 0
        /\ \A i \in 1 .. Len(r) : r[i] = q[i + 1]
    OBVIOUS
<1>2. CASE Head(q) = x
    <2>1. Cut(q, x, 0) BY <1>1, <1>2 DEF Cut
    <2>2. SubSeq(q, 1, 0) = <<>> OBVIOUS
    <2> QED BY <1>2, <2>1, <2>2, CutAt
<1>3. CASE Head(q) # x
    <2>1. PICK n : Cut(r, x, n) BY <1>1, CutExists
    <2>2. n \in 0 .. Len(r) BY <2>1 DEF Cut
    <2>3. SubSeq(q, 1, n + 1) = <<Head(q)>> \o SubSeq(r, 1, n) BY <1>1, <2>2
    <2> HIDE DEF r
    <2>4. Cut(q, x, n + 1)
        <3>1. ASSUME NEW i \in 1 .. n + 1 PROVE q[i] # x
            <4>1. CASE i = 1 BY <1>1, <1>3, <4>1
            <4>2. CASE i # 1
                <5>1. i - 1 \in 1 .. n /\ i - 1 \in 1 .. Len(r) /\ q[i] = r[i - 1]
                    BY <1>1, <2>2, <4>2
                <5> QED BY <2>1, <5>1 DEF Cut
            <4> QED BY <4>1, <4>2
        <3>2. n + 1 < Len(q) => q[n + 2] = x
            <4> SUFFICES ASSUME n + 1 < Len(q) PROVE q[n + 2] = x OBVIOUS
            <4>1. n < Len(r) /\ n + 1 \in 1 .. Len(r) BY <1>1, <2>2
            <4>2. r[n + 1] = q[n + 2] BY <1>1, <2>2, <4>1
            <4> QED BY <2>1, <4>1, <4>2 DEF Cut
        <3>3. n + 1 \in 0 .. Len(q) /\ (n + 1) + 1 = n + 2 BY <1>1, <2>2
        <3> QED BY <3>1, <3>2, <3>3 DEF Cut
    <2> QED BY <1>1, <1>3, <2>1, <2>3, <2>4, CutAt DEF r
<1> QED BY <1>2, <1>3

-----------------------------------------------------------------------------
(* Every background logger as an AsyncLog.                                 *)

\* What the thread of b has in its hands.
Taken(b) == IF pc[b] = "send" THEN <<next[b]>> ELSE <<>>

\* Pending without its CHOOSE.
LEMMA PendingIs ==
    IInv => \A b \in 1 .. N :
              Pending(b) = IF next[b] = b THEN <<>> ELSE Taken(b) \o Accepted(queue[b], b)
<1> SUFFICES ASSUME IInv, NEW b \in 1 .. N
             PROVE  Pending(b) = IF next[b] = b THEN <<>> ELSE Taken(b) \o Accepted(queue[b], b)
    OBVIOUS
<1> DEFINE q == queue[b]
           dummies == {i \in 1 .. Len(q) : q[i] = b}
           upTo == IF dummies = {} THEN Len(q)
                   ELSE (CHOOSE i \in dummies : \A j \in dummies : i <= j) - 1
<1>1. q \in Seq(Items) /\ Len(q) \in Nat BY DEF IInv, Shape
<1>2. Cut(q, b, upTo)
    <2>1. CASE dummies = {} BY <1>1, <2>1 DEF Cut
    <2>2. CASE dummies # {}
        <3> DEFINE k == CHOOSE i \in dummies : \A j \in dummies : i <= j
        <3>1. dummies \in SUBSET Nat BY <1>1
        <3>2. \E i \in dummies : \A j \in dummies : i <= j BY <2>2, <3>1, Least
        <3>3. k \in dummies /\ \A j \in dummies : k <= j BY <3>2
        <3>4. upTo = k - 1 BY <2>2
        <3> HIDE DEF k, upTo
        <3>5. k \in 1 .. Len(q) /\ q[k] = b BY <3>3
        <3>6. ASSUME NEW i \in 1 .. k - 1 PROVE q[i] # b
            <4>1. i \in 1 .. Len(q) /\ i < k BY <1>1, <3>5
            <4> QED BY <3>3, <3>5, <4>1
        <3> QED BY <1>1, <3>4, <3>5, <3>6 DEF Cut
    <2> QED BY <2>1, <2>2
<1>3. Pending(b) = IF next[b] = b THEN <<>> ELSE Taken(b) \o SubSeq(q, 1, upTo)
    BY DEF Pending, Taken
<1> HIDE DEF upTo
<1>4. Accepted(q, b) = SubSeq(q, 1, upTo) BY <1>1, <1>2, CutAt
<1> QED BY <1>3, <1>4

\* PendingIs as a state predicate, which is used of two states.
PendingKnown ==
    \A b \in 1 .. N :
        Pending(b) = IF next[b] = b THEN <<>> ELSE Taken(b) \o Accepted(queue[b], b)

\* The refinement mapping.
pend == [b \in 1 .. N |-> Pending(b)]
\* open, in Stop, or stopped.
phase == [b \in 1 .. N |-> CASE owner[b] = "open" -> "open"
                              [] owner[b] \in {"joining", "destroying"} -> "closing"
                              [] OTHER -> "closed"]

\* Initially nothing is pending.
LEMMA InitPends == Init => \A b \in 1 .. N : Pending(b) = <<>>
<1> SUFFICES ASSUME Init PROVE \A b \in 1 .. N : Pending(b) = <<>> OBVIOUS
<1>1. IInv BY InitInv
<1>2. \A b \in 1 .. N : /\ next[b] # b /\ queue[b] = <<>> /\ pc[b] # "send"
    BY GraphAssumption DEF Init, Threads, None
<1>3. \A b \in 1 .. N : Accepted(queue[b], b) = <<>>
    <2>1. <<>> \in Seq(Items) /\ DOMAIN <<>> = {} OBVIOUS
    <2>2. \A x : Accepted(<<>>, x) = <<>> BY <2>1, AcceptedAll
    <2> QED BY <1>2, <2>2
<1>4. <<>> \o <<>> = <<>> OBVIOUS
<1> QED BY <1>1, <1>2, <1>3, <1>4, PendingIs DEF Taken

\* The initial states are initial states of the logs.
LEMMA InitMaps == Init => Logs!Init
<1> SUFFICES ASSUME Init PROVE Logs!Init OBVIOUS
<1>4. \A b \in 1 .. N : Pending(b) = <<>> /\ owner[b] = "open" BY InitPends DEF Init
<1>5. pend = [b \in 1 .. N |-> <<>>] BY <1>4 DEF pend
<1>6. phase = [b \in 1 .. N |-> "open"] BY <1>4 DEF phase
<1>7. forwarded = [b \in 1 .. N |-> <<>>] BY DEF Init
<1> QED BY <1>5, <1>6, <1>7 DEF Logs!Init, pend, phase

\* Two entries of pend that agree everywhere but at b.
LEMMA PendAt ==
    ASSUME NEW b \in 1 .. N, NEW s, Pending(b)' = s,
           \A c \in 1 .. N : c # b => Pending(c)' = Pending(c)
    PROVE  pend' = [pend EXCEPT ![b] = s]
<1>1. \A c \in 1 .. N : pend'[c] = [pend EXCEPT ![b] = s][c] BY DEF pend
<1>2. /\ pend' = [c \in 1 .. N |-> pend'[c]]
      /\ [pend EXCEPT ![b] = s] = [c \in 1 .. N |-> [pend EXCEPT ![b] = s][c]]
    BY DEF pend
<1> QED BY <1>1, <1>2

-----------------------------------------------------------------------------
(* Every step of the graph is a step of one log, or of none.               *)

\* Where pending, emitted and phase stay, the logs stutter.
LEMMA QuietMaps ==
    ASSUME \A b \in 1 .. N : Pending(b)' = Pending(b), UNCHANGED forwarded, phase' = phase
    PROVE  UNCHANGED Logs!vars
<1>1. pend' = pend BY DEF pend
<1> QED BY <1>1 DEF Logs!vars, pend, phase

\* A log whose queue, thread and entry stay.
LEMMA PendingStays ==
    ASSUME PendingKnown, PendingKnown', NEW c \in 1 .. N, queue'[c] = queue[c],
           next'[c] = next[c], Taken(c)' = Taken(c)
    PROVE  Pending(c)' = Pending(c)
<1>1. Pending(c) = IF next[c] = c THEN <<>> ELSE Taken(c) \o Accepted(queue[c], c)
    BY DEF PendingKnown
<1>2. Pending(c)' = IF next'[c] = c THEN <<>> ELSE Taken(c)' \o Accepted(queue'[c], c)
    BY DEF PendingKnown
<1> QED BY <1>1, <1>2

\* A step of the walk through the graph: the logs stutter.
LEMMA SameMaps ==
    ASSUME PendingKnown, PendingKnown', UNCHANGED <<queue, next, owner, forwarded>>,
           \A b \in 1 .. N : pc'[b] = "send" <=> pc[b] = "send"
    PROVE  UNCHANGED Logs!vars
<1>1. \A b \in 1 .. N : Taken(b)' = Taken(b) BY DEF Taken
<1>2. \A b \in 1 .. N : Pending(b)' = Pending(b) BY <1>1 DEF PendingKnown
<1>3. phase' = phase BY DEF phase
<1> QED BY <1>2, <1>3, QuietMaps

\* What moves from the queue to the thread is still pending.
LEMMA PopPends ==
    ASSUME IInv, DInv, PendingKnown, PendingKnown', NEW b \in 1 .. N, Pop(b)
    PROVE  \A c \in 1 .. N : Pending(c)' = Pending(c)
<1>1. queue[b] \in Seq(Items) /\ queue[b] # <<>> /\ pc[b] = "pop"
    BY Names DEF IInv, Shape, Pop
<1>2. PICK item \in Msg \cup {b} : item = Head(queue[b]) BY <1>1, Dropped DEF IInv, Travel
<1>3. /\ \A c \in 1 .. N : c # b => queue'[c] = queue[c] /\ next'[c] = next[c] /\ pc'[c] = pc[c]
      /\ queue'[b] = Tail(queue[b]) /\ next'[b] = item
      /\ pc'[b] = IF item = b THEN "decide" ELSE "send"
      /\ UNCHANGED <<owner, forwarded>>
    BY <1>1, <1>2, Names DEF IInv, Shape, Pop
<1>4. \A c \in 1 .. N : c # b => Pending(c)' = Pending(c)
    <2>1. \A c \in 1 .. N : c # b => Taken(c)' = Taken(c) BY <1>3 DEF Taken
    <2> QED BY <1>3, <2>1, PendingStays
<1>5. Pending(b)' = Pending(b)
    <2>1. next[b] # b BY <1>1 DEF DInv, Dummies
    <2>2. Taken(b) = <<>> BY <1>1 DEF Taken
    <2>3. Accepted(queue[b], b) =
            IF item = b THEN <<>> ELSE <<item>> \o Accepted(Tail(queue[b]), b)
        BY <1>1, <1>2, AcceptedFirst
    <2>4. Pending(b) = Accepted(queue[b], b)
        <3>1. PICK n : Cut(queue[b], b, n) BY <1>1, CutExists
        <3>2. Accepted(queue[b], b) \in Seq(Items) BY <1>1, <3>1, CutAt
        <3>3. \A s \in Seq(Items) : <<>> \o s = s OBVIOUS
        <3> QED BY <2>1, <2>2, <3>2, <3>3 DEF PendingKnown
    <2>5. CASE item = b BY <1>3, <2>3, <2>4, <2>5 DEF PendingKnown
    <2>6. CASE item # b
        <3>1. Taken(b)' = <<item>> BY <1>3, <2>6 DEF Taken
        <3> QED BY <1>3, <2>3, <2>4, <2>6, <3>1 DEF PendingKnown
    <2> QED BY <2>5, <2>6
<1> QED BY <1>4, <1>5

\* Popping is no step of a log.
LEMMA PopMaps ==
    ASSUME IInv, DInv, PendingKnown, PendingKnown', NEW b \in 1 .. N, Pop(b)
    PROVE  UNCHANGED Logs!vars
<1>1. \A c \in 1 .. N : Pending(c)' = Pending(c) BY PopPends
<1>2. UNCHANGED <<owner, forwarded>> BY DEF Pop
<1> QED BY <1>1, <1>2, QuietMaps DEF phase

\* What is pushed before the dummy will be passed on, what is pushed after it not.
LEMMA EnqueuePends ==
    ASSUME IInv, DInv, PendingKnown, PendingKnown', NEW t \in Threads, Enqueue(t),
           NEW b \in 1 .. N, b = Head(todo[t]), NEW e \in Msg, e = Entry(t)
    PROVE  /\ \A c \in 1 .. N : c # b => Pending(c)' = Pending(c)
           /\ \/ Pending(b)' = Pending(b)
              \/ owner[b] = "open" /\ Pending(b)' = Append(Pending(b), e)
<1>1. Push(b, e) /\ UNCHANGED <<next, owner, forwarded>> BY DEF Enqueue
<1>2. /\ \A c \in 1 .. N : c # b => queue'[c] = queue[c]
      /\ queue[b] \in Seq(Items) /\ queue'[b] = Append(queue[b], e)
      /\ \A c \in 1 .. N : pc'[c] = "send" <=> pc[c] = "send"
    BY <1>1, Names, Pushed
<1>3. \A c \in 1 .. N : Taken(c)' = Taken(c) BY <1>1, <1>2 DEF Taken
<1>4. \A c \in 1 .. N : c # b => Pending(c)' = Pending(c)
    BY <1>1, <1>2, <1>3, PendingStays
<1>5. CASE next[b] = b \/ ~NoDummy(b)
    <2>1. ~NoDummy(b) => Accepted(queue'[b], b) = Accepted(queue[b], b)
        BY <1>2, Names, AcceptedLate DEF NoDummy
    <2>2. Pending(b)' = Pending(b) BY <1>1, <1>3, <1>5, <2>1 DEF PendingKnown
    <2> QED BY <1>4, <2>2
<1>6. CASE next[b] # b /\ NoDummy(b)
    <2>1. owner[b] = "open" BY <1>6 DEF DInv, Dummies, Logged
    <2>2. Accepted(queue[b], b) = queue[b] BY <1>2, <1>6, AcceptedAll DEF NoDummy
    <2>3. Accepted(queue'[b], b) = queue'[b]
        <3>1. e \in Items /\ e # b BY Names
        <3>2. queue'[b] \in Seq(Items) BY <1>2, <3>1, Appended
        <3>3. \A i \in DOMAIN queue'[b] : queue'[b][i] # b
            <4>1. /\ \A i \in DOMAIN queue[b] : queue'[b][i] = queue[b][i]
                  /\ queue'[b][Len(queue[b]) + 1] = e
                  /\ \A i \in DOMAIN queue'[b] : i \in DOMAIN queue[b] \/ i = Len(queue[b]) + 1
                BY <1>1, <3>1, Pushed
            <4> QED BY <1>6, <3>1, <4>1 DEF NoDummy
        <3> QED BY <3>2, <3>3, AcceptedAll
    <2>4. Pending(b)' = Append(Pending(b), e)
        <3>1. Taken(b) \in Seq(Items \cup {None})
            <4>1. next[b] \in Items \cup {None} BY DEF IInv, Shape
            <4>2. \A S : \A x \in S : <<x>> \in Seq(S) /\ <<>> \in Seq(S) OBVIOUS
            <4>3. <<next[b]>> \in Seq(Items \cup {None}) /\ <<>> \in Seq(Items \cup {None})
                BY <4>1, <4>2
            <4> QED BY <4>3 DEF Taken
        <3>2. \A s, q \in Seq(Items \cup {None}) : s \o Append(q, e) = Append(s \o q, e)
            BY Names
        <3>3. queue[b] \in Seq(Items \cup {None}) BY <1>2
        <3>4. Taken(b) \o Append(queue[b], e) = Append(Taken(b) \o queue[b], e) BY <3>1, <3>2, <3>3
        <3> QED BY <1>1, <1>2, <1>3, <1>6, <2>2, <2>3, <3>4 DEF PendingKnown
    <2> QED BY <1>4, <2>1, <2>4
<1> QED BY <1>5, <1>6

\* A push before the dummy is a Send, one after it is no step of a log.
LEMMA EnqueueMaps ==
    ASSUME IInv, DInv, PendingKnown, PendingKnown', NEW t \in Threads, Enqueue(t)
    PROVE  Logs!Next \/ UNCHANGED Logs!vars
<1>1. pc[t] = "send" /\ todo[t] # <<>> /\ todo[t] \in Seq(1 .. N)
    BY DEF IInv, Shape, Travel, Enqueue, Calls
<1>2. PICK b \in 1 .. N : b = Head(todo[t]) BY <1>1, Dropped
<1>3. PICK e \in Msg : e = Entry(t) BY <1>1, EntrySent
<1>4. UNCHANGED <<owner, forwarded>> BY DEF Enqueue
<1>5. phase' = phase BY <1>4 DEF phase
<1>6. \A c \in 1 .. N : c # b => Pending(c)' = Pending(c) BY <1>2, <1>3, EnqueuePends
<1>7. CASE Pending(b)' = Pending(b) BY <1>4, <1>5, <1>6, <1>7, QuietMaps
<1>8. CASE owner[b] = "open" /\ Pending(b)' = Append(Pending(b), e)
    <2>1. pend' = [pend EXCEPT ![b] = Append(@, e)]
        <3>1. pend' = [pend EXCEPT ![b] = Append(Pending(b), e)] BY <1>6, <1>8, PendAt
        <3> QED BY <3>1 DEF pend
    <2>2. phase[b] = "open" BY <1>8 DEF phase
    <2>3. Logs!Send(b) BY <1>4, <1>5, <2>1, <2>2 DEF Logs!Send, pend, phase
    <2> QED BY <2>3 DEF Logs!Next
<1> QED BY <1>2, <1>3, <1>7, <1>8, EnqueuePends

\* What is passed on was pending first.
LEMMA SentPends ==
    ASSUME IInv, DInv, PendingKnown, PendingKnown', NEW t \in 1 .. N, Sent(t)
    PROVE  /\ next[t] \in Msg /\ Accepted(queue[t], t) \in Seq(Items)
           /\ \A c \in 1 .. N : c # t => Pending(c)' = Pending(c)
           /\ Pending(t) = <<next[t]>> \o Accepted(queue[t], t)
           /\ Pending(t)' = Accepted(queue[t], t)
<1>1. pc[t] = "send" /\ pc'[t] = "decide" /\ (\A u \in Threads : u # t => pc'[u] = pc[u])
        /\ UNCHANGED <<queue, next>>
    BY Names DEF Sent, IInv, Shape
<1>2. PICK e \in Msg : e = next[t] BY <1>1 DEF IInv, Travel
<1>3. \A c \in 1 .. N : c # t => Taken(c)' = Taken(c) BY <1>1, Names DEF Taken
<1>4. \A c \in 1 .. N : c # t => Pending(c)' = Pending(c) BY <1>1, <1>3, PendingStays
<1>5. Accepted(queue[t], t) \in Seq(Items)
    <2>1. queue[t] \in Seq(Items) BY DEF IInv, Shape
    <2>2. PICK n : Cut(queue[t], t, n) BY <2>1, CutExists
    <2> QED BY <2>1, <2>2, CutAt
<1>6. e # t BY Names
<1>7. Pending(t) = <<e>> \o Accepted(queue[t], t) BY <1>1, <1>2, <1>6 DEF PendingKnown, Taken
<1>8. Pending(t)' = <<>> \o Accepted(queue[t], t) BY <1>1, <1>2, <1>6 DEF PendingKnown, Taken
<1>9. \A s \in Seq(Items) : <<>> \o s = s OBVIOUS
<1> QED BY <1>2, <1>4, <1>5, <1>7, <1>8, <1>9

\* Passing on emits what was pending first.
LEMMA SentMaps ==
    ASSUME IInv, DInv, PendingKnown, PendingKnown', NEW t \in Threads, Sent(t)
    PROVE  Logs!Next \/ UNCHANGED Logs!vars
<1>1. pc[t] = "send" /\ (\A u \in Threads : u # t => pc'[u] = pc[u])
        /\ UNCHANGED <<queue, next, owner>>
    BY DEF Sent, IInv, Shape
<1>2. CASE t \in Msg
    <2>1. \A b \in 1 .. N : pc'[b] = pc[b] BY <1>1, <1>2, Names
    <2>2. UNCHANGED forwarded BY <1>2 DEF Sent
    <2> QED BY <1>1, <2>1, <2>2, SameMaps
<1>3. CASE t \notin Msg
    <2>0. t \in 1 .. N BY <1>3 DEF Threads
    <2>1. PICK e \in Msg : e = next[t] BY <2>0, SentPends
    <2>2. \A c \in 1 .. N : c # t => Pending(c)' = Pending(c) BY <2>0, SentPends
    <2>3. /\ Pending(t) # <<>> /\ Head(Pending(t)) = e
          /\ Pending(t)' = Tail(Pending(t))
        <3>1. \A s \in Seq(Items) : /\ <<e>> \o s # <<>> /\ Head(<<e>> \o s) = e
                                    /\ Tail(<<e>> \o s) = s
            BY Names
        <3> QED BY <2>0, <2>1, <3>1, SentPends
    <2>4. pend' = [pend EXCEPT ![t] = Tail(@)]
        <3>1. pend' = [pend EXCEPT ![t] = Tail(Pending(t))] BY <2>0, <2>2, <2>3, PendAt
        <3> QED BY <2>0, <3>1 DEF pend
    <2>5. forwarded' = [forwarded EXCEPT ![t] = Append(@, Head(pend[t]))]
        BY <1>3, <2>0, <2>1, <2>3 DEF Sent, pend
    <2>6. phase[t] # "closed" /\ phase' = phase /\ pend[t] # <<>>
        BY <1>1, <2>0, <2>3 DEF phase, pend, DInv, Dummies, Logged
    <2>7. Logs!Emit(t) BY <2>4, <2>5, <2>6 DEF Logs!Emit, pend, phase
    <2> QED BY <2>0, <2>7 DEF Logs!Next
<1> QED BY <1>2, <1>3

\* The dummy leaves what is pending.
LEMMA StopPends ==
    ASSUME IInv, DInv, PendingKnown, PendingKnown', NEW b \in 1 .. N, Stop(b) \/ Destroy(b)
    PROVE  \A c \in 1 .. N : Pending(c)' = Pending(c)
<1>1. Push(b, b) /\ UNCHANGED <<next, forwarded>> BY DEF Stop, Destroy
<1>2. /\ \A c \in 1 .. N : c # b => queue'[c] = queue[c]
      /\ queue[b] \in Seq(Items) /\ queue'[b] = Append(queue[b], b)
      /\ \A c \in 1 .. N : pc'[c] = "send" <=> pc[c] = "send"
    BY <1>1, Names, Pushed
<1>3. \A c \in 1 .. N : Taken(c)' = Taken(c) BY <1>1, <1>2 DEF Taken
<1>4. \A c \in 1 .. N : c # b => Pending(c)' = Pending(c)
    BY <1>1, <1>2, <1>3, PendingStays
<1>5. CASE NoDummy(b)
    <2>1. Accepted(queue[b], b) = queue[b] BY <1>2, <1>5, AcceptedAll DEF NoDummy
    <2>2. Accepted(queue'[b], b) = queue[b]
        BY <1>2, <1>5, Names, AcceptedStop DEF NoDummy
    <2> QED BY <1>1, <1>3, <1>4, <2>1, <2>2 DEF PendingKnown
<1>6. CASE ~NoDummy(b)
    <2>1. Accepted(queue'[b], b) = Accepted(queue[b], b)
        BY <1>2, <1>6, Names, AcceptedLate DEF NoDummy
    <2> QED BY <1>1, <1>3, <1>4, <2>1 DEF PendingKnown
<1> QED BY <1>5, <1>6

\* Stop and the destructor close the log.
LEMMA StopMaps ==
    ASSUME IInv, DInv, PendingKnown, PendingKnown', NEW b \in 1 .. N, Stop(b) \/ Destroy(b)
    PROVE  Logs!Next \/ UNCHANGED Logs!vars
<1>1. /\ UNCHANGED forwarded
      /\ \A c \in 1 .. N : c # b => owner'[c] = owner[c]
      /\ \/ owner[b] = "open" /\ owner'[b] \in {"joining", "destroying"}
         \/ owner[b] = "stopped" /\ owner'[b] = "gone"
    BY DEF Stop, Destroy, DInv, Logged
<1>2. \A c \in 1 .. N : Pending(c)' = Pending(c) BY StopPends
<1>3. CASE owner[b] = "open" /\ owner'[b] \in {"joining", "destroying"}
    <2>1. pend' = pend BY <1>2 DEF pend
    <2>2. phase[b] = "open" /\ phase' = [phase EXCEPT ![b] = "closing"]
        <3>1. \A c \in 1 .. N : phase'[c] = [phase EXCEPT ![b] = "closing"][c]
            BY <1>1, <1>3 DEF phase
        <3>2. phase' = [c \in 1 .. N |-> phase'[c]]
                /\ [phase EXCEPT ![b] = "closing"]
                     = [c \in 1 .. N |-> [phase EXCEPT ![b] = "closing"][c]]
            BY DEF phase
        <3>3. phase[b] = "open" BY <1>3 DEF phase
        <3> QED BY <3>1, <3>2, <3>3
    <2>3. Logs!Close(b) BY <1>1, <2>1, <2>2 DEF Logs!Close, pend, phase
    <2> QED BY <2>3 DEF Logs!Next
<1>4. CASE owner[b] = "stopped" /\ owner'[b] = "gone"
    <2>1. \A c \in 1 .. N : phase'[c] = phase[c] BY <1>1, <1>4 DEF phase
    <2>2. phase' = [c \in 1 .. N |-> phase'[c]] /\ phase = [c \in 1 .. N |-> phase[c]] BY DEF phase
    <2> QED BY <1>1, <1>2, <2>1, <2>2, QuietMaps
<1> QED BY <1>1, <1>3, <1>4

\* Joined only when nothing is pending.
LEMMA JoinMaps ==
    ASSUME IInv, DInv, PendingKnown, PendingKnown', NEW b \in 1 .. N, Joined(b)
    PROVE  Logs!Next
<1>1. /\ pc[b] = "ended" /\ UNCHANGED <<pc, queue, next, forwarded>>
      /\ owner[b] \in {"joining", "destroying"} /\ owner'[b] \in {"stopped", "gone"}
      /\ \A c \in 1 .. N : c # b => owner'[c] = owner[c]
    BY DEF Joined, DInv, Logged
<1>2. next[b] = b BY <1>1 DEF DInv, Dummies
<1>3. \A c \in 1 .. N : Pending(c)' = Pending(c) BY <1>1 DEF PendingKnown, Taken
<1>4. pend' = pend /\ pend[b] = <<>> BY <1>2, <1>3 DEF pend, PendingKnown
<1>5. phase[b] = "closing" BY <1>1 DEF phase
<1>6. phase' = [phase EXCEPT ![b] = "closed"]
    <2>1. \A c \in 1 .. N : phase'[c] = [phase EXCEPT ![b] = "closed"][c]
        BY <1>1 DEF phase
    <2>2. phase' = [c \in 1 .. N |-> phase'[c]]
            /\ [phase EXCEPT ![b] = "closed"]
                 = [c \in 1 .. N |-> [phase EXCEPT ![b] = "closed"][c]]
        BY DEF phase
    <2> QED BY <2>1, <2>2
<1>7. Logs!Finish(b) BY <1>1, <1>4, <1>5, <1>6 DEF Logs!Finish, pend, phase
<1> QED BY <1>7 DEF Logs!Next

-----------------------------------------------------------------------------
(* The refinement.                                                         *)

\* Every step maps to a step of the logs or a stutter.
LEMMA NextMaps ==
    IInv /\ DInv /\ PendingKnown /\ PendingKnown' /\ [Next]_vars => [Logs!Next]_(Logs!vars)
<1> SUFFICES ASSUME IInv, DInv, PendingKnown, PendingKnown', [Next]_vars
             PROVE  Logs!Next \/ UNCHANGED Logs!vars
    OBVIOUS
<1>1. ASSUME NEW t \in Threads, Call(t) PROVE Logs!Next \/ UNCHANGED Logs!vars
    <2>1. CASE WriteStream(t) \/ Filter(t) \/ Multiplex(t)
        BY <2>1, SameMaps DEF WriteStream, Filter, Multiplex
    <2>2. CASE Afterwards(t)
        <3>1. \A b \in 1 .. N : pc'[b] = "send" <=> pc[b] = "send"
            BY <2>2, Names DEF Afterwards, IInv, Shape
        <3> QED BY <2>2, <3>1, SameMaps DEF Afterwards
    <2> QED BY <1>1, <2>1, <2>2, EnqueueMaps, SentMaps DEF Call
<1>2. ASSUME NEW m \in Msg, Flush(m) \/ Call(m) PROVE Logs!Next \/ UNCHANGED Logs!vars
    <2>1. CASE Flush(m)
        <3>1. ASSUME NEW b \in 1 .. N PROVE pc'[b] = pc[b]
            <4>1. b # m /\ b \in Threads BY Names
            <4> QED BY <2>1, <4>1 DEF Flush, IInv, Shape
        <3> QED BY <2>1, <3>1, SameMaps DEF Flush
    <2> QED BY <1>1, <1>2, <2>1, Names
<1>3. ASSUME NEW b \in Background,
             Work(b) \/ WakeSpuriously(b) \/ Stop(b) \/ Destroy(b) \/ Joined(b)
      PROVE  Logs!Next \/ UNCHANGED Logs!vars
    <2>1. b \in 1 .. N /\ b \in Threads BY DEF Background, Threads
    <2>2. CASE Sleep(b) \/ WakeSpuriously(b)
        <3>1. \A c \in 1 .. N : pc'[c] = "send" <=> pc[c] = "send"
            BY <2>1, <2>2, Names DEF Sleep, WakeSpuriously, IInv, Shape
        <3> QED BY <2>2, <3>1, SameMaps DEF Sleep, WakeSpuriously
    <2> QED BY <1>1, <1>3, <2>1, <2>2, PopMaps, StopMaps, JoinMaps DEF Work
<1>4. ASSUME NEW i \in 1 .. N, NEW m \in Msg, SetLevel(i, LevelOf[m])
      PROVE  Logs!Next \/ UNCHANGED Logs!vars
    BY <1>4, SameMaps DEF SetLevel
<1>5. CASE UNCHANGED vars BY <1>5, SameMaps DEF vars
<1> QED BY <1>2, <1>3, <1>4, <1>5 DEF Next

\* PendingKnown follows from the types.
LEMMA PendingIsKnown == IInv => PendingKnown
BY PendingIs DEF PendingKnown

\* Every background logger is an AsyncLog: it passes on what it accepted before
\* Stop, each message once and in the order of acceptance, and it is closed only when
\* all of that is passed on.  (That Stop returns is left to the model checker.)
THEOREM LogSafety == Spec => Logs!Init /\ [][Logs!Next]_(Logs!vars)
<1>1. IInv => PendingKnown BY PendingIsKnown
<1> QED BY InitMaps, NextMaps, <1>1, DInvariance, PTL DEF Spec

-----------------------------------------------------------------------------
(* Behind: the loggers each logger leads to, and trees of loggers.          *)

\* Who forwards to whom.
To == [i \in 1 .. N |-> logger[i].to]

\* Loggers forward to loggers built before them.
Graph(T) == \A i \in 1 .. N : T[i] \in Seq(1 .. i - 1)

\* No logger is forwarded to from two places.
Tree(T) ==
    \A i, j \in 1 .. N : \A k \in DOMAIN T[i], l \in DOMAIN T[j] :
        T[i][k] = T[j][l] => i = j /\ k = l

\* B says which loggers each logger leads to.
Reach(T, B) == B = [i \in 1 .. N |-> UNION {{j} \cup B[j] : j \in ToSet(T[i])}]

\* A logger and those it leads to.
Down(B, i) == {i} \cup B[i]

\* What holds of a number when it holds of all before it holds of all.
LEMMA Climb ==
    ASSUME NEW n \in Nat, NEW P, \A i \in 1 .. n : (\A j \in 1 .. i - 1 : j \in P) => i \in P
    PROVE  \A i \in 1 .. n : i \in P
<1> DEFINE S == {i \in 1 .. n : i \notin P}
<1>1. SUFFICES ASSUME S # {} PROVE FALSE OBVIOUS
<1>2. S \in SUBSET Nat OBVIOUS
<1>3. PICK x \in S : \A y \in S : x =< y BY <1>1, <1>2, Least
<1>4. x \in 1 .. n /\ x \notin P OBVIOUS
<1>5. \A j \in 1 .. x - 1 : j \in 1 .. n /\ j \notin S BY <1>3, <1>4
<1> QED BY <1>4, <1>5

\* Who is forwarded to.
LEMMA Child ==
    ASSUME NEW T, Graph(T), NEW i \in 1 .. N
    PROVE  /\ \A j \in ToSet(T[i]) : j \in 1 .. N /\ j < i /\ j \in 1 .. i - 1
           /\ \A k \in DOMAIN T[i] : T[i][k] \in ToSet(T[i])
           /\ \A j \in ToSet(T[i]) : \E k \in DOMAIN T[i] : T[i][k] = j
<1>1. N \in Nat /\ i \in Nat /\ i =< N BY GraphAssumption
<1>2. T[i] \in Seq(1 .. i - 1) BY DEF Graph
<1>3. \A k \in DOMAIN T[i] : T[i][k] \in 1 .. i - 1 BY <1>2
<1> QED BY <1>1, <1>3 DEF ToSet

\* The recursive definition of Behind defines something.
LEMMA ReachExists ==
    ASSUME NEW T, Graph(T)
    PROVE  \E B : Reach(T, B)
<1> DEFINE Up(n, f) == \A i \in 1 .. n : f[i] = UNION {{j} \cup f[j] : j \in ToSet(T[i])}
           P == {n \in 1 .. N : \E f : Up(n, f)}
<1>0. N \in Nat /\ 1 \in 1 .. N /\ N \in 1 .. N BY GraphAssumption
<1>1. ASSUME NEW n \in 1 .. N, \A m \in 1 .. n - 1 : m \in P PROVE n \in P
    <2>1. \E f : Up(n - 1, f)
        <3>1. CASE n = 1 BY <3>1
        <3>2. CASE n # 1
            <4>1. n - 1 \in 1 .. n - 1 BY <3>2
            <4> QED BY <1>1, <4>1
        <3> QED BY <3>1, <3>2
    <2>2. PICK f : Up(n - 1, f) BY <2>1
    <2> DEFINE g == [i \in 1 .. n |-> IF i = n THEN UNION {{j} \cup f[j] : j \in ToSet(T[n])}
                                      ELSE f[i]]
    <2>3. ASSUME NEW i \in 1 .. n PROVE g[i] = UNION {{j} \cup g[j] : j \in ToSet(T[i])}
        <3>1. i \in 1 .. N /\ n \in Nat BY <1>0
        <3>2. \A j \in ToSet(T[i]) : j \in 1 .. n /\ j # n BY <3>1, Child
        <3>3. \A j \in ToSet(T[i]) : g[j] = f[j] BY <3>2
        <3>4. g[i] = UNION {{j} \cup f[j] : j \in ToSet(T[i])}
            <4>1. CASE i = n BY <4>1
            <4>2. CASE i # n
                <5>1. i \in 1 .. n - 1 /\ g[i] = f[i] BY <3>1, <4>2
                <5> QED BY <2>2, <5>1
            <4> QED BY <4>1, <4>2
        <3> HIDE DEF g
        <3>5. {{j} \cup f[j] : j \in ToSet(T[i])} = {{j} \cup g[j] : j \in ToSet(T[i])} BY <3>3
        <3> QED BY <3>4, <3>5
    <2>4. Up(n, g)
        <3> HIDE DEF g
        <3> QED BY <2>3
    <2> QED BY <2>4
<1>2. \A n \in 1 .. N : n \in P
    <2> HIDE DEF P
    <2> QED BY <1>0, <1>1, Climb
<1>3. PICK f : Up(N, f) BY <1>0, <1>2
<1> DEFINE B == [i \in 1 .. N |-> f[i]]
<1>4. ASSUME NEW i \in 1 .. N PROVE B[i] = UNION {{j} \cup B[j] : j \in ToSet(T[i])}
    <2>1. \A j \in ToSet(T[i]) : B[j] = f[j] BY Child
    <2>2. B[i] = UNION {{j} \cup f[j] : j \in ToSet(T[i])} BY <1>3
    <2> HIDE DEF B
    <2>3. {{j} \cup f[j] : j \in ToSet(T[i])} = {{j} \cup B[j] : j \in ToSet(T[i])} BY <2>1
    <2> QED BY <2>2, <2>3
<1>5. B = [i \in 1 .. N |-> B[i]] OBVIOUS
<1> HIDE DEF B
<1>6. [i \in 1 .. N |-> B[i]] = [i \in 1 .. N |-> UNION {{j} \cup B[j] : j \in ToSet(T[i])}]
    BY <1>4
<1>7. Reach(T, B) BY <1>5, <1>6 DEF Reach
<1> QED BY <1>7

\* One step down.
LEMMA ReachAt ==
    ASSUME NEW T, NEW B, Reach(T, B), NEW i \in 1 .. N
    PROVE  \A z : z \in B[i] <=> \E j \in ToSet(T[i]) : z = j \/ z \in B[j]
<1>1. B[i] = UNION {{j} \cup B[j] : j \in ToSet(T[i])} BY DEF Reach
<1> QED BY <1>1

\* And only one thing.
LEMMA ReachOnce ==
    ASSUME NEW T, Graph(T), NEW B, NEW C, Reach(T, B), Reach(T, C)
    PROVE  B = C
<1> DEFINE P == {i \in 1 .. N : B[i] = C[i]}
<1>1. ASSUME NEW i \in 1 .. N, \A j \in 1 .. i - 1 : j \in P PROVE i \in P
    <2>1. \A j \in ToSet(T[i]) : B[j] = C[j] BY <1>1, Child
    <2>2. \A z : z \in B[i] <=> \E j \in ToSet(T[i]) : z = j \/ z \in B[j] BY ReachAt
    <2>3. \A z : z \in C[i] <=> \E j \in ToSet(T[i]) : z = j \/ z \in C[j] BY ReachAt
    <2>4. \A z : z \in B[i] <=> z \in C[i] BY <2>1, <2>2, <2>3
    <2>5. B[i] = UNION {{j} \cup B[j] : j \in ToSet(T[i])}
            /\ C[i] = UNION {{j} \cup C[j] : j \in ToSet(T[i])}
        BY DEF Reach
    <2> QED BY <2>4, <2>5
<1>2. \A i \in 1 .. N : i \in P
    <2>1. N \in Nat BY GraphAssumption
    <2> HIDE DEF P
    <2> QED BY <2>1, <1>1, Climb
<1>3. \A i \in 1 .. N : B[i] = C[i] BY <1>2
<1>4. B = [i \in 1 .. N |-> B[i]] /\ C = [i \in 1 .. N |-> C[i]]
    BY DEF Reach
<1>5. [i \in 1 .. N |-> B[i]] = [i \in 1 .. N |-> C[i]] BY <1>3
<1> QED BY <1>4, <1>5

\* Behind is what its definition says.
LEMMA BehindReach == Shape => Graph(To) /\ Reach(To, Behind)
<1> SUFFICES ASSUME Shape PROVE Graph(To) /\ Reach(To, Behind) OBVIOUS
<1>1. Graph(To) BY DEF Shape, Node, Graph, To
<1>2. PICK B : Reach(To, B) BY <1>1, ReachExists
<1>3. ASSUME NEW C
      PROVE  Reach(To, C)
               <=> C = [i \in 1 .. N |-> UNION {{j} \cup C[j] : j \in ToSet(logger[i].to)}]
    <2>1. \A i \in 1 .. N : To[i] = logger[i].to BY DEF To
    <2>2. [i \in 1 .. N |-> UNION {{j} \cup C[j] : j \in ToSet(To[i])}]
            = [i \in 1 .. N |-> UNION {{j} \cup C[j] : j \in ToSet(logger[i].to)}]
        BY <2>1
    <2> QED BY <2>2 DEF Reach
<1>4. Reach(To, Behind) BY <1>2, <1>3, ZenonT(40) DEF Behind
<1> QED BY <1>1, <1>4

\* What a logger leads to was built before it.
LEMMA Lower ==
    ASSUME NEW T, Graph(T), NEW B, Reach(T, B)
    PROVE  \A i \in 1 .. N : \A z \in B[i] : z \in 1 .. N /\ z < i
<1> DEFINE P == {i \in 1 .. N : \A z \in B[i] : z \in 1 .. N /\ z < i}
<1>0. N \in Nat BY GraphAssumption
<1>1. ASSUME NEW i \in 1 .. N, \A j \in 1 .. i - 1 : j \in P PROVE i \in P
    <2>1. ASSUME NEW z \in B[i] PROVE z \in 1 .. N /\ z < i
        <3>1. PICK j \in ToSet(T[i]) : z = j \/ z \in B[j] BY ReachAt
        <3>2. j \in 1 .. N /\ j < i /\ j \in P BY <1>1, Child
        <3>3. CASE z = j BY <3>2, <3>3
        <3>4. CASE z \in B[j]
            <4>1. z \in 1 .. N /\ z < j BY <3>2, <3>4
            <4> QED BY <1>0, <3>2, <4>1
        <3> QED BY <3>1, <3>3, <3>4
    <2> QED BY <2>1
<1>2. \A i \in 1 .. N : i \in P
    <2> HIDE DEF P
    <2> QED BY <1>0, <1>1, Climb
<1> QED BY <1>2

\* Leading to is transitive.
LEMMA Further ==
    ASSUME NEW T, Graph(T), NEW B, Reach(T, B)
    PROVE  \A i \in 1 .. N : \A j \in B[i] : B[j] \subseteq B[i]
<1> DEFINE P == {i \in 1 .. N : \A j \in B[i] : \A z \in B[j] : z \in B[i]}
<1>0. N \in Nat BY GraphAssumption
<1>1. ASSUME NEW i \in 1 .. N, \A j \in 1 .. i - 1 : j \in P PROVE i \in P
    <2>1. ASSUME NEW j \in B[i], NEW z \in B[j] PROVE z \in B[i]
        <3>1. PICK c \in ToSet(T[i]) : j = c \/ j \in B[c] BY ReachAt
        <3>2. c \in P BY <1>1, Child
        <3>3. z \in B[c] BY <3>1, <3>2
        <3> QED BY <3>3, ReachAt
    <2> QED BY <2>1
<1>2. \A i \in 1 .. N : i \in P
    <2> HIDE DEF P
    <2> QED BY <1>0, <1>1, Climb
<1> QED BY <1>2

\* Whoever leads to z leads there through somebody who forwards to z.
LEMMA Parent ==
    ASSUME NEW T, Graph(T), NEW B, Reach(T, B)
    PROVE  \A i \in 1 .. N : \A z \in B[i] :
              \E p \in Down(B, i) : p \in 1 .. N /\ z \in ToSet(T[p])
<1> DEFINE P == {i \in 1 .. N : \A z \in B[i] :
                    \E p \in Down(B, i) : p \in 1 .. N /\ z \in ToSet(T[p])}
<1>0. N \in Nat BY GraphAssumption
<1>1. ASSUME NEW i \in 1 .. N, \A j \in 1 .. i - 1 : j \in P PROVE i \in P
    <2>1. ASSUME NEW z \in B[i]
          PROVE  \E p \in Down(B, i) : p \in 1 .. N /\ z \in ToSet(T[p])
        <3>1. PICK j \in ToSet(T[i]) : z = j \/ z \in B[j] BY ReachAt
        <3>2. j \in P /\ j \in 1 .. N BY <1>1, Child
        <3>3. CASE z = j BY <3>3 DEF Down
        <3>4. CASE z \in B[j]
            <4>1. PICK p \in Down(B, j) : p \in 1 .. N /\ z \in ToSet(T[p]) BY <3>2, <3>4
            <4>2. p \in Down(B, i) BY ReachAt DEF Down
            <4> QED BY <4>1, <4>2
        <3> QED BY <3>1, <3>3, <3>4
    <2> QED BY <2>1
<1>2. \A i \in 1 .. N : i \in P
    <2> HIDE DEF P
    <2> QED BY <1>0, <1>1, Climb
<1> QED BY <1>2

\* In a tree, the way to a logger leads through the one that forwards to it.
LEMMA Through ==
    ASSUME NEW T, Graph(T), Tree(T), NEW B, Reach(T, B), NEW i \in 1 .. N, NEW c \in ToSet(T[i])
    PROVE  \A d \in 1 .. N : c \in B[d] => i \in Down(B, d)
<1> DEFINE P == {d \in 1 .. N : c \in B[d] => i \in Down(B, d)}
<1>0. N \in Nat BY GraphAssumption
<1>1. ASSUME NEW d \in 1 .. N, \A j \in 1 .. d - 1 : j \in P PROVE d \in P
    <2>1. ASSUME c \in B[d] PROVE i \in Down(B, d)
        <3>1. PICK j \in ToSet(T[d]) : c = j \/ c \in B[j] BY <2>1, ReachAt
        <3>2. j \in P /\ j \in 1 .. N BY <1>1, Child
        <3>3. CASE c = j
            <4>1. PICK k \in DOMAIN T[i] : T[i][k] = c BY Child
            <4>2. PICK l \in DOMAIN T[d] : T[d][l] = j BY Child
            <4>3. i = d BY <3>3, <4>1, <4>2 DEF Tree
            <4> QED BY <4>3 DEF Down
        <3>4. CASE c \in B[j]
            <4>1. i = j \/ i \in B[j] BY <3>2, <3>4 DEF Down
            <4>2. i \in B[d] BY <4>1, ReachAt
            <4> QED BY <4>2 DEF Down
        <3> QED BY <3>1, <3>3, <3>4
    <2> QED BY <2>1
<1>2. \A d \in 1 .. N : d \in P
    <2> HIDE DEF P
    <2> QED BY <1>0, <1>1, Climb
<1> QED BY <1>2

\* In a tree, what two branches of a logger lead to is apart.
LEMMA Siblings ==
    ASSUME NEW T, Graph(T), Tree(T), NEW B, Reach(T, B), NEW i \in 1 .. N,
           NEW k \in DOMAIN T[i], NEW l \in DOMAIN T[i], k # l
    PROVE  Down(B, T[i][k]) \cap Down(B, T[i][l]) = {}
<1>0. N \in Nat BY GraphAssumption
<1>1. PICK u \in 1 .. N : u = T[i][k] /\ u < i /\ u \in ToSet(T[i]) BY Child
<1>2. PICK v \in 1 .. N : v = T[i][l] /\ v < i /\ v \in ToSet(T[i]) BY Child
<1>3. u # v BY <1>1, <1>2 DEF Tree
<1>4. u \notin B[v] /\ v \notin B[u]
    <2>1. ASSUME u \in B[v] PROVE FALSE
        <3>1. i = v \/ i \in B[v] BY <1>1, <2>1, Through DEF Down
        <3>2. i \in B[v] => i < v BY Lower
        <3> QED BY <1>2, <3>1, <3>2
    <2>2. ASSUME v \in B[u] PROVE FALSE
        <3>1. i = u \/ i \in B[u] BY <1>2, <2>2, Through DEF Down
        <3>2. i \in B[u] => i < u BY Lower
        <3> QED BY <1>1, <3>1, <3>2
    <2> QED BY <2>1, <2>2
<1> DEFINE S == {N - z : z \in B[u] \cap B[v]}
<1>5. \A z \in B[u] : z \in 1 .. N BY Lower
<1>6. SUFFICES ASSUME NEW z \in Down(B, u) \cap Down(B, v) PROVE FALSE BY <1>1, <1>2
<1>7. z \in B[u] \cap B[v] BY <1>3, <1>4 DEF Down
<1>8. S \in SUBSET Nat /\ S # {} BY <1>0, <1>5, <1>7
<1>9. PICK x \in S : \A y \in S : x =< y BY <1>8, Least
<1>10. PICK w \in B[u] \cap B[v] : x = N - w OBVIOUS
<1>11. PICK p \in Down(B, u) : p \in 1 .. N /\ w \in ToSet(T[p]) BY <1>10, Parent
<1>12. p \in Down(B, v) BY <1>11, Through
<1>13. p \in B[u] \cap B[v] BY <1>3, <1>4, <1>11, <1>12 DEF Down
<1>14. w < p /\ w \in 1 .. N BY <1>5, <1>11, Child
<1>15. N - p \in S /\ N - p < N - w BY <1>0, <1>11, <1>13, <1>14
<1> QED BY <1>0, <1>9, <1>10, <1>11, <1>14, <1>15

-----------------------------------------------------------------------------
(* What a thread has yet to call.                                           *)

\* The loggers that a list of calls may reach.
Cover(B, s) == UNION {Down(B, s[k]) : k \in DOMAIN s}

\* No logger is reached by two of them.
Apart(B, s) == \A k, l \in DOMAIN s : k # l => Down(B, s[k]) \cap Down(B, s[l]) = {}

\* A background logger (one of K) that leads to one of them is t or leads to it by
\* way of t.
Leads(B, K, t, s) ==
    \A k \in DOMAIN s :
        /\ t \in 1 .. N => t \in K /\ s[k] \in B[t]
        /\ \A d \in K : s[k] \in B[d] => t \in 1 .. N /\ t \in Down(B, d)

\* What the calls that a thread t has yet to make are like, in a tree.
Ready(B, K, t, s) == Apart(B, s) /\ Leads(B, K, t, s)

\* Cover by element.
LEMMA InCover ==
    ASSUME NEW B, NEW s, NEW z
    PROVE  z \in Cover(B, s) <=> \E k \in DOMAIN s : z \in Down(B, s[k])
BY DEF Cover

\* After one call the others remain.
LEMMA ReadyTail ==
    ASSUME NEW B, NEW K, NEW t, NEW s \in Seq(1 .. N), s # <<>>, Ready(B, K, t, s)
    PROVE  /\ Ready(B, K, t, Tail(s))
           /\ Cover(B, Tail(s)) \subseteq Cover(B, s)
           /\ Head(s) \in Cover(B, s) /\ Head(s) \notin Cover(B, Tail(s))
<1>1. /\ 1 \in DOMAIN s /\ s[1] = Head(s)
      /\ \A i \in DOMAIN Tail(s) : i + 1 \in DOMAIN s /\ i + 1 # 1 /\ Tail(s)[i] = s[i + 1]
    BY Dropped
<1>2. \A i, j \in DOMAIN Tail(s) : i # j => i + 1 # j + 1
    <2>1. Tail(s) \in Seq(1 .. N) BY Dropped
    <2> QED BY <2>1
<1>3. Apart(B, Tail(s)) BY <1>1, <1>2 DEF Ready, Apart
<1>4. Leads(B, K, t, Tail(s)) BY <1>1 DEF Ready, Leads
<1>5. ASSUME NEW z \in Cover(B, Tail(s)) PROVE z \in Cover(B, s) /\ z # Head(s)
    <2>1. PICK i \in DOMAIN Tail(s) : z \in Down(B, Tail(s)[i]) BY InCover
    <2>2. z \in Down(B, s[i + 1]) /\ i + 1 \in DOMAIN s /\ i + 1 # 1 BY <1>1, <2>1
    <2>3. s[1] \in Down(B, s[1]) BY DEF Down
    <2> QED BY <1>1, <2>2, <2>3, InCover DEF Ready, Apart
<1>6. Head(s) \in Cover(B, s)
    <2>1. s[1] \in Down(B, s[1]) BY DEF Down
    <2> QED BY <1>1, <2>1, InCover
<1> QED BY <1>3, <1>4, <1>5, <1>6 DEF Ready

\* What concatenation does to the places of two sequences.
LEMMA Places ==
    ASSUME NEW S, NEW a \in Seq(S), NEW b \in Seq(S)
    PROVE  /\ a \o b \in Seq(S)
           /\ \A i \in DOMAIN (a \o b) :
                \/ i \in DOMAIN a /\ (a \o b)[i] = a[i]
                \/ i - Len(a) \in DOMAIN b /\ (a \o b)[i] = b[i - Len(a)] /\ i > Len(a)
           /\ \A i \in DOMAIN a : i \in DOMAIN (a \o b) /\ (a \o b)[i] = a[i]
           /\ \A i \in DOMAIN b : i + Len(a) \in DOMAIN (a \o b) /\ (a \o b)[i + Len(a)] = b[i]
           /\ DOMAIN a = 1 .. Len(a) /\ Len(a) \in Nat /\ DOMAIN b = 1 .. Len(b) /\ Len(b) \in Nat
           /\ DOMAIN (a \o b) \subseteq Nat
           /\ \A i \in DOMAIN a : a[i] \in S
OBVIOUS

\* A logger that forwards within the thread is replaced by those it forwards to.
LEMMA ReadyInto ==
    ASSUME NEW T, Graph(T), Tree(T), NEW B, Reach(T, B), NEW K \in SUBSET (1 .. N), NEW t,
           NEW s \in Seq(1 .. N), s # <<>>, Ready(B, K, t, s),
           NEW h \in 1 .. N, h = Head(s), h \notin K
    PROVE  /\ T[h] \o Tail(s) \in Seq(1 .. N)
           /\ Ready(B, K, t, T[h] \o Tail(s))
           /\ Cover(B, T[h] \o Tail(s)) \subseteq Cover(B, s)
<1> DEFINE a == T[h]
           b == Tail(s)
           j == a \o b
<1>0. N \in Nat BY GraphAssumption
<1>1. a \in Seq(1 .. N)
    <2>1. T[h] \in Seq(1 .. h - 1) BY DEF Graph
    <2>2. 1 .. h - 1 \subseteq 1 .. N BY <1>0
    <2> QED BY <2>1, <2>2, SeqMonotonic
<1>2. b \in Seq(1 .. N) BY Dropped
<1>3. /\ Ready(B, K, t, b) /\ Cover(B, b) \subseteq Cover(B, s)
    BY ReadyTail
<1>4. \A k \in DOMAIN a : a[k] \in ToSet(a) /\ a[k] \in 1 .. N BY Child
<1>5. \A k \in DOMAIN a : Down(B, a[k]) \subseteq Down(B, h) /\ a[k] \in B[h]
    <2> SUFFICES ASSUME NEW k \in DOMAIN a PROVE Down(B, a[k]) \subseteq Down(B, h) /\ a[k] \in B[h]
        OBVIOUS
    <2>1. a[k] \in B[h] BY <1>4, ReachAt
    <2>2. B[a[k]] \subseteq B[h] BY <2>1, Further
    <2> QED BY <2>1, <2>2 DEF Down
<1>6. 1 \in DOMAIN s /\ s[1] = h BY Dropped
<1>7. \A k \in DOMAIN b : Down(B, h) \cap Down(B, b[k]) = {}
    <2> SUFFICES ASSUME NEW k \in DOMAIN b PROVE Down(B, h) \cap Down(B, b[k]) = {} OBVIOUS
    <2>1. k + 1 \in DOMAIN s /\ k + 1 # 1 /\ b[k] = s[k + 1] BY Dropped
    <2> QED BY <1>6, <2>1 DEF Ready, Apart
<1>8. \A k, l \in DOMAIN a : k # l => Down(B, a[k]) \cap Down(B, a[l]) = {}
    BY Siblings
<1>9. ASSUME NEW k \in DOMAIN a
      PROVE  /\ t \in 1 .. N => t \in K /\ a[k] \in B[t]
             /\ \A d \in K : a[k] \in B[d] => t \in 1 .. N /\ t \in Down(B, d)
    <2>1. t \in 1 .. N => t \in K /\ a[k] \in B[t]
        <3> SUFFICES ASSUME t \in 1 .. N PROVE t \in K /\ a[k] \in B[t] OBVIOUS
        <3>1. t \in K /\ h \in B[t] BY <1>6 DEF Ready, Leads
        <3>2. B[h] \subseteq B[t] BY <3>1, Further
        <3> QED BY <1>5, <3>1, <3>2
    <2>2. ASSUME NEW d \in K, a[k] \in B[d] PROVE t \in 1 .. N /\ t \in Down(B, d)
        <3>1. d \in 1 .. N OBVIOUS
        <3>2. h \in Down(B, d) BY <1>4, <2>2, <3>1, Through
        <3>3. h \in B[d] BY <3>2 DEF Down
        <3> QED BY <1>6, <3>3 DEF Ready, Leads
    <2> QED BY <2>1, <2>2
<1>10. \A k \in DOMAIN b :
          /\ t \in 1 .. N => t \in K /\ b[k] \in B[t]
          /\ \A d \in K : b[k] \in B[d] => t \in 1 .. N /\ t \in Down(B, d)
    BY <1>3 DEF Ready, Leads
<1>11. \A k, l \in DOMAIN b : k # l => Down(B, b[k]) \cap Down(B, b[l]) = {}
    BY <1>3 DEF Ready, Apart
<1>12. Down(B, h) \subseteq Cover(B, s)
    BY <1>6, InCover
<1> HIDE DEF a, b
<1>13. /\ j \in Seq(1 .. N)
       /\ \A i \in DOMAIN j :
            \/ i \in DOMAIN a /\ j[i] = a[i]
            \/ i - Len(a) \in DOMAIN b /\ j[i] = b[i - Len(a)] /\ i > Len(a)
       /\ DOMAIN a = 1 .. Len(a) /\ Len(a) \in Nat /\ DOMAIN j \subseteq Nat
    BY <1>1, <1>2, Places
<1> HIDE DEF j
<1>14. Leads(B, K, t, j) BY <1>9, <1>10, <1>13 DEF Leads
<1>15. ASSUME NEW k \in DOMAIN j, NEW l \in DOMAIN j, k # l
       PROVE  Down(B, j[k]) \cap Down(B, j[l]) = {}
    <2>1. CASE k \in DOMAIN a /\ j[k] = a[k] /\ l \in DOMAIN a /\ j[l] = a[l]
        BY <1>8, <1>15, <2>1
    <2>2. CASE k \in DOMAIN a /\ j[k] = a[k] /\ l - Len(a) \in DOMAIN b /\ j[l] = b[l - Len(a)]
        BY <1>5, <1>7, <2>2
    <2>3. CASE l \in DOMAIN a /\ j[l] = a[l] /\ k - Len(a) \in DOMAIN b /\ j[k] = b[k - Len(a)]
        BY <1>5, <1>7, <2>3
    <2>4. CASE /\ k - Len(a) \in DOMAIN b /\ j[k] = b[k - Len(a)]
               /\ l - Len(a) \in DOMAIN b /\ j[l] = b[l - Len(a)]
        <3>1. k - Len(a) # l - Len(a) BY <1>13, <1>15
        <3> QED BY <1>11, <2>4, <3>1
    <2> QED BY <1>13, <2>1, <2>2, <2>3, <2>4
<1>16. Apart(B, j) BY <1>15 DEF Apart
<1>17. ASSUME NEW z \in Cover(B, j) PROVE z \in Cover(B, s)
    <2>1. PICK i \in DOMAIN j : z \in Down(B, j[i]) BY InCover
    <2>2. CASE i \in DOMAIN a /\ j[i] = a[i] BY <1>5, <1>12, <2>1, <2>2
    <2>3. CASE i - Len(a) \in DOMAIN b /\ j[i] = b[i - Len(a)]
        <3>1. z \in Cover(B, b) BY <2>1, <2>3, InCover
        <3> QED BY <1>3, <3>1
    <2> QED BY <1>13, <2>2, <2>3
<1> QED BY <1>13, <1>14, <1>16, <1>17 DEF Ready, a, b, j

\* A background thread starts with those its logger forwards to.
LEMMA ReadyStart ==
    ASSUME NEW T, Graph(T), Tree(T), NEW B, Reach(T, B), NEW K \in SUBSET (1 .. N), NEW b \in K
    PROVE  T[b] \in Seq(1 .. N) /\ Ready(B, K, b, T[b]) /\ Cover(B, T[b]) \subseteq B[b]
<1>0. N \in Nat /\ b \in 1 .. N BY GraphAssumption
<1>1. T[b] \in Seq(1 .. N)
    <2>1. T[b] \in Seq(1 .. b - 1) BY <1>0 DEF Graph
    <2>2. 1 .. b - 1 \subseteq 1 .. N BY <1>0
    <2> QED BY <2>1, <2>2, SeqMonotonic
<1>2. \A k \in DOMAIN T[b] : T[b][k] \in ToSet(T[b]) /\ T[b][k] \in 1 .. N BY <1>0, Child
<1>3. \A k \in DOMAIN T[b] : T[b][k] \in B[b] BY <1>0, <1>2, ReachAt
<1>4. Apart(B, T[b]) BY <1>0, Siblings DEF Apart
<1>5. Leads(B, K, b, T[b])
    <2>1. ASSUME NEW k \in DOMAIN T[b], NEW d \in K, T[b][k] \in B[d] PROVE b \in Down(B, d)
        <3>1. d \in 1 .. N OBVIOUS
        <3> QED BY <1>0, <1>2, <2>1, <3>1, Through
    <2> QED BY <1>0, <1>3, <2>1 DEF Leads
<1>6. ASSUME NEW z \in Cover(B, T[b]) PROVE z \in B[b]
    <2>1. PICK k \in DOMAIN T[b] : z \in Down(B, T[b][k]) BY InCover
    <2>2. T[b][k] \in B[b] BY <1>3
    <2>3. B[T[b][k]] \subseteq B[b] BY <1>0, <2>2, Further
    <2> QED BY <2>1, <2>2, <2>3 DEF Down
<1> QED BY <1>1, <1>4, <1>5, <1>6 DEF Ready

\* A message starts at the root.
LEMMA ReadyRoot ==
    ASSUME NEW T, Graph(T), NEW B, Reach(T, B), NEW K \in SUBSET (1 .. N), NEW m, m \notin 1 .. N
    PROVE  <<Root>> \in Seq(1 .. N) /\ Ready(B, K, m, <<Root>>)
<1>0. N \in Nat /\ N \in 1 .. N BY GraphAssumption
<1>1. \A d \in K : N \notin B[d]
    <2> SUFFICES ASSUME NEW d \in K, N \in B[d] PROVE FALSE OBVIOUS
    <2>1. d \in 1 .. N OBVIOUS
    <2>2. N < d BY <2>1, Lower
    <2> QED BY <1>0, <2>1, <2>2
<1>2. DOMAIN <<Root>> = {1} /\ <<Root>>[1] = N BY DEF Root
<1>3. <<Root>> \in Seq(1 .. N) BY <1>0 DEF Root
<1> QED BY <1>1, <1>2, <1>3 DEF Ready, Apart, Leads

\* Only loggers are reached.
LEMMA CoverIn ==
    ASSUME NEW T, Graph(T), NEW B, Reach(T, B), NEW s \in Seq(1 .. N)
    PROVE  Cover(B, s) \subseteq 1 .. N
<1> SUFFICES ASSUME NEW z \in Cover(B, s) PROVE z \in 1 .. N OBVIOUS
<1>1. PICK k \in DOMAIN s : z \in Down(B, s[k]) BY InCover
<1>2. s[k] \in 1 .. N BY Places
<1> QED BY <1>1, <1>2, Lower DEF Down

-----------------------------------------------------------------------------
(* Order on the streams of a tree.                                          *)

\* All that b has accepted, in that order: passed on or pending.
Line(b) == forwarded[b] \o Pending(b)

\* x stands before y.
Before(s, x, y) == \E k, l \in DOMAIN s : k < l /\ s[k] = x /\ s[l] = y

\* x has reached p.
At(p, x) == Has(p, x) \/ x \in ToSet(written[p])

\* The thread of b has, or had, x.
Popped(b, x) == x \in ToSet(forwarded[b]) \/ (pc[b] = "send" /\ next[b] = x)

\* Every thread has its calls ahead of it.
Ahead(B, K) == \A t \in Threads : Ready(B, K, t, todo[t])

\* A message has reached none of the loggers it may yet reach.
Fresh(B) ==
    /\ \A m \in Msg : pc[m] = "new" => \A p \in 1 .. N : ~At(p, m)
    /\ \A t \in Threads : \A p \in Cover(B, todo[t]) : ~At(p, Entry(t))

\* Nothing is accepted twice.
Single == \A b \in 1 .. N : \A k, l \in DOMAIN Line(b) : Line(b)[k] = Line(b)[l] => k = l

\* What has reached a logger has been popped by every background logger above it.
Thru(B, K) == \A b \in K : \A p \in B[b], x \in Msg : At(p, x) => Popped(b, x)

\* What stands in line, or on a stream, in some order stands so in every line above.
Ord(B, K) ==
    \A b \in K : \A p \in B[b], x, y \in Msg :
        Before(Line(p), x, y) \/ Before(written[p], x, y) => Before(Line(b), x, y)

\* The invariant of StreamsInOrder, for a fixed graph.
OrderInv(B, K) == Ahead(B, K) /\ Fresh(B) /\ Single /\ Thru(B, K) /\ Ord(B, K)

\* The graph and what follows from it.
Layout(T, B, K) ==
    /\ T = To /\ Graph(T) /\ Tree(T) /\ Reach(T, B)
    /\ K = Background /\ K \subseteq 1 .. N

\* And for the graph of the state.
OInv == PendingKnown /\ \E T, B, K : Layout(T, B, K) /\ OrderInv(B, K)

\* A step that keeps the graph keeps all that follows from it.
LEMMA LayoutKept ==
    ASSUME NEW T, NEW B, NEW K, Layout(T, B, K), To' = To, Background' = Background
    PROVE  Layout(T, B, K)'
BY DEF Layout

\* Lines hold items.
LEMMA LineTyped ==
    ASSUME IInv, DInv, PendingKnown, NEW b \in 1 .. N
    PROVE  forwarded[b] \in Seq(Items) /\ Pending(b) \in Seq(Items) /\ Line(b) \in Seq(Items)
<1>1. forwarded[b] \in Seq(Items)
    <2>1. forwarded[b] \in Seq(Msg) /\ Msg \subseteq Items BY DEF DInv, Logged, Items
    <2> QED BY <2>1, SeqMonotonic
<1>2. Accepted(queue[b], b) \in Seq(Items)
    <2>1. queue[b] \in Seq(Items) BY DEF IInv, Shape
    <2>2. PICK n : Cut(queue[b], b, n) BY <2>1, CutExists
    <2> QED BY <2>1, <2>2, CutAt
<1>3. Taken(b) \in Seq(Items)
    <2>1. pc[b] = "send" => next[b] \in Items BY DEF IInv, Travel, Items
    <2>2. \A S : \A x \in S : <<x>> \in Seq(S) OBVIOUS
    <2>3. \A S : <<>> \in Seq(S) OBVIOUS
    <2> QED BY <2>1, <2>2, <2>3 DEF Taken
<1>4. Pending(b) \in Seq(Items)
    <2>1. \A S : <<>> \in Seq(S) OBVIOUS
    <2>2. Taken(b) \o Accepted(queue[b], b) \in Seq(Items) BY <1>2, <1>3, Places
    <2> QED BY <2>1, <2>2 DEF PendingKnown
<1>5. Line(b) \in Seq(Items) BY <1>1, <1>4, Places DEF Line
<1> QED BY <1>1, <1>4, <1>5

\* What a logger was told to take, it was called with.
LEMMA LineSeen ==
    ASSUME IInv, DInv, PendingKnown, NEW b \in 1 .. N, NEW x \in Msg, NEW k \in DOMAIN Line(b),
           Line(b)[k] = x
    PROVE  At(b, x)
<1> DEFINE f == forwarded[b]
           p == Pending(b)
           a == Accepted(queue[b], b)
           tk == Taken(b)
<1>1. f \in Seq(Items) /\ p \in Seq(Items) BY LineTyped
<1>2. \/ k \in DOMAIN f /\ f[k] = x
      \/ k - Len(f) \in DOMAIN p /\ p[k - Len(f)] = x
    <2>1. k \in DOMAIN (f \o p) /\ (f \o p)[k] = x BY DEF Line
    <2> HIDE DEF f, p
    <2> QED BY <1>1, <2>1, Places
<1>3. CASE k \in DOMAIN f /\ f[k] = x BY <1>3 DEF At, Has, ToSet
<1>4. CASE k - Len(f) \in DOMAIN p /\ p[k - Len(f)] = x
    <2>1. PICK i \in DOMAIN p : p[i] = x BY <1>4
    <2>2. queue[b] \in Seq(Items) BY DEF IInv, Shape
    <2>3. PICK n : Cut(queue[b], b, n) BY <2>2, CutExists
    <2>4. a = SubSeq(queue[b], 1, n) /\ a \in Seq(Items) /\ n \in 0 .. Len(queue[b])
        <3>1. n \in 0 .. Len(queue[b]) BY <2>3 DEF Cut
        <3> QED BY <2>2, <2>3, <3>1, CutAt
    <2>5. \A j \in DOMAIN a : j \in DOMAIN queue[b] /\ a[j] = queue[b][j]
        <3> DEFINE q == queue[b]
        <3>1. q \in Seq(Items) /\ n \in 0 .. Len(q) BY <2>2, <2>4
        <3> HIDE DEF q
        <3>2. \A j \in DOMAIN SubSeq(q, 1, n) : j \in DOMAIN q /\ SubSeq(q, 1, n)[j] = q[j]
            BY <3>1
        <3> QED BY <2>4, <3>2 DEF q
    <2>6. p = <<>> \/ p = tk \o a BY DEF PendingKnown
    <2>7. p # <<>> BY <2>1
    <2>8. tk \in Seq(Items)
        <3>1. pc[b] = "send" => next[b] \in Items BY DEF IInv, Travel, Items
        <3>2. \A S : \A y \in S : <<y>> \in Seq(S) OBVIOUS
        <3>3. \A S : <<>> \in Seq(S) OBVIOUS
        <3> QED BY <3>1, <3>2, <3>3 DEF Taken
    <2>9. (\E j \in DOMAIN tk : tk[j] = x) \/ (\E j \in DOMAIN a : a[j] = x)
        <3>1. i \in DOMAIN (tk \o a) /\ (tk \o a)[i] = x BY <2>1, <2>6, <2>7
        <3> HIDE DEF tk, a
        <3> QED BY <2>4, <2>8, <3>1, Places
    <2>10. ASSUME NEW j \in DOMAIN tk, tk[j] = x PROVE next[b] = x
        BY <2>10 DEF Taken
    <2>11. ASSUME NEW j \in DOMAIN a, a[j] = x PROVE x \in ToSet(queue[b])
        BY <2>5, <2>11 DEF ToSet
    <2> QED BY <2>9, <2>10, <2>11 DEF At, Has
<1> QED BY <1>2, <1>3, <1>4

\* Two threads do not walk with one message.
LEMMA Alone ==
    ASSUME IInv, NEW t \in Threads, NEW u \in Threads, todo[t] # <<>>, todo[u] # <<>>,
           Entry(t) = Entry(u)
    PROVE  t = u
<1>1. /\ pc[t] = "send" /\ del[t] /\ pc[u] = "send" /\ del[u] BY DEF IInv, Travel
<1>2. PICK m \in Msg : m = Entry(t) BY <1>1, EntrySent
<1>3. Walks(t, m) /\ Walks(u, m) BY <1>1, <1>2 DEF Walks
<1> QED BY <1>3 DEF IInv, Held, AtMostOne

\* A message that walks is not new.
LEMMA NotNew ==
    ASSUME IInv, NEW t \in Threads, todo[t] # <<>>
    PROVE  Entry(t) \in Msg /\ pc[Entry(t)] # "new"
<1>1. pc[t] = "send" /\ del[t] BY DEF IInv, Travel
<1>2. PICK m \in Msg : m = Entry(t) BY <1>1, EntrySent
<1>3. Walks(t, m) BY <1>1, <1>2 DEF Walks
<1> QED BY <1>2, <1>3 DEF IInv, Held, NoWalker

\* A thread that has nobody to call.
LEMMA EmptyReady == \A B, K, t : Ready(B, K, t, <<>>) /\ Cover(B, <<>>) = {}
BY DEF Ready, Apart, Leads, Cover

\* One thread goes on, and nobody else's message appears anywhere.
LEMMA AheadStep ==
    ASSUME IInv, NEW B, NEW K, Ahead(B, K), Fresh(B), NEW t \in Threads, NEW s,
           \A u \in Threads : u # t => todo'[u] = todo[u],
           todo'[t] = s, Ready(B, K, t, s), \A p \in Cover(B, s) : ~At(p, Entry(t))',
           \A u \in Threads : Cover(B, todo[u]) \subseteq 1 .. N,
           \A u \in Threads : u # t /\ todo[u] # <<>> => Entry(u)' = Entry(u),
           \A u \in Threads : u # t /\ todo[u] # <<>> =>
              \A p \in 1 .. N : At(p, Entry(u))' => At(p, Entry(u)),
           \A m \in Msg : pc'[m] = "new" =>
              pc[m] = "new" /\ \A p \in 1 .. N : At(p, m)' => At(p, m)
    PROVE  Ahead(B, K)' /\ Fresh(B)'
<1>1. Ahead(B, K)' BY DEF Ahead
<1>2. ASSUME NEW u \in Threads, NEW p \in Cover(B, todo'[u]) PROVE ~At(p, Entry(u))'
    <2>1. CASE u = t BY <1>2, <2>1
    <2>2. CASE u # t
        <3>1. todo'[u] = todo[u] /\ p \in Cover(B, todo[u]) BY <1>2, <2>2
        <3>2. todo[u] # <<>> BY <3>1, EmptyReady
        <3>3. PICK e \in Msg : e = Entry(u) BY <3>2, NotNew
        <3>4. ~At(p, e) /\ p \in 1 .. N BY <3>1, <3>3 DEF Fresh
        <3>5. ~At(p, e)' BY <2>2, <3>2, <3>3, <3>4
        <3>6. Entry(u)' = e BY <2>2, <3>2, <3>3
        <3> QED BY <3>5, <3>6 DEF At, Has
    <2> QED BY <2>1, <2>2
<1>3. Fresh(B)' BY <1>2 DEF Fresh
<1> QED BY <1>1, <1>3

\* Everything stays on its way.
LEMMA KeptStep ==
    ASSUME NEW B, NEW K, K \subseteq 1 .. N, \A b \in K : B[b] \subseteq 1 .. N,
           Single, Thru(B, K), Ord(B, K),
           \A b \in 1 .. N : Line(b)' = Line(b), UNCHANGED written,
           \A p \in 1 .. N, x \in Msg : At(p, x)' => At(p, x),
           \A b \in 1 .. N, x \in Msg : Popped(b, x) => Popped(b, x)'
    PROVE  Single' /\ Thru(B, K)' /\ Ord(B, K)'
<1>1. Single' BY DEF Single
<1>2. Thru(B, K)' BY DEF Thru
<1>3. ASSUME NEW b \in K, NEW p \in B[b], NEW x \in Msg, NEW y \in Msg
      PROVE  (Before(Line(p), x, y) \/ Before(written[p], x, y) => Before(Line(b), x, y))'
    <2>1. Line(b)' = Line(b) /\ Line(p)' = Line(p) /\ written'[p] = written[p] OBVIOUS
    <2>2. Before(Line(p), x, y) \/ Before(written[p], x, y) => Before(Line(b), x, y) BY DEF Ord
    <2>3. Before(Line(p), x, y)' <=> Before(Line(p), x, y) BY <2>1 DEF Before
    <2>4. Before(Line(b), x, y)' <=> Before(Line(b), x, y) BY <2>1 DEF Before
    <2>5. Before(written[p], x, y)' <=> Before(written[p], x, y) BY <2>1 DEF Before
    <2> QED BY <2>2, <2>3, <2>4, <2>5
<1>4. Ord(B, K)' BY <1>3 DEF Ord
<1> QED BY <1>1, <1>2, <1>4

-----------------------------------------------------------------------------
(* A message reaches one more logger.                                       *)

\* What Append does to the order.
LEMMA BeforeAppend ==
    ASSUME NEW S, NEW s \in Seq(S), NEW e \in S, NEW x, NEW y
    PROVE  /\ Before(s, x, y) => Before(Append(s, e), x, y)
           /\ Before(Append(s, e), x, y) =>
                Before(s, x, y) \/ (y = e /\ \E k \in DOMAIN s : s[k] = x)
<1> DEFINE a == Append(s, e)
<1>1. /\ DOMAIN s = 1 .. Len(s) /\ Len(s) \in Nat /\ DOMAIN a = 1 .. (Len(s) + 1)
      /\ a[Len(s) + 1] = e /\ \A i \in DOMAIN s : a[i] = s[i]
    BY Appended
<1> HIDE DEF a
<1>2. Before(s, x, y) => Before(a, x, y)
    <2> SUFFICES ASSUME Before(s, x, y) PROVE Before(a, x, y) OBVIOUS
    <2>1. PICK k, l \in DOMAIN s : k < l /\ s[k] = x /\ s[l] = y BY DEF Before
    <2>2. k \in DOMAIN a /\ l \in DOMAIN a /\ a[k] = x /\ a[l] = y BY <1>1, <2>1
    <2> QED BY <2>1, <2>2 DEF Before
<1>3. Before(a, x, y) => Before(s, x, y) \/ (y = e /\ \E k \in DOMAIN s : s[k] = x)
    <2> SUFFICES ASSUME Before(a, x, y)
                 PROVE  Before(s, x, y) \/ (y = e /\ \E k \in DOMAIN s : s[k] = x)
        OBVIOUS
    <2>1. PICK k, l \in DOMAIN a : k < l /\ a[k] = x /\ a[l] = y BY DEF Before
    <2>2. k \in DOMAIN s /\ s[k] = x BY <1>1, <2>1
    <2>3. CASE l = Len(s) + 1 BY <1>1, <2>1, <2>2, <2>3
    <2>4. CASE l # Len(s) + 1
        <3>1. l \in DOMAIN s /\ s[l] = y BY <1>1, <2>1, <2>4
        <3> QED BY <2>1, <2>2, <3>1 DEF Before
    <2> QED BY <2>3, <2>4
<1> QED BY <1>2, <1>3 DEF a

\* The loggers behind a thread's next one.
LEMMA HeadIs ==
    ASSUME IInv, NEW B, NEW K, Ahead(B, K), Fresh(B), NEW t \in Threads, todo[t] # <<>>,
           NEW h, h = Head(todo[t])
    PROVE  /\ todo[t] \in Seq(1 .. N) /\ h \in 1 .. N /\ h \in Cover(B, todo[t])
           /\ h \notin Cover(B, Tail(todo[t]))
           /\ Cover(B, Tail(todo[t])) \subseteq Cover(B, todo[t])
           /\ Ready(B, K, t, todo[t]) /\ Ready(B, K, t, Tail(todo[t]))
           /\ 1 \in DOMAIN todo[t] /\ todo[t][1] = h
           /\ pc[t] = "send" /\ ~At(h, Entry(t))
<1>1. todo[t] \in Seq(1 .. N) /\ pc[t] = "send" BY DEF IInv, Shape, Travel
<1>2. Ready(B, K, t, todo[t]) BY DEF Ahead
<1>3. h \in 1 .. N /\ 1 \in DOMAIN todo[t] /\ todo[t][1] = h BY <1>1, Dropped
<1>4. /\ Ready(B, K, t, Tail(todo[t]))
      /\ Cover(B, Tail(todo[t])) \subseteq Cover(B, todo[t])
      /\ h \in Cover(B, todo[t]) /\ h \notin Cover(B, Tail(todo[t]))
    BY <1>1, <1>2, ReadyTail
<1>5. ~At(h, Entry(t)) BY <1>4 DEF Fresh
<1> QED BY <1>1, <1>2, <1>3, <1>4, <1>5

\* Whatever forwards to a thread's next logger has the thread's message, behind
\* all that this logger has seen.
LEMMA WayOn ==
    ASSUME IInv, DInv, PendingKnown, NEW T, NEW B, NEW K, Layout(T, B, K), OrderInv(B, K),
           NEW t \in Threads, todo[t] # <<>>, NEW h \in 1 .. N, h = Head(todo[t]),
           NEW e \in Msg, e = Entry(t), NEW b \in K, h \in B[b]
    PROVE  /\ Popped(b, e)
           /\ \A x \in Msg : At(h, x) => Before(Line(b), x, e)
<1>1. 1 \in DOMAIN todo[t] /\ todo[t][1] = h /\ Ready(B, K, t, todo[t])
        /\ pc[t] = "send" /\ ~At(h, e)
    BY HeadIs DEF OrderInv
<1>2. t \in 1 .. N /\ t \in Down(B, b) /\ t \in K /\ h \in B[t]
    BY <1>1 DEF Ready, Leads
<1>3. next[t] = e /\ e # t BY <1>2, Names DEF Entry
<1>4. Popped(t, e) BY <1>1, <1>3 DEF Popped
<1>5. At(t, e) BY <1>3 DEF At, Has
<1>6. t = b \/ t \in B[b] BY <1>2 DEF Down
<1>7. Popped(b, e) BY <1>4, <1>5, <1>6 DEF OrderInv, Thru
<1>8. ASSUME NEW x \in Msg, At(h, x) PROVE Before(Line(b), x, e)
    <2>1. Popped(t, x) BY <1>2, <1>8 DEF OrderInv, Thru
    <2>2. x \in ToSet(forwarded[t]) BY <1>1, <1>3, <1>8, <2>1 DEF Popped
    <2>3. PICK k \in DOMAIN forwarded[t] : forwarded[t][k] = x BY <2>2 DEF ToSet
    <2>4. Pending(t) = <<e>> \o Accepted(queue[t], t)
        BY <1>1, <1>2, <1>3 DEF PendingKnown, Taken
    <2> DEFINE f == forwarded[t]
               p == Pending(t)
               a == Accepted(queue[t], t)
    <2>5. f \in Seq(Items) /\ p \in Seq(Items) BY <1>2, LineTyped
    <2>6. 1 \in DOMAIN p /\ p[1] = e
        <3>1. queue[t] \in Seq(Items) BY <1>2 DEF IInv, Shape
        <3>2. PICK n : Cut(queue[t], t, n) BY <3>1, CutExists
        <3>3. a \in Seq(Items) /\ e \in Items BY <3>1, <3>2, CutAt, Names
        <3> HIDE DEF a
        <3>4. 1 \in DOMAIN (<<e>> \o a) /\ (<<e>> \o a)[1] = e BY <3>3
        <3> QED BY <2>4, <3>4 DEF a
    <2>7. Before(Line(t), x, e)
        <3> HIDE DEF f, p
        <3>1. /\ k \in DOMAIN (f \o p) /\ (f \o p)[k] = x
              /\ 1 + Len(f) \in DOMAIN (f \o p) /\ (f \o p)[1 + Len(f)] = e
              /\ DOMAIN f = 1 .. Len(f) /\ Len(f) \in Nat
            BY <2>3, <2>5, <2>6, Places DEF f
        <3>2. k < 1 + Len(f) BY <2>3, <3>1 DEF f
        <3>3. Before(f \o p, x, e) BY <3>1, <3>2 DEF Before
        <3> QED BY <3>3 DEF Line, f, p
    <2>8. CASE t = b BY <2>7, <2>8
    <2>9. CASE t \in B[b] BY <2>7, <2>9 DEF OrderInv, Ord
    <2> QED BY <1>6, <2>8, <2>9
<1> QED BY <1>7, <1>8

\* A message is written by the next logger, or pushed.
LEMMA Landed ==
    ASSUME IInv, DInv, PendingKnown, NEW T, NEW B, NEW K, Layout(T, B, K), OrderInv(B, K),
           NEW t \in Threads, todo[t] # <<>>, NEW h \in 1 .. N, h = Head(todo[t]),
           NEW e \in Msg, e = Entry(t),
           \A u \in Threads : u # t => todo'[u] = todo[u],
           todo'[t] \in {<<>>, Tail(todo[t])},
           UNCHANGED <<next, forwarded>>,
           \A u \in Threads :
               pc'[u] \in {"send", "new"} \/ pc[u] \in {"send", "new"} => pc'[u] = pc[u],
           \A p \in 1 .. N, x \in Msg : At(p, x)' => At(p, x) \/ (p = h /\ x = e),
           \A c \in 1 .. N : c # h => Line(c)' = Line(c) /\ written'[c] = written[c],
           Line(h)' = Line(h) \/ Line(h)' = Append(Line(h), e),
           written'[h] = written[h] \/ written'[h] = Append(written[h], e)
    PROVE  OrderInv(B, K)'
<1>1. /\ h \in Cover(B, todo[t])
      /\ h \notin Cover(B, Tail(todo[t])) /\ Cover(B, Tail(todo[t])) \subseteq Cover(B, todo[t])
      /\ Ready(B, K, t, Tail(todo[t]))
      /\ ~At(h, e)
    BY HeadIs DEF OrderInv
<1>0. Graph(T) /\ Reach(T, B) /\ K \subseteq 1 .. N BY DEF Layout
<1>2. \A i \in 1 .. N : \A p \in B[i] : p \in 1 .. N /\ p < i BY <1>0, Lower
<1>3. \A u \in Threads : todo[u] \in Seq(1 .. N) BY DEF IInv, Shape
<1>4. \A u \in Threads : Cover(B, todo[u]) \subseteq 1 .. N BY <1>0, <1>3, CoverIn
<1>5. Ahead(B, K)' /\ Fresh(B)'
    <2>1. Entry(t)' = e /\ \A u \in Threads : Entry(u)' = Entry(u) BY DEF Entry
    <2>2. \A u \in Threads : u # t /\ todo[u] # <<>> => Entry(u) \in Msg /\ Entry(u) # e
        BY Alone, NotNew
    <2>3. \A m \in Msg : pc'[m] = "new" => pc[m] = "new" /\ m # e
        <3>1. pc[e] # "new" BY NotNew
        <3>2. \A m \in Msg : m \in Threads BY Names
        <3> QED BY <3>1, <3>2
    <2>4. PICK s : s = todo'[t] OBVIOUS
    <2>5. Ready(B, K, t, s) BY <1>1, <2>4, EmptyReady
    <2>6. \A p \in Cover(B, s) : ~At(p, e)'
        <3>1. \A p \in Cover(B, s) : p # h /\ p \in Cover(B, todo[t]) BY <1>1, <2>4, EmptyReady
        <3>2. \A p \in Cover(B, s) : ~At(p, e) /\ p \in 1 .. N
            BY <1>4, <3>1 DEF OrderInv, Fresh
        <3> QED BY <3>1, <3>2
    <2>7. \A p \in Cover(B, s) : ~At(p, Entry(t))' BY <2>1, <2>6 DEF At, Has
    <2>8. \A u \in Threads : u # t /\ todo[u] # <<>> =>
              \A p \in 1 .. N : At(p, Entry(u))' => At(p, Entry(u))
        <3> SUFFICES ASSUME NEW u \in Threads, u # t, todo[u] # <<>>, NEW p \in 1 .. N
                     PROVE  At(p, Entry(u))' => At(p, Entry(u))
            OBVIOUS
        <3>1. PICK x \in Msg : x = Entry(u) /\ x # e BY <2>2
        <3>2. At(p, x)' => At(p, x) BY <3>1
        <3>3. Entry(u)' = x BY <2>1, <3>1
        <3> QED BY <3>1, <3>2, <3>3 DEF At, Has
    <2> QED BY <1>4, <2>1, <2>3, <2>4, <2>5, <2>7, <2>8, AheadStep DEF OrderInv
<1>6. \A c \in 1 .. N : Line(c) \in Seq(Items) BY LineTyped
<1>7. e \in Items BY Names
<1>8. Single'
    <2>1. ASSUME NEW c \in 1 .. N, c # h, NEW k \in DOMAIN Line(c)', NEW l \in DOMAIN Line(c)',
                 Line(c)'[k] = Line(c)'[l]
          PROVE  k = l
        <3>1. Line(c)' = Line(c) BY <2>1
        <3> QED BY <2>1, <3>1 DEF OrderInv, Single
    <2>2. ASSUME NEW k \in DOMAIN Line(h)', NEW l \in DOMAIN Line(h)', Line(h)'[k] = Line(h)'[l]
          PROVE  k = l
        <3>1. CASE Line(h)' = Line(h) BY <2>2, <3>1 DEF OrderInv, Single
        <3>2. CASE Line(h)' = Append(Line(h), e)
            <4> DEFINE s == Line(h)
            <4>1. /\ DOMAIN s = 1 .. Len(s) /\ Len(s) \in Nat
                  /\ DOMAIN Line(h)' = 1 .. (Len(s) + 1)
                  /\ Line(h)'[Len(s) + 1] = e
                  /\ \A i \in DOMAIN s : Line(h)'[i] = s[i]
                BY <1>6, <1>7, <3>2, Appended
            <4>2. \A i \in DOMAIN s : s[i] # e BY <1>1, LineSeen
            <4>3. \A i, j \in DOMAIN s : s[i] = s[j] => i = j BY DEF OrderInv, Single
            <4> HIDE DEF s
            <4> QED BY <2>2, <4>1, <4>2, <4>3
        <3> QED BY <3>1, <3>2
    <2>3. ASSUME NEW c \in 1 .. N, NEW k \in DOMAIN Line(c)', NEW l \in DOMAIN Line(c)',
                 Line(c)'[k] = Line(c)'[l]
          PROVE  k = l
        BY <2>1, <2>2, <2>3
    <2> QED BY <2>3 DEF Single
<1>9. \A b \in 1 .. N, x \in Msg : Popped(b, x)' <=> Popped(b, x) BY Names DEF Popped
<1>10. Thru(B, K)'
    <2>1. ASSUME NEW b \in K, NEW p \in B[b], NEW x \in Msg, At(p, x)' PROVE Popped(b, x)'
        <3>1. b \in 1 .. N /\ p \in 1 .. N BY <1>0, <1>2
        <3>2. CASE At(p, x) BY <1>9, <3>1, <3>2 DEF OrderInv, Thru
        <3>3. CASE p = h /\ x = e
            <4>1. Popped(b, e) BY <3>3, WayOn
            <4> QED BY <1>9, <3>1, <3>3, <4>1
        <3> QED BY <2>1, <3>1, <3>2, <3>3
    <2> QED BY <2>1 DEF Thru
<1>11. Ord(B, K)'
    <2>1. ASSUME NEW b \in K, NEW p \in B[b], NEW x \in Msg, NEW y \in Msg,
                 Before(Line(p)', x, y) \/ Before(written'[p], x, y)
          PROVE  Before(Line(b)', x, y)
        <3>1. b \in 1 .. N /\ p \in 1 .. N /\ p # b BY <1>0, <1>2
        <3>2. Before(Line(b), x, y) => Before(Line(b)', x, y)
            <4>1. PICK s \in Seq(Items) : s = Line(b) BY <1>6, <3>1
            <4>2. Line(b)' = s \/ Line(b)' = Append(s, e) BY <3>1, <4>1
            <4>3. Before(s, x, y) => Before(Append(s, e), x, y) BY <1>7, BeforeAppend
            <4> QED BY <4>1, <4>2, <4>3
        <3>3. CASE Before(Line(p), x, y) \/ Before(written[p], x, y)
            BY <3>2, <3>3 DEF OrderInv, Ord
        <3>4. CASE ~(Before(Line(p), x, y) \/ Before(written[p], x, y))
            <4>1. p = h BY <2>1, <3>1, <3>4
            <4>2. y = e /\ At(h, x)
                <5>1. CASE Before(Line(p)', x, y)
                    <6>1. Line(h)' = Append(Line(h), e) BY <3>4, <4>1, <5>1
                    <6>2. y = e /\ \E k \in DOMAIN Line(h) : Line(h)[k] = x
                        <7>1. PICK s \in Seq(Items) : s = Line(h) BY <1>6
                        <7>2. Before(Append(s, e), x, y) /\ ~Before(s, x, y)
                            BY <3>4, <4>1, <5>1, <6>1, <7>1
                        <7>3. y = e /\ \E k \in DOMAIN s : s[k] = x
                            BY <1>7, <7>2, BeforeAppend
                        <7> QED BY <7>1, <7>3
                    <6> QED BY <6>2, LineSeen
                <5>2. CASE Before(written'[p], x, y)
                    <6>1. written'[h] = Append(written[h], e) BY <3>4, <4>1, <5>2
                    <6>2. written[h] \in Seq(Msg) BY DEF DInv, Logged
                    <6>3. y = e /\ \E k \in DOMAIN written[h] : written[h][k] = x
                        BY <3>4, <4>1, <5>2, <6>1, <6>2, BeforeAppend
                    <6> QED BY <6>3 DEF At, ToSet
                <5> QED BY <2>1, <5>1, <5>2
            <4>3. Before(Line(b), x, y) BY <4>1, <4>2, WayOn
            <4> QED BY <3>2, <4>3
        <3> QED BY <3>3, <3>4
    <2>2. \A b \in K : \A p \in B[b], x, y \in Msg :
            Before(Line(p)', x, y) \/ Before(written'[p], x, y) => Before(Line(b)', x, y)
        BY <2>1
    <2> QED BY <2>2 DEF Ord, Before
<1> QED BY <1>5, <1>8, <1>10, <1>11 DEF OrderInv

-----------------------------------------------------------------------------
(* Every other step.                                                        *)

\* No message arrives anywhere.
LEMMA GoneOn ==
    ASSUME IInv, NEW T, NEW B, NEW K, Layout(T, B, K), OrderInv(B, K),
           NEW t \in Threads, NEW s,
           \A u \in Threads : u # t => todo'[u] = todo[u],
           todo'[t] = s, Ready(B, K, t, s), \A p \in Cover(B, s) : ~At(p, Entry(t))',
           \A u \in Threads : u # t /\ todo[u] # <<>> => Entry(u)' = Entry(u),
           \A m \in Msg : pc'[m] = "new" => pc[m] = "new",
           \A p \in 1 .. N, x \in Msg : At(p, x)' => At(p, x),
           \A b \in 1 .. N : Line(b)' = Line(b), UNCHANGED written,
           \A b \in 1 .. N, x \in Msg : Popped(b, x) => Popped(b, x)'
    PROVE  OrderInv(B, K)'
<1>0. Graph(T) /\ Reach(T, B) /\ K \subseteq 1 .. N BY DEF Layout
<1>1. \A b \in K : B[b] \subseteq 1 .. N BY <1>0, Lower
<1>2. \A u \in Threads : todo[u] \in Seq(1 .. N) BY DEF IInv, Shape
<1>3. \A u \in Threads : Cover(B, todo[u]) \subseteq 1 .. N BY <1>0, <1>2, CoverIn
<1>4. \A u \in Threads : u # t /\ todo[u] # <<>> =>
          \A p \in 1 .. N : At(p, Entry(u))' => At(p, Entry(u))
    <2> SUFFICES ASSUME NEW u \in Threads, u # t, todo[u] # <<>>, NEW p \in 1 .. N
                 PROVE  At(p, Entry(u))' => At(p, Entry(u))
        OBVIOUS
    <2>1. PICK x \in Msg : x = Entry(u) BY NotNew
    <2>2. At(p, x)' => At(p, x) OBVIOUS
    <2>3. Entry(u)' = x BY <2>1
    <2> QED BY <2>1, <2>2, <2>3 DEF At, Has
<1>5. Ahead(B, K)' /\ Fresh(B)' BY <1>3, <1>4, AheadStep DEF OrderInv
<1>6. Single' /\ Thru(B, K)' /\ Ord(B, K)' BY <1>0, <1>1, KeptStep DEF OrderInv
<1> QED BY <1>5, <1>6 DEF OrderInv

\* Nobody goes on.
LEMMA StayedOn ==
    ASSUME IInv, NEW T, NEW B, NEW K, Layout(T, B, K), OrderInv(B, K), UNCHANGED todo,
           \A u \in Threads : todo[u] # <<>> => Entry(u)' = Entry(u),
           \A m \in Msg : pc'[m] = "new" => pc[m] = "new",
           \A p \in 1 .. N, x \in Msg : At(p, x)' => At(p, x),
           \A b \in 1 .. N : Line(b)' = Line(b), UNCHANGED written,
           \A b \in 1 .. N, x \in Msg : Popped(b, x) => Popped(b, x)'
    PROVE  OrderInv(B, K)'
<1>1. N \in Threads BY GraphAssumption DEF Threads
<1>2. PICK s : s = todo[N] OBVIOUS
<1>3. Graph(T) /\ Reach(T, B) BY DEF Layout
<1>4. Ready(B, K, N, s) BY <1>1, <1>2 DEF OrderInv, Ahead
<1>5. ASSUME NEW p \in Cover(B, s) PROVE ~At(p, Entry(N))'
    <2>1. todo[N] # <<>> BY <1>2, EmptyReady
    <2>2. PICK e \in Msg : e = Entry(N) BY <1>1, <2>1, NotNew
    <2>3. s \in Seq(1 .. N) BY <1>1, <1>2 DEF IInv, Shape
    <2>4. p \in 1 .. N BY <1>3, <2>3, CoverIn
    <2>5. ~At(p, e) BY <1>1, <1>2, <2>2 DEF OrderInv, Fresh
    <2>6. ~At(p, e)' BY <2>4, <2>5
    <2>7. Entry(N)' = e BY <1>1, <2>1, <2>2
    <2> QED BY <2>6, <2>7 DEF At, Has
<1> QED BY <1>1, <1>2, <1>4, <1>5, GoneOn

\* What is pending depends on the queue and the thread.
LEMMA SamePends ==
    ASSUME PendingKnown, PendingKnown', UNCHANGED <<queue, next>>,
           \A b \in 1 .. N : pc'[b] = "send" <=> pc[b] = "send"
    PROVE  \A b \in 1 .. N : Pending(b)' = Pending(b)
BY DEF PendingKnown, Taken

\* Steps that move no message at all.
LEMMA StillOrdered ==
    ASSUME IInv, PendingKnown, PendingKnown', NEW T, NEW B, NEW K, Layout(T, B, K), OrderInv(B, K),
           UNCHANGED <<todo, queue, next, forwarded, written>>,
           \A b \in 1 .. N : pc'[b] = "send" <=> pc[b] = "send",
           \A m \in Msg : pc'[m] = "new" => pc[m] = "new"
    PROVE  OrderInv(B, K)'
<1>1. \A b \in 1 .. N : Line(b)' = Line(b) BY SamePends DEF Line
<1>2. \A p \in 1 .. N, x \in Msg : At(p, x)' <=> At(p, x) BY DEF At, Has
<1>3. \A b \in 1 .. N, x \in Msg : Popped(b, x)' <=> Popped(b, x) BY DEF Popped
<1>4. \A u \in Threads : Entry(u)' = Entry(u) BY DEF Entry
<1> QED BY <1>1, <1>2, <1>3, <1>4, StayedOn

\* A stream gets a message behind those that were before it above.
LEMMA WrittenInOrder ==
    ASSUME IInv, DInv, PendingKnown, PendingKnown', NEW T, NEW B, NEW K, Layout(T, B, K),
           OrderInv(B, K), NEW t \in Threads, WriteStream(t)
    PROVE  OrderInv(B, K)'
<1>1. todo[t] # <<>> /\ pc[t] = "send" BY DEF WriteStream, Calls
<1>2. PICK h \in 1 .. N : h = Head(todo[t]) BY <1>1, HeadIs DEF OrderInv
<1>3. PICK e \in Msg : e = Entry(t) BY <1>1, EntrySent
<1>4. /\ written' = [written EXCEPT ![h] = Append(@, e)]
      /\ todo' = [todo EXCEPT ![t] = Tail(@)]
      /\ UNCHANGED <<pc, queue, next, forwarded>>
    BY <1>2, <1>3 DEF WriteStream
<1>5. /\ \A u \in Threads : u # t => todo'[u] = todo[u]
      /\ todo'[t] = Tail(todo[t])
      /\ \A c \in 1 .. N : c # h => written'[c] = written[c]
      /\ written[h] \in Seq(Msg) /\ written'[h] = Append(written[h], e)
    BY <1>4 DEF IInv, Shape, DInv, Logged
<1>6. \A c \in 1 .. N : Line(c)' = Line(c) BY <1>4, SamePends DEF Line
<1>7. ToSet(written'[h]) = ToSet(written[h]) \cup {e} BY <1>5, SetOfAppend
<1>8. \A p \in 1 .. N, x \in Msg : At(p, x)' => At(p, x) \/ (p = h /\ x = e)
    BY <1>4, <1>5, <1>7 DEF At, Has
<1>9. todo'[t] \in {<<>>, Tail(todo[t])} BY <1>5
<1>10. UNCHANGED <<pc, next, forwarded>> BY <1>4
<1>11. \A c \in 1 .. N : c # h => Line(c)' = Line(c) /\ written'[c] = written[c]
    BY <1>5, <1>6
<1> QED BY <1>1, <1>2, <1>3, <1>5, <1>6, <1>8, <1>9, <1>10, <1>11, Landed

\* So does a background logger.
LEMMA PushedInOrder ==
    ASSUME IInv, DInv, PendingKnown, PendingKnown', NEW T, NEW B, NEW K, Layout(T, B, K),
           OrderInv(B, K), NEW t \in Threads, Enqueue(t)
    PROVE  OrderInv(B, K)'
<1>1. todo[t] # <<>> /\ pc[t] = "send" BY DEF Enqueue, Calls
<1>2. PICK h \in 1 .. N : h = Head(todo[t]) BY <1>1, HeadIs DEF OrderInv
<1>3. PICK e \in Msg : e = Entry(t) BY <1>1, EntrySent
<1>4. /\ Push(h, e) /\ todo' = [todo EXCEPT ![t] = <<>>]
      /\ UNCHANGED <<next, forwarded, written>>
    BY <1>2, <1>3 DEF Enqueue, Rest
<1>5. (\A u \in Threads : u # t => todo'[u] = todo[u]) /\ todo'[t] = <<>>
    BY <1>4 DEF IInv, Shape
<1>6. /\ \A c \in 1 .. N : c # h => queue'[c] = queue[c]
      /\ queue[h] \in Seq(Items) /\ queue'[h] = Append(queue[h], e)
      /\ \A u \in Threads : pc'[u] = pc[u] \/ (u = h /\ pc[u] = "asleep" /\ pc'[u] = "pop")
    BY <1>4, Names, Pushed
<1>7. /\ \A c \in 1 .. N : c # h => Pending(c)' = Pending(c)
      /\ Pending(h)' = Pending(h) \/ Pending(h)' = Append(Pending(h), e)
    BY <1>2, <1>3, EnqueuePends
<1>8. \A c \in 1 .. N : c # h => Line(c)' = Line(c) BY <1>4, <1>7 DEF Line
<1>9. Line(h)' = Line(h) \/ Line(h)' = Append(Line(h), e)
    <2>1. \A f, p \in Seq(Items) : f \o Append(p, e) = Append(f \o p, e) BY Names
    <2>2. forwarded[h] \in Seq(Items) /\ Pending(h) \in Seq(Items) BY LineTyped
    <2>3. forwarded[h] \o Append(Pending(h), e) = Append(forwarded[h] \o Pending(h), e)
        BY <2>1, <2>2
    <2>4. Line(h)' = forwarded[h] \o Pending(h)' BY <1>4 DEF Line
    <2>5. Line(h) = forwarded[h] \o Pending(h) BY DEF Line
    <2> QED BY <1>7, <2>3, <2>4, <2>5
<1>10. ToSet(queue'[h]) = ToSet(queue[h]) \cup {e} BY <1>6, Names, SetOfAppend
<1>11. \A p \in 1 .. N, x \in Msg : At(p, x)' => At(p, x) \/ (p = h /\ x = e)
    BY <1>4, <1>6, <1>10 DEF At, Has
<1> QED BY <1>1, <1>2, <1>3, <1>4, <1>5, <1>6, <1>8, <1>9, <1>11, Landed

\* Filters and multiplexers pass on where to call.
LEMMA ForwardedInOrder ==
    ASSUME IInv, DInv, PendingKnown, PendingKnown', NEW T, NEW B, NEW K, Layout(T, B, K),
           OrderInv(B, K), NEW t \in Threads, Filter(t) \/ Multiplex(t)
    PROVE  OrderInv(B, K)'
<1>1. todo[t] # <<>> /\ pc[t] = "send" BY DEF Filter, Multiplex, Calls
<1>2. /\ todo[t] \in Seq(1 .. N)
      /\ Cover(B, Tail(todo[t])) \subseteq Cover(B, todo[t])
      /\ Ready(B, K, t, todo[t]) /\ Ready(B, K, t, Tail(todo[t]))
    BY <1>1, HeadIs DEF OrderInv
<1>3. PICK h \in 1 .. N : h = Head(todo[t]) BY <1>1, HeadIs DEF OrderInv
<1>4. Graph(T) /\ Tree(T) /\ Reach(T, B) /\ K \in SUBSET (1 .. N) BY DEF Layout
<1>5. h \notin K BY <1>3 DEF Filter, Multiplex, Calls, Layout, Background
<1>6. logger[h].to = T[h] BY DEF Layout, To
<1>7. PICK s : s = todo'[t] OBVIOUS
<1>8. /\ \A u \in Threads : u # t => todo'[u] = todo[u]
      /\ s = Tail(todo[t]) \/ s = T[h] \o Tail(todo[t])
      /\ UNCHANGED <<pc, queue, next, forwarded, written>>
    BY <1>3, <1>6, <1>7 DEF Filter, Multiplex, IInv, Shape
<1>9. Ready(B, K, t, s) /\ Cover(B, s) \subseteq Cover(B, todo[t])
    <2>1. CASE s = Tail(todo[t]) BY <1>2, <2>1
    <2>2. CASE s = T[h] \o Tail(todo[t])
        <3>1. PICK r \in Seq(1 .. N) : r = todo[t] BY <1>2
        <3>2. /\ Ready(B, K, t, T[h] \o Tail(r))
              /\ Cover(B, T[h] \o Tail(r)) \subseteq Cover(B, r)
            BY <1>1, <1>2, <1>3, <1>4, <1>5, <3>1, ReadyInto
        <3> QED BY <2>2, <3>1, <3>2
    <2> QED BY <1>8, <2>1, <2>2
<1>10. \A p, x : At(p, x)' <=> At(p, x) BY <1>8 DEF At, Has
<1>11. \A u \in Threads : Entry(u)' = Entry(u) BY <1>8 DEF Entry
<1>12. \A p \in Cover(B, s) : ~At(p, Entry(t))'
    <2>1. \A p \in Cover(B, s) : ~At(p, Entry(t)) BY <1>9 DEF OrderInv, Fresh
    <2> QED BY <2>1, <1>8, <1>11 DEF At, Has
<1>13. \A b \in 1 .. N : Line(b)' = Line(b) BY <1>8, SamePends DEF Line
<1>14. \A b \in 1 .. N, x \in Msg : Popped(b, x)' <=> Popped(b, x) BY <1>8 DEF Popped
<1> QED BY <1>7, <1>8, <1>9, <1>10, <1>11, <1>12, <1>13, <1>14, GoneOn

\* A new message starts at the root.
LEMMA FlushedInOrder ==
    ASSUME IInv, DInv, PendingKnown, PendingKnown', NEW T, NEW B, NEW K, Layout(T, B, K),
           OrderInv(B, K), NEW m \in Msg, Flush(m)
    PROVE  OrderInv(B, K)'
<1>1. m \in Threads /\ m \notin 1 .. N BY Names
<1>2. pc[m] = "new" /\ UNCHANGED <<queue, next, forwarded, written>> BY DEF Flush
<1>3. /\ \A u \in Threads : u # m => todo'[u] = todo[u] /\ pc'[u] = pc[u]
      /\ todo'[m] = <<Root>> /\ pc'[m] = "send"
    BY <1>1 DEF Flush, IInv, Shape
<1>4. Graph(T) /\ Reach(T, B) /\ K \in SUBSET (1 .. N) BY DEF Layout
<1>5. <<Root>> \in Seq(1 .. N) /\ Ready(B, K, m, <<Root>>) BY <1>1, <1>4, ReadyRoot
<1>6. Cover(B, <<Root>>) \subseteq 1 .. N BY <1>4, <1>5, CoverIn
<1>7. \A p, x : At(p, x)' <=> At(p, x) BY <1>2 DEF At, Has
<1>8. \A u \in Threads : Entry(u)' = Entry(u) BY <1>2 DEF Entry
<1>9. \A p \in Cover(B, <<Root>>) : ~At(p, Entry(m))'
    <2>1. \A p \in Cover(B, <<Root>>) : ~At(p, m) BY <1>2, <1>6 DEF OrderInv, Fresh
    <2> QED BY <2>1, <1>2 DEF At, Has, Entry
<1>10. \A b \in 1 .. N : pc'[b] = pc[b] BY <1>3, Names
<1>11. \A b \in 1 .. N : Line(b)' = Line(b) BY <1>2, <1>10, SamePends DEF Line
<1>12. \A b \in 1 .. N, x \in Msg : Popped(b, x)' <=> Popped(b, x) BY <1>2, <1>10 DEF Popped
<1>13. \A x \in Msg : pc'[x] = "new" => pc[x] = "new" BY <1>3, Names
<1> QED BY <1>1, <1>2, <1>3, <1>5, <1>7, <1>8, <1>9, <1>11, <1>12, <1>13, GoneOn

\* What is popped has reached nothing further down.
LEMMA PoppedInOrder ==
    ASSUME IInv, DInv, PendingKnown, PendingKnown', NEW T, NEW B, NEW K, Layout(T, B, K),
           OrderInv(B, K), NEW b \in K, Pop(b)
    PROVE  OrderInv(B, K)'
<1>0. b \in 1 .. N /\ b \in Threads /\ b \notin Msg BY Names DEF Layout
<1>1. queue[b] \in Seq(Items) /\ queue[b] # <<>> /\ pc[b] = "pop" /\ todo[b] = <<>>
    BY <1>0 DEF IInv, Shape, Travel, Pop
<1>2. PICK item \in Msg \cup {b} : item = Head(queue[b])
    BY <1>0, <1>1, Dropped DEF IInv, Travel
<1>3. /\ \A u \in Threads : u # b => pc'[u] = pc[u] /\ todo'[u] = todo[u]
      /\ \A c \in 1 .. N : c # b => queue'[c] = queue[c] /\ next'[c] = next[c]
      /\ queue'[b] = Tail(queue[b]) /\ next'[b] = item
      /\ pc'[b] = IF item = b THEN "decide" ELSE "send"
      /\ todo'[b] = IF item = b THEN <<>> ELSE logger[b].to
      /\ UNCHANGED <<forwarded, written>>
    BY <1>0, <1>1, <1>2 DEF Pop, IInv, Shape
<1>4. ToSet(queue[b]) = ToSet(Tail(queue[b])) \cup {item} BY <1>1, <1>2, SetOfTail
<1>5. \A p \in 1 .. N, x \in Msg : At(p, x)' => At(p, x) BY <1>3, <1>4 DEF At, Has
<1>6. \A c \in 1 .. N : Line(c)' = Line(c) BY <1>0, <1>3, PopPends DEF Line
<1>7. \A c \in 1 .. N, x \in Msg : Popped(c, x) => Popped(c, x)'
    BY <1>1, <1>3, Names DEF Popped
<1>8. \A u \in Threads : u # b => Entry(u)' = Entry(u)
    BY <1>3, Names DEF Entry, Threads
<1>9. \A x \in Msg : pc'[x] = "new" => pc[x] = "new" BY <1>0, <1>3, Names
<1>10. PICK s : s = todo'[b] OBVIOUS
<1>11. Graph(T) /\ Tree(T) /\ Reach(T, B) /\ K \in SUBSET (1 .. N) BY DEF Layout
<1>12. Ready(B, K, b, s) /\ \A p \in Cover(B, s) : ~At(p, Entry(b))'
    <2>1. CASE item = b BY <1>3, <1>10, <2>1, EmptyReady
    <2>2. CASE item # b
        <3>1. s = T[b] BY <1>0, <1>3, <1>10, <2>2 DEF Layout, To
        <3>2. Ready(B, K, b, s) /\ Cover(B, s) \subseteq B[b] BY <1>11, <3>1, ReadyStart
        <3>3. item \in Msg /\ Entry(b)' = item BY <1>0, <1>3, <2>2 DEF Entry
        <3>4. item \notin ToSet(forwarded[b])
            <4> SUFFICES ASSUME item \in ToSet(forwarded[b]) PROVE FALSE OBVIOUS
            <4> DEFINE f == forwarded[b]
                       p == Pending(b)
                       a == Accepted(Tail(queue[b]), b)
            <4>1. PICK k \in DOMAIN f : f[k] = item BY DEF ToSet
            <4>2. f \in Seq(Items) /\ p \in Seq(Items) BY <1>0, LineTyped
            <4>3. next[b] # b /\ Taken(b) = <<>> BY <1>0, <1>1 DEF DInv, Dummies, Taken
            <4>4. Accepted(queue[b], b) = <<item>> \o a BY <1>1, <1>2, <2>2, AcceptedFirst
            <4>5. a \in Seq(Items)
                <5>1. Tail(queue[b]) \in Seq(Items) BY <1>1, Dropped
                <5>2. PICK n : Cut(Tail(queue[b]), b, n) BY <5>1, CutExists
                <5> QED BY <5>1, <5>2, CutAt
            <4>6. 1 \in DOMAIN p /\ p[1] = item
                <5>1. item \in Items BY <3>3, Names
                <5>2. p = <<>> \o (<<item>> \o a) BY <1>0, <4>3, <4>4 DEF PendingKnown
                <5> HIDE DEF a, p
                <5>3. <<>> \o (<<item>> \o a) = <<item>> \o a BY <4>5, <5>1
                <5>4. 1 \in DOMAIN (<<item>> \o a) /\ (<<item>> \o a)[1] = item BY <4>5, <5>1
                <5> QED BY <5>2, <5>3, <5>4
            <4>7. \A i, j \in DOMAIN (f \o p) : (f \o p)[i] = (f \o p)[j] => i = j
                BY <1>0 DEF OrderInv, Single, Line
            <4> HIDE DEF f, p
            <4>8. /\ k \in DOMAIN (f \o p) /\ (f \o p)[k] = item
                  /\ 1 + Len(f) \in DOMAIN (f \o p) /\ (f \o p)[1 + Len(f)] = item
                  /\ DOMAIN f = 1 .. Len(f) /\ Len(f) \in Nat
                BY <4>1, <4>2, <4>6, Places
            <4>9. k = 1 + Len(f) BY <4>7, <4>8
            <4> QED BY <4>1, <4>8, <4>9
        <3>5. ~Popped(b, item) BY <1>1, <3>4 DEF Popped
        <3>6. \A p \in Cover(B, s) : ~At(p, item) /\ p \in 1 .. N
            <4>1. \A p \in B[b] : p \in 1 .. N BY <1>0, <1>11, Lower
            <4> QED BY <3>2, <3>3, <3>5, <4>1 DEF OrderInv, Thru
        <3>7. \A p \in Cover(B, s) : ~At(p, item)' BY <1>5, <3>3, <3>6
        <3> QED BY <3>2, <3>3, <3>7 DEF At, Has
    <2> QED BY <2>1, <2>2
<1> QED BY <1>0, <1>3, <1>5, <1>6, <1>7, <1>8, <1>9, <1>10, <1>12, GoneOn

\* What has been sent moves to what was passed on.
LEMMA SentInOrder ==
    ASSUME IInv, DInv, PendingKnown, PendingKnown', NEW T, NEW B, NEW K, Layout(T, B, K),
           OrderInv(B, K), NEW t \in Threads, Sent(t)
    PROVE  OrderInv(B, K)'
<1>1. /\ pc[t] = "send" /\ pc'[t] = "decide" /\ \A u \in Threads : u # t => pc'[u] = pc[u]
      /\ UNCHANGED <<todo, queue, next, written>>
    BY DEF Sent, IInv, Shape
<1>2. \A m \in Msg : pc'[m] = "new" => pc[m] = "new" BY <1>1, Names
<1>3. CASE t \in Msg
    <2>1. \A b \in 1 .. N : pc'[b] = pc[b] BY <1>1, <1>3, Names
    <2>2. UNCHANGED forwarded BY <1>3 DEF Sent
    <2> QED BY <1>1, <1>2, <2>1, <2>2, StillOrdered
<1>4. CASE t \notin Msg
    <2>0. t \in 1 .. N BY <1>4 DEF Threads
    <2>1. PICK e \in Msg : e = next[t] BY <2>0, SentPends
    <2>2. /\ \A c \in 1 .. N : c # t => forwarded'[c] = forwarded[c]
          /\ forwarded'[t] = Append(forwarded[t], e) /\ forwarded[t] \in Seq(Msg)
        BY <1>4, <2>0, <2>1 DEF Sent, DInv, Logged
    <2>3. ToSet(forwarded'[t]) = ToSet(forwarded[t]) \cup {e} BY <2>2, SetOfAppend
    <2>4. \A p \in 1 .. N, x \in Msg : At(p, x)' => At(p, x)
        BY <1>1, <2>1, <2>2, <2>3 DEF At, Has
    <2>5. \A b \in 1 .. N, x \in Msg : Popped(b, x) => Popped(b, x)'
        BY <1>1, <2>1, <2>2, <2>3, Names DEF Popped
    <2>6. ASSUME NEW c \in 1 .. N PROVE Line(c)' = Line(c)
        <3>1. CASE c # t BY <2>0, <2>2, <3>1, SentPends DEF Line
        <3>2. CASE c = t
            <4> DEFINE f == forwarded[t]
                       a == Accepted(queue[t], t)
            <4>1. f \in Seq(Items) /\ a \in Seq(Items) /\ e \in Items
                BY <2>0, LineTyped, SentPends, Names
            <4>2. Line(t) = f \o (<<e>> \o a) /\ Line(t)' = Append(f, e) \o a
                BY <2>0, <2>1, <2>2, SentPends DEF Line
            <4> HIDE DEF f, a
            <4>3. f \o (<<e>> \o a) = Append(f, e) \o a BY <4>1
            <4> QED BY <3>2, <4>2, <4>3
        <3> QED BY <3>1, <3>2
    <2>7. \A u \in Threads : Entry(u)' = Entry(u) BY <1>1 DEF Entry
    <2> QED BY <1>1, <1>2, <2>4, <2>5, <2>6, <2>7, StayedOn
<1> QED BY <1>3, <1>4

\* A dummy does not count.
LEMMA StoppedInOrder ==
    ASSUME IInv, DInv, PendingKnown, PendingKnown', NEW T, NEW B, NEW K, Layout(T, B, K),
           OrderInv(B, K), NEW b \in 1 .. N, Stop(b) \/ Destroy(b)
    PROVE  OrderInv(B, K)'
<1>1. Push(b, b) /\ UNCHANGED <<todo, next, forwarded, written>> BY DEF Stop, Destroy
<1>2. /\ \A c \in 1 .. N : c # b => queue'[c] = queue[c]
      /\ queue[b] \in Seq(Items) /\ queue'[b] = Append(queue[b], b)
      /\ \A u \in Threads : pc'[u] = pc[u] \/ (u = b /\ pc[u] = "asleep" /\ pc'[u] = "pop")
    BY <1>1, Names, Pushed
<1>3. ToSet(queue'[b]) = ToSet(queue[b]) \cup {b} BY <1>2, Names, SetOfAppend
<1>4. \A p \in 1 .. N, x \in Msg : At(p, x)' => At(p, x)
    <2> TAKE p \in 1 .. N, x \in Msg
    <2>1. x # b BY Names
    <2>2. x \in ToSet(queue'[p]) => x \in ToSet(queue[p])
        <3>1. CASE p = b BY <1>3, <2>1, <3>1, Zenon
        <3>2. CASE p # b
            <4>1. queue'[p] = queue[p] BY <1>2, <3>2
            <4> QED BY <4>1, Zenon
        <3> QED BY <3>1, <3>2
    <2>3. next'[p] = next[p] /\ forwarded'[p] = forwarded[p] /\ written'[p] = written[p] BY <1>1
    <2> QED BY <2>2, <2>3 DEF At, Has
<1>5. \A c \in 1 .. N, x \in Msg : Popped(c, x) => Popped(c, x)' BY <1>1, <1>2, Names DEF Popped
<1>6. \A c \in 1 .. N : Line(c)' = Line(c) BY <1>1, StopPends DEF Line
<1>7. \A u \in Threads : Entry(u)' = Entry(u) BY <1>1 DEF Entry
<1>8. \A m \in Msg : pc'[m] = "new" => pc[m] = "new" BY <1>2, Names
<1> QED BY <1>1, <1>4, <1>5, <1>6, <1>7, <1>8, StayedOn

-----------------------------------------------------------------------------
(* The order is kept.                                                       *)

\* In the beginning nothing is in any order.
LEMMA OrderInit == Init /\ Tree(To) => OInv
<1> SUFFICES ASSUME Init, Tree(To) PROVE OInv OBVIOUS
<1>1. IInv BY InitInv
<1>2. PendingKnown BY <1>1, PendingIsKnown
<1>3. PICK T : T = To /\ Graph(T) /\ Tree(T) BY <1>1, BehindReach DEF IInv
<1>4. PICK B : Reach(T, B) BY <1>3, ReachExists
<1>5. PICK K : K = Background /\ K \subseteq 1 .. N BY DEF Background
<1>6. Layout(T, B, K) BY <1>3, <1>4, <1>5 DEF Layout
<1>7. \A b \in 1 .. N : /\ next[b] = None /\ queue[b] = <<>> /\ pc[b] # "send"
                        /\ forwarded[b] = <<>> /\ written[b] = <<>>
    BY GraphAssumption DEF Init, Threads
<1>8. \A b \in 1 .. N : Line(b) = <<>>
    <2>1. <<>> \o <<>> = <<>> OBVIOUS
    <2> QED BY <1>7, <2>1, InitPends DEF Line
<1>9. DOMAIN <<>> = {} /\ ToSet(<<>>) = {} BY DEF ToSet
<1>10. \A p \in 1 .. N, x \in Msg : ~At(p, x) BY <1>7, <1>9, Names DEF At, Has
<1>11. \A x, y : ~Before(<<>>, x, y) BY <1>9 DEF Before
<1>12. \A t \in Threads : todo[t] = <<>> BY DEF Init
<1>13. Ahead(B, K) BY <1>12, EmptyReady DEF Ahead
<1>14. Fresh(B) BY <1>10, <1>12, EmptyReady DEF Fresh
<1>15. Single BY <1>8, <1>9 DEF Single
<1>16. \A b \in K : B[b] \subseteq 1 .. N BY <1>3, <1>4, <1>5, Lower
<1>17. Thru(B, K) BY <1>10, <1>16 DEF Thru
<1>18. Ord(B, K) BY <1>7, <1>8, <1>11, <1>16 DEF Ord
<1>19. OrderInv(B, K) BY <1>13, <1>14, <1>15, <1>17, <1>18 DEF OrderInv
<1> QED BY <1>2, <1>6, <1>19 DEF OInv

\* Loggers stay where they are.
LEMMA LayoutStep ==
    ASSUME IInv, [Next]_vars
    PROVE  To' = To /\ Background' = Background
<1>1. CASE UNCHANGED logger BY <1>1 DEF To, Background
<1>2. ASSUME NEW i \in 1 .. N, NEW m \in Msg, SetLevel(i, LevelOf[m])
      PROVE  To' = To /\ Background' = Background
    <2>1. logger[i] \in Node(i) /\ DOMAIN logger = 1 .. N BY DEF IInv, Shape
    <2>2. logger' = [logger EXCEPT ![i].level = LevelOf[m]] BY <1>2 DEF SetLevel
    <2>3. logger'[i] = [logger[i] EXCEPT !.level = LevelOf[m]] BY <2>1, <2>2
    <2>4. logger'[i].to = logger[i].to /\ logger'[i].kind = logger[i].kind
        BY <2>1, <2>3 DEF Node
    <2>5. \A j \in 1 .. N : logger'[j].to = logger[j].to /\ logger'[j].kind = logger[j].kind
        BY <2>1, <2>2, <2>4
    <2> QED BY <2>5 DEF To, Background
<1>3. CASE UNCHANGED vars BY <1>1, <1>3 DEF vars
<1>4. ASSUME NEW t, Call(t) PROVE UNCHANGED logger
    BY <1>4 DEF Call, WriteStream, Filter, Multiplex, Enqueue, Sent, Afterwards
<1>5. ASSUME NEW m \in Msg, Flush(m) \/ Call(m) PROVE UNCHANGED logger BY <1>4, <1>5 DEF Flush
<1>6. ASSUME NEW b, Work(b) \/ WakeSpuriously(b) \/ Stop(b) \/ Destroy(b) \/ Joined(b)
      PROVE  UNCHANGED logger
    BY <1>4, <1>6 DEF Work, Sleep, Pop, WakeSpuriously, Stop, Destroy, Joined
<1> QED BY <1>1, <1>2, <1>3, <1>5, <1>6 DEF Next

\* Every step keeps the order.
LEMMA OrderStep ==
    IInv /\ DInv /\ OInv /\ PendingKnown' /\ [Next]_vars => OInv'
<1> SUFFICES ASSUME IInv, DInv, OInv, PendingKnown', [Next]_vars PROVE OInv' OBVIOUS
<1>1. PICK T, B, K : Layout(T, B, K) /\ OrderInv(B, K) BY DEF OInv
<1>2. PendingKnown BY DEF OInv
<1>3. Layout(T, B, K)' BY <1>1, LayoutStep, LayoutKept
<1>4. ASSUME NEW t \in Threads, Call(t) PROVE OrderInv(B, K)'
    <2>1. CASE Afterwards(t)
        <3>1. /\ pc[t] = "decide" /\ pc'[t] \in {"ended", "pop"}
              /\ \A u \in Threads : u # t => pc'[u] = pc[u]
              /\ UNCHANGED <<todo, queue, next, forwarded, written>>
            BY <2>1 DEF Afterwards, IInv, Shape
        <3>2. \A b \in 1 .. N : pc'[b] = "send" <=> pc[b] = "send" BY <3>1, Names
        <3>3. \A m \in Msg : pc'[m] = "new" => pc[m] = "new" BY <3>1, Names
        <3> QED BY <1>1, <1>2, <3>1, <3>2, <3>3, StillOrdered
    <2> QED BY <1>1, <1>2, <1>4, <2>1, WrittenInOrder, PushedInOrder, ForwardedInOrder,
               SentInOrder DEF Call
<1>5. ASSUME NEW m \in Msg, Flush(m) \/ Call(m) PROVE OrderInv(B, K)'
    BY <1>1, <1>2, <1>4, <1>5, FlushedInOrder, Names
<1>6. ASSUME NEW b \in Background,
             Work(b) \/ WakeSpuriously(b) \/ Stop(b) \/ Destroy(b) \/ Joined(b)
      PROVE  OrderInv(B, K)'
    <2>1. b \in 1 .. N /\ b \in Threads /\ b \in K BY <1>1 DEF Background, Threads, Layout
    <2>2. CASE Sleep(b) \/ WakeSpuriously(b) \/ Joined(b)
        <3>1. UNCHANGED <<todo, queue, next, forwarded, written>>
            BY <2>2 DEF Sleep, WakeSpuriously, Joined
        <3>2. /\ \A u \in Threads : u # b => pc'[u] = pc[u]
              /\ pc'[b] = pc[b] \/ (pc[b] \in {"pop", "asleep"} /\ pc'[b] \in {"pop", "asleep"})
            BY <2>1, <2>2 DEF Sleep, WakeSpuriously, Joined, IInv, Shape
        <3>3. \A c \in 1 .. N : pc'[c] = "send" <=> pc[c] = "send" BY <3>2, Names
        <3>4. \A m \in Msg : pc'[m] = "new" => pc[m] = "new" BY <3>2, Names
        <3> QED BY <1>1, <1>2, <3>1, <3>3, <3>4, StillOrdered
    <2>3. CASE Pop(b) BY <1>1, <1>2, <2>1, <2>3, PoppedInOrder
    <2>4. CASE Stop(b) \/ Destroy(b) BY <1>1, <1>2, <2>1, <2>4, StoppedInOrder
    <2>5. CASE Call(b) BY <1>4, <2>1, <2>5
    <2> QED BY <1>6, <2>2, <2>3, <2>4, <2>5 DEF Work
<1>7. ASSUME NEW i \in 1 .. N, NEW m \in Msg, SetLevel(i, LevelOf[m]) PROVE OrderInv(B, K)'
    <2>1. UNCHANGED <<pc, todo, queue, next, forwarded, written>> BY <1>7 DEF SetLevel
    <2> QED BY <1>1, <1>2, <2>1, StillOrdered
<1>8. ASSUME UNCHANGED vars PROVE OrderInv(B, K)'
    <2>1. UNCHANGED <<pc, todo, queue, next, forwarded, written>> BY <1>8 DEF vars
    <2> QED BY <1>1, <1>2, <2>1, StillOrdered
<1>9. OrderInv(B, K)' BY <1>5, <1>6, <1>7, <1>8 DEF Next
<1> QED BY <1>3, <1>9 DEF OInv

\* The order in the lines is the order on the streams.
LEMMA OrderFollows == IInv /\ DInv /\ OInv => StreamsInOrder
<1> SUFFICES ASSUME IInv, DInv, OInv, NEW b \in Background, NEW s \in Behind[b],
                    NEW i \in DOMAIN written[s], NEW j \in DOMAIN written[s],
                    NEW k \in DOMAIN forwarded[b], NEW l \in DOMAIN forwarded[b],
                    i < j, written[s][i] = forwarded[b][k], written[s][j] = forwarded[b][l]
             PROVE  k < l
    BY DEF StreamsInOrder
<1>1. PICK T, B, K : Layout(T, B, K) /\ OrderInv(B, K) BY DEF OInv
<1>2. B = Behind BY <1>1, BehindReach, ReachOnce DEF Layout, IInv
<1>3. b \in K /\ b \in 1 .. N /\ s \in B[b] BY <1>1, <1>2 DEF Layout
<1>4. forwarded[b] \in Seq(Msg) BY <1>3 DEF DInv, Logged
<1>5. PICK x \in Msg : x = forwarded[b][k] BY <1>4
<1>6. PICK y \in Msg : y = forwarded[b][l] BY <1>4
<1>7. Before(written[s], x, y) BY <1>5, <1>6 DEF Before
<1>8. Before(Line(b), x, y) BY <1>1, <1>3, <1>7 DEF OrderInv, Ord
<1>9. \A m, n \in DOMAIN Line(b) : Line(b)[m] = Line(b)[n] => m = n
    BY <1>1, <1>3 DEF OrderInv, Single
<1>10. PICK m, n \in DOMAIN Line(b) : m < n /\ Line(b)[m] = x /\ Line(b)[n] = y
    BY <1>8 DEF Before
<1>11. /\ k \in DOMAIN Line(b) /\ Line(b)[k] = x
       /\ l \in DOMAIN Line(b) /\ Line(b)[l] = y
    <2> DEFINE f == forwarded[b]
               p == Pending(b)
    <2>1. f \in Seq(Items) /\ p \in Seq(Items)
        <3>1. PendingKnown BY DEF OInv
        <3> QED BY <1>3, <3>1, LineTyped
    <2>2. k \in DOMAIN f /\ f[k] = x /\ l \in DOMAIN f /\ f[l] = y BY <1>5, <1>6
    <2> HIDE DEF f, p
    <2>3. /\ k \in DOMAIN (f \o p) /\ (f \o p)[k] = x
          /\ l \in DOMAIN (f \o p) /\ (f \o p)[l] = y
        BY <2>1, <2>2, Places
    <2> QED BY <2>3 DEF Line, f, p
<1>12. k = m /\ l = n BY <1>9, <1>10, <1>11
<1> QED BY <1>10, <1>12

\* Where no logger is forwarded to from two places, what a background logger passes
\* on stands in that order on every stream behind it, behind however many others.
THEOREM OrderCorrect == Spec /\ Tree(To) => []StreamsInOrder
<1>1. IInv => PendingKnown BY PendingIsKnown
<1> QED BY OrderInit, OrderStep, OrderFollows, <1>1, DInvariance, PTL DEF Spec
=============================================================================
