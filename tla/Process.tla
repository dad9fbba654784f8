------------------------------ MODULE Process ------------------------------
(***************************************************************************)
(* The process: the file handles and the log share its descriptors and its *)
(* threads.  A worker handles a request, then writes its line.             *)
(***************************************************************************)
EXTENDS Handles, LogSink

vars == <<fdt, handleVars, sinkVars>>

ASSUME ThreadAssumption == Worker = Thread

Init == /\ fdt = [d \in Fd |-> Free]
        /\ HandleInit /\ SinkInit

Request(t) ==
    /\ phase = "serving" /\ writing[t] = Quiet
    /\ HandleRequest(t) \/ CloseTaken(t)
    /\ UNCHANGED sinkVars

Line(t) == Rests(t) /\ WriteLine(t) /\ UNCHANGED handleVars

Outside == /\ SinkNext /\ UNCHANGED handleVars
           /\ phase' = "closing" /\ phase = "serving" => \A t \in Thread : Rests(t)

Next == Outside \/ \E t \in Thread : Request(t) \/ Line(t)

Spec == Init /\ [][Next]_vars

-----------------------------------------------------------------------------

TypeOK == /\ DOMAIN fdt = Fd
          /\ HandleTypeOK /\ SinkTypeOK

\* Descriptors the log uses, and those every SIGHUP leaves open.
LogFds    == {newfd, savefd} \cup (IF filebuf.is = "open" THEN {filebuf.fd} ELSE {})
LeakedFds == {hup[s].fd : s \in Signal}

\* Every descriptor in use has one user, and every user its own: the log, a
\* handle, a handler of the moment, or a SIGHUP, which leaves one open for good.
\* Nothing else piles up, and no descriptor is closed under another user.
DescriptorAccount ==
    LET users == LogFds \cup LeakedFds \cup Taken \cup {h.fh : h \in handles} IN
    /\ Fd \ Unused = users \ {NoFd}
    /\ Cardinality(Fd \ Unused) =
          Cardinality(LogFds \ {NoFd}) + Cardinality({s \in Signal : hup[s].fd # NoFd})
            + Cardinality({t \in Thread : doing[t].fd # NoFd}) + Cardinality(handles)
=============================================================================
