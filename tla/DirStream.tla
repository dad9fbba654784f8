----------------------------- MODULE DirStream -----------------------------
(***************************************************************************)
(* opendir, readdir and releasedir on one directory handle.  The handle    *)
(* (struct loggedfs_dirp) holds the backing stream, the offset the last    *)
(* call got to, and the entry libfuse's filler refused because the buffer  *)
(* was full: the next call starts with that entry instead of reading one.  *)
(* The kernel asks for any offset it was ever given, 0 included, so calls  *)
(* continue, rewind or jump.                                               *)
(*                                                                         *)
(* The directory does not change while the handle is open.  An offset is   *)
(* the number of entries before it: telldir and seekdir are external and   *)
(* deal in opaque cookies for the same positions.                          *)
(***************************************************************************)
EXTENDS Integers, Sequences

CONSTANTS N,        \* entries of the directory, numbered 1 .. N
          MaxRoom   \* the most entries a reply buffer holds

ASSUME DirAssumption == N \in Nat /\ MaxRoom \in Nat \ {0}

NULL == 0

VARIABLES
    pc,        \* "closed", "idle", "fill" (in readdir's loop), "done" (replied)
    pos,       \* position of the backing stream d->dp
    offset,    \* d->offset
    entry,     \* d->entry, NULL when there is none
    asked,     \* the offset parameter
    room,      \* how many entries the filler still accepts in this call
    reply,     \* the entries the filler accepted
    backing    \* the backing readdir failed in this call

handle == <<pos, offset, entry>>
call == <<asked, room, reply, backing>>
vars == <<pc, handle, call>>

Init ==
    /\ pc = "closed"
    /\ pos = 0 /\ offset = 0 /\ entry = NULL
    /\ asked = 0 /\ room = 0 /\ reply = <<>> /\ backing = "sound"

\* An opendir that fails leaves no handle.
Opendir ==
    /\ pc = "closed" /\ pc' = "idle"
    /\ pos' = 0 /\ offset' = 0 /\ entry' = NULL
    /\ UNCHANGED call

\* Mutant: the refused entry survives a jump.
SeekKeepsEntry(to) ==
    IF to # offset THEN pos' = to /\ offset' = to /\ UNCHANGED entry
                   ELSE UNCHANGED handle

\* Mutant: the position after the cookie is taken for the cookie's own.
SeekPast(to) ==
    IF to # offset THEN pos' = to + 1 /\ offset' = to /\ entry' = NULL
                   ELSE UNCHANGED handle

\* A call that does not continue where the last one stopped.
Seek(to) ==
    IF to # offset THEN pos' = to /\ offset' = to /\ entry' = NULL
                   ELSE UNCHANGED handle

Call ==
    /\ pc = "idle" /\ pc' = "fill"
    /\ asked' \in 0 .. N /\ room' \in 1 .. MaxRoom
    /\ Seek(asked')
    /\ UNCHANGED <<reply, backing>>

\* Mutant: the loop does not end with the directory.
FetchOnAndOn ==
    /\ pc = "fill" /\ entry = NULL
    /\ IF pos < N THEN pos' = pos + 1 /\ entry' = pos + 1
                  ELSE UNCHANGED <<pos, entry>>
    /\ UNCHANGED <<pc, backing, offset, asked, room, reply>>

\* d->entry = readdir(d->dp); at the end, and when it fails, the loop ends.
Fetch ==
    /\ pc = "fill" /\ entry = NULL
    /\ \/ /\ pos < N
          /\ pos' = pos + 1 /\ entry' = pos + 1
          /\ UNCHANGED <<pc, backing>>
       \/ /\ pos = N
          /\ pc' = "done" /\ UNCHANGED <<pos, entry, backing>>
       \/ /\ backing' = "broken"
          /\ pc' = "done" /\ UNCHANGED <<pos, entry>>
    /\ UNCHANGED <<offset, asked, room, reply>>

\* Mutant: d->offset is not advanced with the entry.
OfferWithoutOffset ==
    /\ pc = "fill" /\ entry # NULL
    /\ IF Len(reply) < room
       THEN reply' = Append(reply, entry) /\ entry' = NULL /\ UNCHANGED pc
       ELSE pc' = "done" /\ UNCHANGED <<reply, entry>>
    /\ UNCHANGED <<pos, offset, asked, room, backing>>

\* filler(d->entry, telldir(d->dp)): taken, the handle moves past it; refused,
\* it stays in d->entry and the call ends.
Offer ==
    /\ pc = "fill" /\ entry # NULL
    /\ \/ /\ Len(reply) < room
          /\ reply' = Append(reply, entry)
          /\ entry' = NULL /\ offset' = pos
          /\ UNCHANGED pc
       \/ /\ Len(reply) = room
          /\ pc' = "done" /\ UNCHANGED <<reply, entry, offset>>
    /\ UNCHANGED <<pos, asked, room, backing>>

\* readdir returns 0; libfuse sends what the filler collected.
Return ==
    /\ pc = "done" /\ pc' = "idle"
    /\ asked' = 0 /\ room' = 0 /\ reply' = <<>> /\ backing' = "sound"
    /\ UNCHANGED handle

Releasedir ==
    /\ pc = "idle" /\ pc' = "closed"
    /\ UNCHANGED <<handle, call>>

Next == Opendir \/ Call \/ Fetch \/ Offer \/ Return \/ Releasedir

\* A call that libfuse has started runs: readdir's loop has no wait in it.
Spec == Init /\ [][Next]_vars /\ WF_vars(Fetch \/ Offer)

-----------------------------------------------------------------------------
(* Properties.                                                             *)

TypeOK ==
    /\ pc \in {"closed", "idle", "fill", "done"}
    /\ pos \in 0 .. N /\ offset \in 0 .. N /\ entry \in 0 .. N
    /\ asked \in 0 .. N /\ room \in 0 .. MaxRoom
    /\ reply \in Seq(1 .. N) /\ Len(reply) <= MaxRoom
    /\ backing \in {"sound", "broken"}
    /\ pc \in {"closed", "idle"} =>
         reply = <<>> /\ backing = "sound" /\ asked = 0 /\ room = 0

\* d->offset, d->entry and the stream's position agree in every state, across
\* full buffers, jumps and read errors: the entry kept for the next call is
\* the one right after d->offset, and without one the stream stands there.
HandleCoherent ==
    pc # "closed" =>
        /\ entry = NULL => pos = offset
        /\ entry # NULL => entry = pos /\ pos = offset + 1

\* What the filler has collected so far: the entries that follow the asked
\* offset, up to d->offset; a call that is done has filled the buffer or reached
\* the end, unless the directory could not be read.
ReplyInv ==
    pc \in {"fill", "done"} =>
        /\ Len(reply) <= room /\ offset = asked + Len(reply)
        /\ \A i \in 1 .. Len(reply) : reply[i] = asked + i
        /\ pc = "done" /\ backing = "sound" => Len(reply) = room \/ offset = N
        /\ pc = "fill" => backing = "sound"

\* Every readdir call comes to an end: the loop terminates on a full buffer, at
\* the end of the directory and when the directory cannot be read.
CallReturns == pc = "fill" ~> pc = "done"

\* The handle implements the stateless listing: the phases of a call, and the
\* entries once it is done.
Listing ==
    INSTANCE DirListing WITH
        phase  <- CASE pc = "fill" -> "asked"
                    [] pc = "done" -> "answered"
                    [] OTHER -> pc,
        answer <- IF pc = "done" THEN reply ELSE <<>>

\* readdir answers as DirListing says, whatever calls came before.
ListingSpec == Listing!Spec

=============================================================================
