----------------------------- MODULE DirListing -----------------------------
(***************************************************************************)
(* What a directory handle promises the kernel: readdir at an offset        *)
(* answers with the entries that follow the offset, in order, none left    *)
(* out and none twice, as many as the buffer holds or the directory has.   *)
(* The answer depends on the offset alone, not on the calls before it.     *)
(* Only a backing directory that fails to be read may cut it short.        *)
(***************************************************************************)
EXTENDS Integers, Sequences

CONSTANTS N,        \* entries of the directory, numbered 1 .. N
          MaxRoom   \* the most entries a reply buffer holds

VARIABLES phase,    \* "closed", "idle", "asked", "answered"
          asked,    \* offset of the current call: the entries before it
          room,     \* entries its buffer holds
          answer,   \* the entries it was answered with
          backing   \* the backing directory failed during the call

vars == <<phase, asked, room, answer, backing>>

Init == /\ phase = "closed"
        /\ asked = 0 /\ room = 0 /\ answer = <<>> /\ backing = "sound"

Open  == phase = "closed" /\ phase' = "idle" /\ UNCHANGED <<asked, room, answer, backing>>

Close == phase = "idle" /\ phase' = "closed" /\ UNCHANGED <<asked, room, answer, backing>>

Ask == /\ phase = "idle" /\ phase' = "asked"
       /\ asked' \in 0 .. N /\ room' \in 1 .. MaxRoom
       /\ UNCHANGED <<answer, backing>>

\* The whole rest of the directory fits, or the buffer is full.
Complete(k) == k = room \/ (k < room /\ asked + k = N)

Answer ==
    /\ phase = "asked" /\ phase' = "answered"
    /\ backing' \in {"sound", "broken"}
    /\ \E k \in 0 .. room :
         /\ asked + k <= N
         /\ Complete(k) \/ backing' = "broken"
         /\ answer' = [i \in 1 .. k |-> asked + i]
    /\ UNCHANGED <<asked, room>>

Accept == /\ phase = "answered" /\ phase' = "idle"
          /\ asked' = 0 /\ room' = 0 /\ answer' = <<>> /\ backing' = "sound"

Next == Open \/ Close \/ Ask \/ Answer \/ Accept

Spec == Init /\ [][Next]_vars /\ WF_vars(Answer)
=============================================================================
