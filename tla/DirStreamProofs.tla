-------------------------- MODULE DirStreamProofs --------------------------
(* The directory handle implements the stateless listing, for every size of *)
(* the directory and of the buffer.                                        *)
EXTENDS DirStream, SequenceTheorems, TLAPS

IInv == TypeOK /\ HandleCoherent /\ ReplyInv

\* Appending the next entry extends a run of consecutive entries by one.
LEMMA AppendNext ==
    ASSUME NEW S, NEW s \in Seq(S), NEW from \in Nat,
           \A i \in 1 .. Len(s) : s[i] = from + i,
           NEW e \in S, e = from + Len(s) + 1
    PROVE  /\ Append(s, e) \in Seq(S)
           /\ Len(Append(s, e)) = Len(s) + 1
           /\ \A i \in 1 .. Len(Append(s, e)) : Append(s, e)[i] = from + i
  <1>1. Len(s) \in Nat /\ Append(s, e) \in Seq(S) /\ Len(Append(s, e)) = Len(s) + 1
    BY AppendProperties, LenProperties
  <1>2. \A i \in 1 .. Len(s) : Append(s, e)[i] = s[i]
    BY AppendProperties
  <1>3. Append(s, e)[Len(s) + 1] = e
    BY AppendProperties
  <1>4. ASSUME NEW i \in 1 .. Len(s) + 1 PROVE Append(s, e)[i] = from + i
    <2>1. CASE i \in 1 .. Len(s)
      BY <1>2, <2>1
    <2>2. CASE i = Len(s) + 1
      BY <1>1, <1>3, <2>2
    <2> QED
      BY <1>1, <2>1, <2>2
  <1> QED
    BY <1>1, <1>4

\* A sequence is the function from its indices to its elements.
LEMMA SequenceIsFunction ==
    ASSUME NEW S, NEW s \in Seq(S)
    PROVE  Len(s) \in Nat /\ s = [i \in 1 .. Len(s) |-> s[i]]
  BY LenProperties

\* The offset after no entries is the offset asked for.
LEMMA AddNothing ==
    \A from \in Nat : \A s : Len(s) = 0 => from + Len(s) = from
  OBVIOUS

-----------------------------------------------------------------------------

LEMMA InitInv == Init => IInv
  <1> SUFFICES ASSUME Init PROVE IInv
    OBVIOUS
  <1>1. <<>> \in Seq(1 .. N) /\ Len(<<>>) = 0
    BY EmptySeq
  <1>2. reply \in Seq(1 .. N) /\ Len(reply) = 0
    BY <1>1 DEF Init
  <1>3. /\ pos \in 0 .. N /\ offset \in 0 .. N /\ entry \in 0 .. N /\ asked \in 0 .. N
        /\ room \in 0 .. MaxRoom /\ Len(reply) <= MaxRoom
    BY <1>2, DirAssumption DEF Init, NULL
  <1>4. TypeOK
    BY <1>2, <1>3 DEF Init, TypeOK
  <1>5. HandleCoherent /\ ReplyInv
    BY DEF Init, HandleCoherent, ReplyInv
  <1> QED
    BY <1>4, <1>5 DEF IInv

\* Each step of the handle keeps the invariant.
LEMMA StepInv == IInv /\ [Next]_vars => IInv'
  <1> SUFFICES ASSUME IInv, [Next]_vars PROVE IInv'
    OBVIOUS
  <1> USE DirAssumption DEF NULL
  <1>0. <<>> \in Seq(1 .. N) /\ Len(<<>>) = 0
    BY EmptySeq
  <1>1. CASE Opendir
    BY <1>1 DEF Opendir, call, IInv, TypeOK, HandleCoherent, ReplyInv
  <1>2. CASE Call
    <2>1. TypeOK' /\ HandleCoherent'
      BY <1>2 DEF Call, Seek, handle, IInv, TypeOK, HandleCoherent
    <2>2. offset' = asked' /\ reply' = <<>> /\ backing' = "sound"
      BY <1>2 DEF Call, Seek, handle, IInv, TypeOK
    <2>3. ReplyInv'
      <3>1. Len(reply') = 0
        BY <1>0, <2>2
      <3>2. pc' = "fill" /\ room' \in Nat /\ asked' \in Nat
        BY <1>2 DEF Call
      <3>3. \A i \in 1 .. Len(reply') : reply'[i] = asked' + i
        BY <3>1
      <3>4. Len(reply') <= room'
        BY <3>1, <3>2
      <3>5. asked' + Len(reply') = asked'
        BY <3>1, <3>2, AddNothing
      <3>6. offset' = asked' + Len(reply')
        BY <2>2, <3>5
      <3> QED
        BY <2>2, <3>2, <3>3, <3>4, <3>6 DEF ReplyInv
    <2> QED
      BY <2>1, <2>3 DEF IInv
  <1>3. CASE Fetch
    <2>1. TypeOK'
      <3>1. pos' \in 0 .. N /\ entry' \in 0 .. N /\ backing' \in {"sound", "broken"}
        BY <1>3 DEF Fetch, IInv, TypeOK
      <3>2. pc' \in {"fill", "done"}
        BY <1>3 DEF Fetch
      <3>3. UNCHANGED <<offset, asked, room, reply>>
        BY <1>3 DEF Fetch
      <3> QED
        BY <3>1, <3>2, <3>3 DEF IInv, TypeOK
    <2>2. HandleCoherent'
      BY <1>3 DEF Fetch, IInv, TypeOK, HandleCoherent
    <2>3. ReplyInv'
      <3>1. reply' = reply /\ room' = room /\ asked' = asked /\ offset' = offset
        BY <1>3 DEF Fetch
      <3>2. pc = "fill" /\ (pc' = "fill" => backing' = "sound")
        BY <1>3 DEF Fetch, IInv, ReplyInv
      <3>3. pc' = "done" /\ backing' = "sound" => offset = N
        BY <1>3 DEF Fetch, IInv, HandleCoherent, TypeOK
      <3> QED
        BY <3>1, <3>2, <3>3 DEF IInv, ReplyInv
    <2> QED
      BY <2>1, <2>2, <2>3 DEF IInv
  <1>4. CASE Offer
    <2>1. CASE Len(reply) < room
      <3>1. /\ entry = asked + Len(reply) + 1 /\ entry \in 1 .. N
            /\ reply' = Append(reply, entry) /\ offset' = entry /\ entry' = NULL
            /\ UNCHANGED <<pc, pos, asked, room, backing>>
        BY <1>4, <2>1 DEF Offer, IInv, TypeOK, HandleCoherent, ReplyInv
      <3>2. /\ reply' \in Seq(1 .. N)
            /\ Len(reply') = Len(reply) + 1
            /\ \A i \in 1 .. Len(reply') : reply'[i] = asked + i
        <4>1. /\ reply \in Seq(1 .. N) /\ asked \in Nat
              /\ \A i \in 1 .. Len(reply) : reply[i] = asked + i
          BY <1>4 DEF Offer, IInv, TypeOK, ReplyInv
        <4>2. entry \in 1 .. N /\ entry = asked + Len(reply) + 1
          BY <3>1
        <4>3. /\ Append(reply, entry) \in Seq(1 .. N)
              /\ Len(Append(reply, entry)) = Len(reply) + 1
              /\ \A i \in 1 .. Len(Append(reply, entry)) : Append(reply, entry)[i] = asked + i
          BY ONLY <4>1, <4>2, AppendNext, SMTT(30)
        <4>4. reply' = Append(reply, entry)
          BY <3>1
        <4> QED
          BY ONLY <4>3, <4>4
      <3> QED
        BY <1>4, <2>1, <3>1, <3>2 DEF Offer, IInv, TypeOK, HandleCoherent, ReplyInv
    <2>2. CASE Len(reply) = room
      BY <1>4, <2>2 DEF Offer, IInv, TypeOK, HandleCoherent, ReplyInv
    <2> QED
      BY <1>4, <2>1, <2>2 DEF Offer
  <1>5. CASE Return
    <2>1. TypeOK'
      BY <1>0, <1>5 DEF Return, handle, IInv, TypeOK
    <2>2. HandleCoherent' /\ ReplyInv'
      BY <1>5 DEF Return, handle, IInv, HandleCoherent, ReplyInv
    <2> QED
      BY <2>1, <2>2 DEF IInv
  <1>6. CASE Releasedir
    BY <1>6 DEF Releasedir, handle, call, IInv, TypeOK, HandleCoherent, ReplyInv
  <1>7. CASE UNCHANGED vars
    BY <1>7 DEF vars, handle, call, IInv, TypeOK, HandleCoherent, ReplyInv
  <1> QED
    BY <1>1, <1>2, <1>3, <1>4, <1>5, <1>6, <1>7 DEF Next

\* The types hold in every reachable state.
THEOREM TypeCorrect == Spec => []TypeOK
  <1>1. IInv => TypeOK
    BY DEF IInv
  <1> QED
    BY <1>1, InitInv, StepInv, PTL DEF Spec

\* d->offset, d->entry and the backing stream agree in every reachable state.
THEOREM HandleCorrect == Spec => []HandleCoherent
  <1>1. IInv => HandleCoherent
    BY DEF IInv
  <1> QED
    BY <1>1, InitInv, StepInv, PTL DEF Spec

-----------------------------------------------------------------------------
(* Refinement.                                                             *)

\* The handle starts closed, and so does the listing.
LEMMA InitRefines == Init => Listing!Init
  BY DEF Init, Listing!Init

\* Every step of the handle is a step of the listing or leaves it unchanged.
LEMMA StepRefines == IInv /\ IInv' /\ [Next]_vars => [Listing!Next]_(Listing!vars)
  <1> SUFFICES ASSUME IInv, IInv', [Next]_vars
               PROVE  [Listing!Next]_(Listing!vars)
    OBVIOUS
  <1> USE DEF Listing!Next, Listing!vars
  <1>1. CASE Opendir
    BY <1>1 DEF Opendir, call, IInv, TypeOK, Listing!Open
  <1>2. CASE Call
    BY <1>2 DEF Call, IInv, TypeOK, Listing!Ask
  <1>3. ASSUME pc = "fill", pc' = "done", UNCHANGED <<asked, room, reply>>,
               backing' \in {"sound", "broken"}
        PROVE  Listing!Answer
    <2>1. \E k \in 0 .. room :
              /\ asked + k <= N
              /\ (k = room \/ (k < room /\ asked + k = N)) \/ backing' = "broken"
              /\ reply' = [i \in 1 .. k |-> asked + i]
      <3>1. Len(reply') \in 0 .. room' /\ asked' + Len(reply') <= N
        BY <1>3, DirAssumption DEF IInv, TypeOK, ReplyInv
      <3>2. \/ Len(reply') = room'
            \/ Len(reply') < room' /\ asked' + Len(reply') = N
            \/ backing' = "broken"
        BY <1>3, <3>1, DirAssumption DEF IInv, TypeOK, ReplyInv
      <3>3. reply' = [i \in 1 .. Len(reply') |-> asked' + i]
        BY <1>3, SequenceIsFunction DEF IInv, TypeOK, ReplyInv
      <3> QED
        BY <1>3, <3>1, <3>2, <3>3
    <2> QED
      BY <1>3, <2>1 DEF Listing!Answer, Listing!Complete
  <1>4. CASE Fetch
    <2>1. CASE pc' = "done"
      BY <1>3, <1>4, <2>1 DEF Fetch, IInv, TypeOK
    <2>2. CASE pc' # "done"
      BY <1>4, <2>2 DEF Fetch
    <2> QED
      BY <2>1, <2>2
  <1>5. CASE Offer
    <2>1. CASE pc' = "done"
      BY <1>3, <1>5, <2>1 DEF Offer, IInv, TypeOK
    <2>2. CASE pc' # "done"
      BY <1>5, <2>2 DEF Offer
    <2> QED
      BY <2>1, <2>2
  <1>6. CASE Return
    BY <1>6 DEF Return, Listing!Accept
  <1>7. CASE Releasedir
    BY <1>7 DEF Releasedir, call, Listing!Close
  <1>8. CASE UNCHANGED vars
    BY <1>8 DEF vars, handle, call
  <1> QED
    BY <1>1, <1>2, <1>4, <1>5, <1>6, <1>7, <1>8 DEF Next

\* Without its liveness, which the run checks: readdir answers every call as
\* the stateless listing would.
THEOREM Refinement == Spec => Listing!Init /\ [][Listing!Next]_(Listing!vars)
  BY InitInv, StepInv, InitRefines, StepRefines, PTL DEF Spec

=============================================================================
