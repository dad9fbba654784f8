---------------------------- MODULE MCBackground ----------------------------
(* Background with the compositions that differ in who deletes a message.  *)
EXTENDS Background

CONSTANTS m1, m2

MCLevelOf == (m1 :> 0) @@ (m2 :> 1)

Stream          == [kind |-> "stream", to |-> <<>>, level |-> 0]
Back(i)         == [kind |-> "background", to |-> <<i>>, level |-> 0]
Filtered(i)     == [kind |-> "filter", to |-> <<i>>, level |-> 1]
Both(i, j)      == [kind |-> "multiplex", to |-> <<i, j>>, level |-> 0]

\* A stream and a filtered background logger behind a Tee.
TeeFirst == <<Stream, Back(1), Filtered(2), Stream, Both(4, 3)>>
\* Two background loggers behind one Tee, filtered as a whole.
TwoKeepers == <<Stream, Back(1), Back(1), Both(2, 3), Filtered(4)>>
\* A background logger that forwards to another, what the filters let through.
Chain == <<Stream, Filtered(1), Back(2), Filtered(3), Back(4)>>

MCGraphs == {TeeFirst, TwoKeepers, Chain}
=============================================================================
