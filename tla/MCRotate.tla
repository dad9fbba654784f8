------------------------------ MODULE MCRotate ------------------------------
(* Both rotating loggers, two runs of the program, a few messages, in a    *)
(* zone without summer time and in one whose clocks go back by two.        *)
EXTENDS Rotate

MCZones == {[c \in 0 .. MaxClock |-> c], [c \in 0 .. MaxClock |-> IF c < 2 THEN c ELSE c - 2]}
=============================================================================
