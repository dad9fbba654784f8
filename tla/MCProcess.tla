----------------------------- MODULE MCProcess -----------------------------
(* Process with two workers, two SIGHUPs and few descriptors.              *)
EXTENDS Process, TLC

CONSTANTS t1, t2, s1, s2, a

Symmetric == Permutations(Worker) \cup Permutations(Signal)
=============================================================================
