---------------------------- MODULE MCDirStream ----------------------------
(* DirStream on a directory larger than the buffer.                        *)
EXTENDS DirStream
=============================================================================
