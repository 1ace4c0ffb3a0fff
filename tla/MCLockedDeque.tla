--------------------------- MODULE MCLockedDeque -----------------------------
(* Constants of LockedDeque for model checking.                            *)
EXTENDS LockedDeque

AllElements == Threads \X (1 .. MaxCalls)
=============================================================================
