----------------------------- MODULE MCFileLock -----------------------------
(* FileLock for TLC: every call is made by a process of its own. *)
EXTENDS FileLock

CallIsProcess == [c \in Calls |-> c]
=============================================================================
