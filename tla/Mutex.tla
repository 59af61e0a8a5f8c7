------------------------------- MODULE Mutex -------------------------------
(***************************************************************************)
(* What flock() of src/utils/flock.ts promises its callers: an exclusive   *)
(* lock.  At most one call holds it; a call may give up (FlockTimeoutError)*)
(* and the process of a call may disappear at any time, which frees the    *)
(* lock sooner or later.  FileLock implements this specification.          *)
(***************************************************************************)
CONSTANT Calls          \* the calls of flock() made on one path

VARIABLE status         \* status[c] : how far call c has got

Status == {"waiting", "holding", "over"}

Free == \A c \in Calls : status[c] # "holding"

Init == status = [c \in Calls |-> "waiting"]

Acquire(c) == /\ status[c] = "waiting"
              /\ Free
              /\ status' = [status EXCEPT ![c] = "holding"]

Finish(c) == /\ status[c] # "over"
             /\ status' = [status EXCEPT ![c] = "over"]

(* A process that disappears ends every call it was making. *)
Vanish(C) == status' = [c \in Calls |-> IF c \in C THEN "over" ELSE status[c]]

Next == \/ \E c \in Calls : Acquire(c) \/ Finish(c)
        \/ \E C \in SUBSET Calls : Vanish(C)

Spec == Init /\ [][Next]_status
=============================================================================
