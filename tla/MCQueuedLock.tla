---------------------------- MODULE MCQueuedLock ----------------------------
(* Small instances of QueuedLock for TLC. *)
EXTENDS QueuedLock

\* Queued calls p, q and s, and a plain call g, on one resource.
CONSTANTS p, q, s, g, a

OneKey == [c \in Call |-> {a}]
AllRedlock == [c \in Call |-> "redlock"]
OneAtATime == [c \in Call |-> 1]
NoSkew == [c \in Call |-> 0]
FastClock == [c \in Call |-> IF c = q THEN 2 ELSE 0]
=============================================================================
