--------------------------- MODULE MCRedlockMutex ---------------------------
(* Small instances of RedlockMutex for TLC. *)
EXTENDS RedlockMutex

\* withLock calls p and q on one resource, g on a group that contains it,
\* and t, a try-lock on the same resource.
CONSTANTS p, q, g, t, a, b

MCKeys == [c \in Call |-> IF c = g THEN {a, b} ELSE {a}]
OneKey == [c \in Call |-> {a}]
AllRedlock == [c \in Call |-> "redlock"]
NoSkew == [c \in Call |-> 0]
=============================================================================
