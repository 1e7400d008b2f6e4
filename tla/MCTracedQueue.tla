----------------------------- MODULE MCTracedQueue ----------------------------
(* Small instances of TracedQueue for TLC. *)
EXTENDS TracedQueue

\* Queued calls p, q and s, and a plain call g, on one resource.
CONSTANTS p, q, s, g, a

OneKey == [c \in Call |-> {a}]
AllRedlock == [c \in Call |-> "redlock"]
OneAtATime == [c \in Call |-> 1]
NoSkew == [c \in Call |-> 0]
===============================================================================
