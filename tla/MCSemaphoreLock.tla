--------------------------- MODULE MCSemaphoreLock --------------------------
(* Small instances of SemaphoreLock for TLC. *)
EXTENDS SemaphoreLock

CONSTANTS p, q, s, a

OneKey == [c \in Call |-> {a}]
AllZset == [c \in Call |-> "zset"]
OneAtATime == [c \in Call |-> 1]
OneOrTwo == [c \in Call |-> IF c = p THEN 1 ELSE 2]
NoSkew == [c \in Call |-> 0]
FastClock == [c \in Call |-> IF c = q THEN 1 ELSE 0]
=============================================================================
