--------------------------- MODULE MCReadWriteLock --------------------------
(* Small instances of ReadWriteLock for TLC: readers r1, r2, writers w1, w2. *)
EXTENDS ReadWriteLock, TLC

CONSTANTS r1, r2, w1, w2, a

OneKey == [c \in Call |-> {a}]
RWHandles == [c \in Call |-> IF c \in {w1, w2} THEN "writer" ELSE "zset"]
OneAtATime == [c \in Call |-> 1]
NoSkew == [c \in Call |-> 0]
FastWriters == [c \in Call |-> IF c \in {w1, w2} THEN 1 ELSE 0]
Writers == Permutations({w1, w2})
=============================================================================
