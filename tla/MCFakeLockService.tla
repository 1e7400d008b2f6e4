------------------------- MODULE MCFakeLockService -------------------------
(* Small instances of FakeLockService for TLC. *)
EXTENDS FakeLockService

\* Slot calls s1, s2, s3, readers r1, r2, writers w1, w2, plain p, try t.
CONSTANTS s1, s2, s3, r1, r2, w1, w2, p, t

Modes ==
    [c \in Call |-> IF c \in {s1, s2, s3} THEN "slot"
                    ELSE IF c \in {r1, r2} THEN "read"
                    ELSE IF c \in {w1, w2} THEN "write"
                    ELSE IF c = p THEN "plain" ELSE "try"]
OneSlot == [c \in Call |-> 1]
TwoSlots == [c \in Call |-> 2]
WiderLater == [c \in Call |-> IF c = s3 THEN 2 ELSE 1]
=============================================================================
