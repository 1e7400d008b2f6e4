---------------------------- MODULE MCContention ----------------------------
(* Small instances of Contention for TLC. *)
EXTENDS Contention, TLC

\* Three nodes; a withLock or a health check that retries once, and a tryLock
\* or tryLockWithToken, of another service, that does not.
CONSTANTS n1, n2, n3, w, t

Entries == (w :> {"with", "health"}) @@ (t :> {"try", "token"})
Retries == (w :> 1) @@ (t :> 0)

\* The nodes are alike, but for the one that counts the tokens.
Others == Permutations({n2, n3})
=============================================================================
