----------------------------- MODULE Contention -----------------------------
(***************************************************************************)
(* One lock on several independent Redis nodes: how redlock's votes add    *)
(* up, and what withLock, tryLock, tryLockWithToken and the health check   *)
(* make of an attempt that failed (isContention).  Fencing tokens come     *)
(* from the first node alone.                                              *)
(*                                                                         *)
(* A node that is down answers no one and keeps its keys (no failover to   *)
(* a replica); the TTL outlasts every owner, and only keys that nobody     *)
(* owns are seen to expire.                                                *)
(***************************************************************************)
EXTENDS FiniteSets, Naturals

CONSTANTS
    Node, First,   \* the clients, and clients[0]
    Unlisted,      \* clients that also fail with errors isConnectionError does not know
    Call, Entry,   \* Entry[c]: the operations of LockService c may come through
    RetryCount,    \* RetryCount[c]: of c's service
    Nobody,
    MaxOutages,    \* bound: how often nodes go down
    MaxFaults       \* bound: replies that are lost, or are errors of the server

ASSUME ContentionAssumption ==
    /\ IsFiniteSet(Node) /\ First \in Node /\ Unlisted \subseteq Node
    /\ Nobody \notin Call
    /\ Entry \in [Call -> SUBSET {"with", "try", "token", "health"}]
    /\ RetryCount \in [Call -> Nat]
    /\ MaxOutages \in Nat /\ MaxFaults \in Nat

\* All calls are for one resource; the health check locks a sentinel.
Key == {"job", "sentinel"}

VARIABLES
    up,         \* the nodes that answer
    keys,       \* keys[n][k]: the call whose value is at key k of node n
    pc, kind,   \* kind[c]: the operation called
    vote,       \* vote[c][n]: what n said to c's current attempt
    attempts,   \* attempts that did not reach a quorum
    outcome,
    outages, faults,
    dark,       \* history: the nodes that were down ever since c started
    cut         \* history: the nodes down at some time since, or with a reply lost

calls == <<pc, kind, vote, attempts, outcome>>
history == <<dark, cut>>
vars == <<up, keys, calls, outages, faults, history>>

-----------------------------------------------------------------------------
Init ==
    /\ up = Node
    /\ keys = [n \in Node |-> [k \in Key |-> Nobody]]
    /\ pc = [c \in Call |-> "idle"]
    /\ kind = [c \in Call |-> "none"]
    /\ vote = [c \in Call |-> [n \in Node |-> "none"]]
    /\ attempts = [c \in Call |-> 0]
    /\ outcome = [c \in Call |-> "pending"]
    /\ outages = 0 /\ faults = 0
    /\ dark = [c \in Call |-> {}] /\ cut = [c \in Call |-> {}]

\* Mutation: half of the nodes is enough.
Half == Cardinality(Node) \div 2
Quorum == Cardinality(Node) \div 2 + 1

KeyOf(c) == IF kind[c] = "health" THEN "sentinel" ELSE "job"

For(c) == {n \in Node : vote[c][n] = "for"}
Against(c) == {n \in Node : vote[c][n] \in {"locked", "lost", "odd"}}

\* Mutation: one node that says "locked" is enough.
SomeSayLocked(c) == \E n \in Against(c) : vote[c][n] = "locked"
\* Mutation: only the whole membership is.
AllSayLocked(c) == \A n \in Node : vote[c][n] = "locked"

\* No vote against c's last attempt is a connection error that the code knows;
\* any other error is taken for a lock.
IsContention(c) == \A n \in Against(c) : vote[c][n] # "lost"

Ask(c) == vote' = [vote EXCEPT ![c] = [n \in Node |-> "asked"]]

Start(c) ==
    /\ pc[c] = "idle"
    /\ pc' = [pc EXCEPT ![c] = "voting"]
    /\ \E entry \in Entry[c] : kind' = [kind EXCEPT ![c] = entry]
    /\ Ask(c)
    /\ dark' = [dark EXCEPT ![c] = Node \ up]
    /\ cut' = [cut EXCEPT ![c] = Node \ up]
    /\ UNCHANGED <<up, keys, attempts, outcome, outages, faults>>

\* The script sets a key that does not exist.
Stored(c, n) ==
    IF keys[n][KeyOf(c)] = Nobody THEN [keys EXCEPT ![n][KeyOf(c)] = c] ELSE keys
Says(c, n, v) == vote' = [vote EXCEPT ![c][n] = v]

\* What comes of a command that got no answer.  An ioredis client with a
\* maxRetriesPerRequest or a commandTimeout rejects it with a message that
\* CONNECTION_ERROR_PATTERNS does not list.
NoAnswer(n) == {"lost"} \cup (IF n \in Unlisted THEN {"odd"} ELSE {})

\* A node votes, also after the others have decided.
Vote(c, n) ==
    /\ vote[c][n] = "asked"
    /\ IF n \in up
       THEN /\ keys' = Stored(c, n)
            /\ Says(c, n, IF keys' # keys THEN "for" ELSE "locked")
       ELSE (\E v \in NoAnswer(n) : Says(c, n, v)) /\ UNCHANGED keys
    /\ UNCHANGED <<up, pc, kind, attempts, outcome, outages, faults, history>>

\* The reply is lost; the script may have run.
LoseReply(c, n) ==
    /\ vote[c][n] = "asked" /\ n \in up
    /\ faults < MaxFaults /\ faults' = faults + 1
    /\ keys' \in {keys, Stored(c, n)}
    /\ \E v \in NoAnswer(n) : Says(c, n, v)
    /\ cut' = [cut EXCEPT ![c] = @ \cup {n}]
    /\ UNCHANGED <<up, pc, kind, attempts, outcome, outages, dark>>

\* The server answers, but with an error: it loads its data, is read-only or
\* out of memory.
Complain(c, n) ==
    /\ vote[c][n] = "asked" /\ n \in up
    /\ faults < MaxFaults /\ faults' = faults + 1
    /\ Says(c, n, "odd")
    /\ UNCHANGED <<up, keys, pc, kind, attempts, outcome, outages, history>>

Goto(c, place, verdict) ==
    /\ pc' = [pc EXCEPT ![c] = place]
    /\ outcome' = [outcome EXCEPT ![c] = verdict]

\* A quorum is in favour.
Win(c) ==
    /\ pc[c] = "voting" /\ Cardinality(For(c)) >= Quorum
    /\ IF kind[c] \in {"with", "token"} THEN Goto(c, "fencing", "pending")
       ELSE Goto(c, "owning", IF kind[c] = "try" THEN "lock" ELSE "up")
    /\ UNCHANGED <<up, keys, kind, vote, attempts, outages, faults, history>>

\* Nothing is withdrawn between two attempts: a node that has c's own value
\* from the last one says "locked".
RetryAttempt(c) ==
    /\ pc[c] = "voting" /\ Cardinality(Against(c)) >= Quorum
    /\ attempts[c] < RetryCount[c]
    /\ attempts' = [attempts EXCEPT ![c] = @ + 1]
    /\ Ask(c)
    /\ UNCHANGED <<up, keys, pc, kind, outcome, outages, faults, history>>

\* c's value is deleted where the deletion arrives.  What a node has not yet
\* been asked goes before it on the same connection.
GiveBack(c) ==
    /\ keys' = [n \in Node |-> IF n \in up /\ keys[n][KeyOf(c)] = c
                               THEN [keys[n] EXCEPT ![KeyOf(c)] = Nobody] ELSE keys[n]]
    /\ vote' = [vote EXCEPT ![c] = [n \in Node |-> "none"]]

\* Out of retries: redlock gives back what it has, and the call inspects the
\* votes, which it awaits to the last.
Verdict(c) ==
    CASE kind[c] = "with" -> "refused"
      [] kind[c] = "health" -> IF IsContention(c) THEN "up" ELSE "down"
      [] OTHER -> IF IsContention(c) THEN "null" ELSE "error"

GiveUp(c) ==
    /\ pc[c] = "voting" /\ Cardinality(Against(c)) >= Quorum
    /\ attempts[c] = RetryCount[c]
    /\ \A n \in Node : vote[c][n] # "asked"
    /\ Goto(c, "done", Verdict(c))
    /\ GiveBack(c)
    /\ UNCHANGED <<up, kind, attempts, outages, faults, history>>

Token(c) ==
    /\ pc[c] = "fencing" /\ First \in up
    /\ Goto(c, "owning", IF kind[c] = "token" THEN "lock" ELSE "pending")
    /\ UNCHANGED <<up, keys, kind, vote, attempts, outages, faults, history>>

\* clients[0] does not answer the INCR.
TokenFails(c) ==
    /\ pc[c] = "fencing"
    /\ \/ First \notin up /\ UNCHANGED <<faults, cut>>
       \/ /\ First \in up /\ faults < MaxFaults /\ faults' = faults + 1
          /\ cut' = [cut EXCEPT ![c] = @ \cup {First}]

\* Mutation: withLock draws its token before its try block.
NoTokenUnreleased(c) ==
    /\ TokenFails(c)
    /\ Goto(c, "done", "error")
    /\ UNCHANGED <<up, keys, kind, vote, attempts, outages, dark>>

\* withLock releases the lock it has; nobody has the handle of
\* tryLockWithToken's, which stays until its TTL.
NoToken(c) ==
    /\ TokenFails(c)
    /\ Goto(c, "done", "error")
    /\ IF kind[c] = "with" THEN GiveBack(c) ELSE UNCHANGED <<keys, vote>>
    /\ UNCHANGED <<up, kind, attempts, outages, dark>>

\* The callback ends, or whoever was given the lock releases it; the health
\* check ignores a release that fails.
Release(c) ==
    /\ pc[c] = "owning"
    /\ Goto(c, "done", IF kind[c] = "with" THEN "value" ELSE outcome[c])
    /\ GiveBack(c)
    /\ UNCHANGED <<up, kind, attempts, outages, faults, history>>

Expire(c, n) ==
    /\ pc[c] = "done" /\ keys[n][KeyOf(c)] = c
    /\ keys' = [keys EXCEPT ![n][KeyOf(c)] = Nobody]
    /\ UNCHANGED <<up, calls, outages, faults, history>>

\* isLocked asks one node.
IsLocked(k) == keys[First][k] # Nobody

Started == {c \in Call : pc[c] \notin {"idle", "done"}}

\* Any of the nodes become unreachable together.
Outage(lost) ==
    /\ lost \subseteq up /\ lost # {} /\ outages < MaxOutages
    /\ up' = up \ lost /\ outages' = outages + 1
    /\ cut' = [c \in Call |-> IF c \in Started THEN cut[c] \cup lost ELSE cut[c]]
    /\ UNCHANGED <<keys, calls, faults, dark>>

Recovery ==
    /\ up # Node /\ up' = Node
    /\ dark' = [c \in Call |-> IF c \in Started THEN {} ELSE dark[c]]
    /\ UNCHANGED <<keys, calls, outages, faults, cut>>

Finished == (\A c \in Call : pc[c] = "done") /\ UNCHANGED vars

Next ==
    \/ \E c \in Call :
        \/ Start(c) \/ Win(c) \/ RetryAttempt(c) \/ GiveUp(c)
        \/ Token(c) \/ NoToken(c) \/ Release(c)
        \/ \E n \in Node : Vote(c, n) \/ LoseReply(c, n) \/ Complain(c, n) \/ Expire(c, n)
    \/ \E lost \in SUBSET Node : Outage(lost)
    \/ Recovery
    \/ Finished

Spec == Init /\ [][Next]_vars

-----------------------------------------------------------------------------
TypeOK ==
    /\ up \subseteq Node
    /\ keys \in [Node -> [Key -> Call \cup {Nobody}]]
    /\ pc \in [Call -> {"idle", "voting", "fencing", "owning", "done"}]
    /\ vote \in [Call -> [Node -> {"none", "asked", "for", "locked", "lost", "odd"}]]
    /\ kind \in [Call -> {"none", "with", "try", "token", "health"}]
    /\ attempts \in [Call -> Nat] /\ \A c \in Call : attempts[c] <= RetryCount[c]
    /\ outcome \in [Call -> {"pending", "lock", "value", "null", "refused", "error", "up", "down"}]
    /\ outages \in 0 .. MaxOutages /\ faults \in 0 .. MaxFaults
    /\ dark \in [Call -> SUBSET Node] /\ cut \in [Call -> SUBSET Node]

Owners == {c \in Call : pc[c] \in {"fencing", "owning"}}

\* Votes may come late, be lost, or be left from an earlier attempt; nodes
\* come and go: a key never has two owners (acquireRedlock over several
\* clients).
OneOwner == \A c, d \in Owners : KeyOf(c) = KeyOf(d) => c = d

\* Without a quorum of reachable nodes at any time no call gets its lock.  It
\* is told "busy", and a health check is green, only if none of the nodes that
\* were dark all along fails with errors that isConnectionError knows: one that
\* does is enough for the truth, whatever the others say.
RecognisedOutageIsNotBusy ==
    \A c \in Call :
        /\ outcome[c] \in {"lock", "value"} => Cardinality(dark[c]) < Quorum
        /\ outcome[c] \in {"null", "up"} =>
               Cardinality(dark[c]) < Quorum \/ dark[c] \subseteq Unlisted

\* What the comments of isContention and tryLock promise: no outage is taken
\* for contention.  Refuted, by errors that are not on the list.
OutageIsNotBusy ==
    \A c \in Call :
        outcome[c] \in {"null", "up"} => Cardinality(dark[c]) < Quorum

\* Nor is an outage reported when every node was reachable and answered from
\* the call's beginning to its end (tryLock, withLock's token, isHealthy).
NoFalseAlarm ==
    \A c \in Call : outcome[c] \in {"error", "down"} => cut[c] # {}

\* The nodes that still have the key of a call that is done are among those
\* it once could not reach, except for the lock of a tryLockWithToken whose
\* token was rejected: so as long as a minority is ever cut off, nothing else
\* leaves a lock in everybody's way until its TTL.
LeftBehind ==
    \A c \in Call :
        pc[c] = "done" /\ ~(kind[c] = "token" /\ outcome[c] = "error")
            => {n \in Node : keys[n][KeyOf(c)] = c} \subseteq cut[c]

\* "Checks if a resource is currently locked": refuted, the owner's majority
\* need not have the node that is asked.
OwnersAreSeen == \A c \in Owners : IsLocked(KeyOf(c))
=============================================================================
