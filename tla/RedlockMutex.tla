---------------------------- MODULE RedlockMutex ----------------------------
(***************************************************************************)
(* Locks on one resource or on a group, taken through redlock: withLock    *)
(* without queue/maxConcurrent/mode, tryLock and tryLockWithToken, which   *)
(* compete for the same keys, and extend() on a lock the caller holds.     *)
(*                                                                         *)
(* redlock.acquire is external: it sets all the keys or none, retries, and *)
(* gives back what its own attempts may have taken before it rejects.      *)
(***************************************************************************)
EXTENDS RunWithLock

CONSTANTS
    Manual,      \* calls of tryLock and tryLockWithToken
    WithToken,   \* those of tryLockWithToken
    RetryCount, RetryDelay, RetryJitter

ASSUME MutexAssumption ==
    /\ Manual \subseteq Call /\ WithToken \subseteq Manual
    /\ Manual \cap AutoExtend = {}
    /\ \A c \in Call : HandleOf[c] = "redlock"
    /\ RetryCount \in Nat /\ RetryDelay \in Nat /\ RetryJitter \in Nat

VARIABLE attempts   \* attempts of redlock.acquire that did not get the lock

mutexVars == <<runtimeVars, attempts>>

-----------------------------------------------------------------------------
\* Mutation: only c's own keys are looked at.
FreeForSelf(c) == ~Held(c)

\* None of c's keys exists, not even with c's own value (left by an attempt
\* whose reply was lost).
Free(c) == \A d \in Call : Held(d) => d # c /\ ~Conflict(c, d)

Start(c) ==
    /\ pc[c] = "idle" /\ now <= LastArrival
    /\ c \notin Ticketed      \* those wait for their turn first
    /\ Goto(c, "acquiring")
    /\ Works /\ UNCHANGED <<wake, holds, fences, timers, results, attempts>>

Attempting(c) == pc[c] = "acquiring" /\ now >= wake[c]

Grant(c) ==
    /\ Attempting(c) /\ Free(c)
    /\ Hold(c, now + Ttl)
    /\ Goto(c, "granted")
    /\ wake' = [wake EXCEPT ![c] = 0]
    /\ attempts' = [attempts EXCEPT ![c] = 0]
    /\ Works /\ UNCHANGED <<fences, timers, results>>

\* retryDelay, give or take retryJitter.
Sleep(c) ==
    \E delay \in {d \in 0 .. RetryDelay + RetryJitter : RetryDelay <= d + RetryJitter} :
        wake' = [wake EXCEPT ![c] = Later(delay)]

\* Mutation: one retry too many.
RetryOnceMore(c) ==
    /\ Attempting(c) /\ ~Free(c)
    /\ attempts[c] <= RetryCount
    /\ attempts' = [attempts EXCEPT ![c] = @ + 1]
    /\ Sleep(c)
    /\ Works /\ UNCHANGED <<pc, holds, fences, timers, results>>

Retry(c) ==
    /\ Attempting(c) /\ ~Free(c)
    /\ attempts[c] < RetryCount
    /\ attempts' = [attempts EXCEPT ![c] = @ + 1]
    /\ Sleep(c)
    /\ Works /\ UNCHANGED <<pc, holds, fences, timers, results>>

\* The attempt is rejected by the connection; it may have set the keys.
AttemptFault(c) ==
    /\ Attempting(c) /\ attempts[c] < RetryCount
    /\ UNCHANGED holds \/ (Free(c) /\ Hold(c, now + Ttl))
    /\ attempts' = [attempts EXCEPT ![c] = @ + 1]
    /\ Sleep(c)
    /\ Fault
    /\ UNCHANGED <<pc, fences, timers, results>>

\* Mutation: an attempt without an answer counts as one that took nothing.
WithdrawNothing(c) == lease' = lease

\* redlock gives up and withdraws what an attempt may have set.
Withdraw(c) == lease' = [lease EXCEPT ![c] = 0]

\* withLock reports any rejection as LockAcquisitionException; tryLock tells
\* contention (null) from an outage (rethrown).
Report(c, busy) ==
    IF c \in Manual
    THEN Settle(c, IF busy THEN "null" ELSE "error") /\ UNCHANGED emitted
    ELSE Settle(c, "refused") /\ Emit(c, {"failed"})

Deny(c) ==
    /\ Attempting(c) /\ ~Free(c) /\ attempts[c] = RetryCount
    /\ Report(c, TRUE)
    /\ Exit(c)
    /\ \/ Works /\ Withdraw(c)
       \/ Fault /\ lease' = lease
    /\ wake' = [wake EXCEPT ![c] = 0]
    /\ attempts' = [attempts EXCEPT ![c] = 0]
    /\ UNCHANGED <<order, grants, fences, timers>>

\* The last attempt fails for another reason, which may not be on the list of
\* errors that count as an outage.  With one fault the withdrawal works; with two
\* it is lost as well, and keys that were set stay.
DenyFault(c) ==
    /\ Attempting(c) /\ attempts[c] = RetryCount
    /\ \E busy \in BOOLEAN : Report(c, busy)
    /\ Exit(c)
    /\ \/ Fault /\ Withdraw(c) /\ UNCHANGED <<order, grants>>
       \/ /\ faults + 2 <= MaxFaults /\ faults' = faults + 2 /\ UNCHANGED now
          /\ UNCHANGED holds \/ (Free(c) /\ Hold(c, now + Ttl))
    /\ wake' = [wake EXCEPT ![c] = 0]
    /\ attempts' = [attempts EXCEPT ![c] = 0]
    /\ UNCHANGED <<fences, timers>>

-----------------------------------------------------------------------------
(* tryLock, tryLockWithToken and extend.                                   *)

TryReturns(c) ==
    /\ pc[c] = "granted"
    /\ IF c \in WithToken
       THEN Goto(c, "fencing") /\ UNCHANGED outcome
       ELSE Goto(c, "owning") /\ Settle(c, "value")
    /\ Works /\ UNCHANGED <<wake, holds, fences, timers, emitted, attempts>>

TokenReturns(c) ==
    /\ \/ /\ pc[c] = "fencing" /\ IssueToken(c)
          /\ IF IdleTtl = 0
             THEN Goto(c, "owning") /\ Settle(c, "value")
             ELSE Goto(c, "pexpire") /\ UNCHANGED outcome
       \/ /\ pc[c] = "pexpire" /\ Refresh(Keys[c]) /\ UNCHANGED <<token, timely>>
          /\ Goto(c, "owning") /\ Settle(c, "value")
    /\ Works /\ UNCHANGED <<wake, holds, timers, emitted, attempts>>

\* The rejection goes to the caller, and the lock with it: nobody has the
\* handle, so it lasts until its TTL.
TokenFault(c) ==
    /\ TokenLost(c)
    /\ Goto(c, "done")
    /\ UNCHANGED <<wake, holds, timers, emitted, attempts>>

\* service.extend(lock): EXTENDED and a renewed lock, or LockExtendException, to
\* which a listener of EXTENDED that throws turns the renewal as well.
UserExtends(c) ==
    /\ pc[c] = "owning" /\ Held(c)
    /\ lease' = [lease EXCEPT ![c] = now + Ttl]
    /\ Emit(c, {"extended"})
    /\ UNCHANGED outcome \/ ("extended" \in ThrowsOn /\ Settle(c, "error"))
    /\ Works /\ UNCHANGED <<pc, wake, order, grants, fences, timers, attempts>>

UserExtendFails(c) ==
    /\ pc[c] = "owning"
    /\ \/ ~Held(c) /\ Works /\ lease' = lease
       \/ Fault /\ lease' \in {lease, [lease EXCEPT ![c] = IF Held(c) THEN now + Ttl ELSE @]}
    /\ Settle(c, "error")
    /\ UNCHANGED <<pc, wake, order, grants, fences, timers, emitted, attempts>>

\* The caller releases the lock it was given; no event tells.
UserReleases(c) ==
    /\ pc[c] = "owning"
    /\ \/ Works /\ lease' = [lease EXCEPT ![c] = 0]
       \/ Fault /\ lease' = lease
    /\ Goto(c, "done")
    /\ UNCHANGED <<wake, order, grants, fences, timers, results, attempts>>

-----------------------------------------------------------------------------
ManualStep(c) ==
    /\ c \in Manual
    /\ \/ TryReturns(c) \/ TokenReturns(c) \/ TokenFault(c)
       \/ UserExtends(c) \/ UserExtendFails(c) \/ UserReleases(c)
       \/ Crash(c) /\ UNCHANGED attempts

AcquireStep(c) == Grant(c) \/ Retry(c) \/ AttemptFault(c) \/ Deny(c) \/ DenyFault(c)

CallStep(c) ==
    \/ Start(c) \/ AcquireStep(c) \/ ManualStep(c)
    \/ c \notin Manual /\ RuntimeStep(c) /\ UNCHANGED attempts

Ready == \E c \in Call : RuntimeReady(c) \/ Attempting(c)

\* Bound: a call that has not arrived by LastArrival never does.
Finished(c) == Settled(c) \/ (pc[c] = "idle" /\ now > LastArrival)
Terminated == (\A c \in Call : Finished(c)) /\ now = MaxTime /\ UNCHANGED mutexVars

Init == RuntimeInit /\ attempts = [c \in Call |-> 0]
Next ==
    \/ \E c \in Call : CallStep(c)
    \/ Tick(Ready) /\ UNCHANGED attempts
    \/ Terminated

Spec == Init /\ [][Next]_mutexVars

\* Each call's process goes on, its interval fires, its extensions are
\* answered and time passes; callbacks end unless they hang; nothing makes a
\* call arrive, a process die or a command fail.
Advance(c) ==
    \/ Grant(c) \/ Retry(c) \/ Deny(c)
    \/ /\ Begin(c) \/ IncrFence(c) \/ PexpireFence(c) \/ Release(c)
       /\ UNCHANGED attempts
Fairness ==
    /\ \A c \in Call :
        /\ WF_mutexVars(Advance(c))
        /\ WF_mutexVars(ExtendFire(c) /\ UNCHANGED attempts)
        /\ c \notin Hangs => WF_mutexVars(CallbackEnds(c) /\ UNCHANGED attempts)
        /\ WF_mutexVars((ExtendLands(c) \/ ExtendRefused(c)) /\ UNCHANGED attempts)
    /\ WF_mutexVars(Tick(Ready) /\ UNCHANGED attempts)

FairSpec == Spec /\ Fairness

-----------------------------------------------------------------------------
TypeOK ==
    /\ RuntimeType(RuntimePlace \cup {"acquiring", "owning"})
    /\ attempts \in [Call -> 0 .. RetryCount]

\* Two calls never hold a common resource at the same time, whatever is lost,
\* late or retried (acquireRedlock; the extensions and releases that follow).
MutualExclusion ==
    \A c, d \in Call : Conflict(c, d) => ~(Held(c) /\ Held(d))

\* A settled withLock call has emitted exactly one verdict: FAILED without
\* ACQUIRED, or ACQUIRED with one of RELEASED and RELEASE_FAILED.
OneVerdict ==
    \A c \in Call \ Manual :
        pc[c] = "done" =>
            /\ Cardinality(emitted[c] \cap {"failed", "released", "release_failed"}) = 1
            /\ ("acquired" \in emitted[c]) = ("failed" \notin emitted[c])

\* A settled withLock call whose lock still exists has reported it, as
\* FAILED or RELEASE_FAILED (the finally of runWithLock).
LeakIsReported ==
    \A c \in Call \ Manual :
        pc[c] = "done" /\ Held(c)
            => emitted[c] \cap {"failed", "release_failed"} # {}

\* Whoever is told null has no lock to release, so nothing may be left, as
\* long as the commands that were to withdraw it were answered (tryLock).
NullHoldsNothing ==
    \A c \in Manual : outcome[c] = "null" /\ faults <= 1 => ~Held(c)

\* Redlock's locks implement the abstract one: holders share no resource, and
\* a call that was granted its lock or was refused never holds again.
Abstract == INSTANCE Admission WITH
    Admits <- [e \in Call |-> {S \in SUBSET Call : \A c, d \in S : ~Conflict(c, d)}],
    holders <- {c \in Call : Held(c)},
    closed <- {c \in Call : pc[c] \notin {"idle", "acquiring"}}
ImplementsAdmission == Abstract!Spec
=============================================================================
