----------------------------- MODULE RunWithLock -----------------------------
(***************************************************************************)
(* The part of LockService every locking mode shares (lock.service.ts,     *)
(* runWithLock): what happens to a call from the moment Redis has granted  *)
(* it the lock until its promise settles.  A mode module EXTENDS this one, *)
(* adds how a call gets to "granted", and supplies the next-state relation. *)
(*                                                                         *)
(* Redis is one logical store.  A command and its reply are one step,      *)
(* except auto-extension, whose command is in flight (sent) while the rest *)
(* of the call goes on; a command that is rejected may still have taken    *)
(* effect.  Every call is its own client process unless a mode says        *)
(* otherwise.  Time is a bounded counter; 0 stands for "none" everywhere.  *)
(***************************************************************************)
EXTENDS Naturals, FiniteSets

CONSTANTS
    Call,         \* calls of withLock / tryLock / tryLockWithToken
    Resource,     \* resources a call may name
    Keys,         \* Keys[c]: the resources c locks; as a set, c's fence label
    HandleOf,     \* HandleOf[c]: "redlock", "zset" (semaphore, reader), "writer"
    Ticketed,     \* calls that leave a ticket queue in an outer finally
    AutoExtend,   \* calls made with autoExtend: true
    Crashable,    \* calls whose process may die
    Hangs,        \* calls whose callback, or application, may never end
    Ttl,          \* duration of every lock
    MinInterval,  \* the 50 ms floor under the auto-extension interval
    IdleTtl,      \* fenceCounterIdleTtl, 0 when not configured
    Skew,         \* Skew[c]: how far c's clock is ahead of Redis's
    ThrowsOn,     \* events for which an application's listener may throw
    Prompt,       \* TRUE: no time passes while a call has something to do
    MaxTime,      \* bound of the clock
    LastArrival,  \* bound: calls arrive until this instant
    MaxFaults     \* bound: Redis commands that are rejected

ASSUME SetsAssumption ==
    /\ Keys \in [Call -> SUBSET Resource] /\ \A c \in Call : Keys[c] # {}
    /\ HandleOf \in [Call -> {"redlock", "zset", "writer"}]
    /\ Ticketed \subseteq Call /\ AutoExtend \subseteq Call
    /\ Crashable \subseteq Call /\ Hangs \subseteq Call
    /\ ThrowsOn \subseteq {"acquired", "extended", "released", "queued"}
    /\ Prompt \in BOOLEAN

ASSUME NumbersAssumption ==
    /\ Ttl \in Nat \ {0} /\ MinInterval \in Nat \ {0} /\ IdleTtl \in Nat
    /\ Skew \in [Call -> Nat]
    /\ MaxTime \in Nat \ {0} /\ LastArrival \in Nat /\ MaxFaults \in Nat

VARIABLES
    now,       \* Redis's clock
    faults,    \* rejected commands so far
    pc,        \* where each call is
    wake,      \* earliest instant of a call's next poll or retry
    lease,     \* expiry of what Redis holds for the call, 0: nothing
    order,     \* history: number of the call's last acquisition, 0: none
    grants,    \* history: acquisitions so far
    fence,     \* the INCR counter of each label
    fenceExp,  \* expiry of that counter, 0: persistent
    token,     \* fencing token issued to the call, 0: none
    timely,    \* history: the token was issued while the lock was held
    due,       \* next firing of the extension interval, 0: no interval
    sent,      \* Date.now() of the extension in flight, 0: none
    aborted,   \* the call's AbortSignal
    emitted,   \* LockEvents emitted for the call
    outcome    \* how the last promise given to the caller settled

clock == <<now, faults>>
holds == <<lease, order, grants>>
fences == <<fence, fenceExp, token, timely>>
timers == <<due, sent, aborted>>
results == <<emitted, outcome>>
runtimeVars == <<clock, pc, wake, holds, fences, timers, results>>

Label == {Keys[c] : c \in Call}
Event == {"acquired", "failed", "extended", "extend_failed", "released",
          "release_failed", "queued"}
Outcome == {"pending", "value", "null", "refused", "error"}

-----------------------------------------------------------------------------
(* Time, leases and faults.                                                *)

Date(c) == now + Skew[c]
Period == IF Ttl \div 2 < MinInterval THEN MinInterval ELSE Ttl \div 2
Later(delay) == IF now + delay < MaxTime THEN now + delay ELSE MaxTime

\* A Redis key is gone once its TTL has passed; a member of an owners or
\* readers set stays until somebody removes it.
Held(c) == lease[c] # 0 /\ (HandleOf[c] = "zset" \/ now < lease[c])
Conflict(c, d) == c # d /\ Keys[c] \cap Keys[d] # {}

Works == UNCHANGED clock
Fault == faults < MaxFaults /\ faults' = faults + 1 /\ UNCHANGED now

Goto(c, place) == pc' = [pc EXCEPT ![c] = place]
\* The promise settles, or the mode's outer finally runs first.
Exit(c) == Goto(c, IF c \in Ticketed THEN "leaving" ELSE "done")
Emit(c, E) == emitted' = [emitted EXCEPT ![c] = @ \cup E]
Settle(c, result) == outcome' = [outcome EXCEPT ![c] = result]
\* Mutation: the interval is not cleared.
StopTimerForgotten(c) == due' = due
StopTimer(c) == due' = [due EXCEPT ![c] = 0]

\* What a mode's acquisition script does for the runtime: c holds the lock
\* until the given instant, and is the latest to have acquired one.
Hold(c, expiry) ==
    /\ lease' = [lease EXCEPT ![c] = expiry]
    /\ grants' = grants + 1
    /\ order' = [order EXCEPT ![c] = grants + 1]

\* Mutation: the sweep takes what expires next.
ExpiredEarly(S, stamp) == {c \in S : lease[c] # 0 /\ lease[c] <= stamp + 1}

\* ZREMRANGEBYSCORE -inf stamp: the members of S that have expired by the
\* clock of the client that sent the stamp are removed.
Expired(S, stamp) == {c \in S : lease[c] # 0 /\ lease[c] <= stamp}
Sweep(S, stamp) ==
    /\ lease' = [c \in Call |-> IF c \in Expired(S, stamp) THEN 0 ELSE lease[c]]
    /\ UNCHANGED <<order, grants>>
SweepAndHold(S, stamp, c, expiry) ==
    /\ lease' = [d \in Call |-> IF d = c THEN expiry
                                 ELSE IF d \in Expired(S, stamp) THEN 0 ELSE lease[d]]
    /\ grants' = grants + 1
    /\ order' = [order EXCEPT ![c] = grants + 1]

-----------------------------------------------------------------------------
(* After the acquisition.                                                  *)

\* acquire() resolves: ACQUIRED is emitted and the extension interval starts.
Begin(c) ==
    /\ pc[c] = "granted"
    /\ Emit(c, {"acquired"})
    /\ due' = [due EXCEPT ![c] = IF c \in AutoExtend THEN Later(Period) ELSE 0]
    /\ Goto(c, "fencing")
    /\ Works /\ UNCHANGED <<wake, holds, fences, sent, aborted, outcome>>

\* The emit is inside the try around acquire(): a listener that throws is
\* reported as a failed acquisition and the handle is dropped, not released.
BeginThrows(c) ==
    /\ pc[c] = "granted"
    /\ "acquired" \in ThrowsOn
    /\ Emit(c, {"acquired", "failed"})
    /\ Settle(c, "refused")
    /\ Exit(c)
    /\ Works /\ UNCHANGED <<wake, holds, fences, timers>>

CounterExpired(label) == fenceExp[label] # 0 /\ now >= fenceExp[label]

\* Mutation: the counter is read, not incremented.
CurrentNumber(label) ==
    IF CounterExpired(label) \/ fence[label] = 0 THEN 1 ELSE fence[label]

\* INCR of the label's counter; an expired counter starts again from 1.
NextNumber(label) == (IF CounterExpired(label) THEN 0 ELSE fence[label]) + 1
Increment(label) ==
    /\ fence' = [fence EXCEPT ![label] = NextNumber(label)]
    /\ fenceExp' = [fenceExp EXCEPT ![label] = IF CounterExpired(label) THEN 0 ELSE @]

\* PEXPIRE has no effect on a key that is gone.
Refresh(label) ==
    /\ fence' = fence
    /\ fenceExp' = [fenceExp EXCEPT ![label] =
                        IF CounterExpired(label) THEN @ ELSE now + IdleTtl]

IssueToken(c) ==
    /\ Increment(Keys[c])
    /\ token' = [token EXCEPT ![c] = NextNumber(Keys[c])]
    /\ timely' = [timely EXCEPT ![c] = Held(c)]

IncrFence(c) ==
    /\ pc[c] = "fencing"
    /\ IssueToken(c)
    /\ Goto(c, IF IdleTtl = 0 THEN "callback" ELSE "pexpire")
    /\ Works /\ UNCHANGED <<wake, holds, timers, results>>

\* PEXPIRE is a command of its own, sent after the INCR has answered.
PexpireFence(c) ==
    /\ pc[c] = "pexpire"
    /\ Refresh(Keys[c])
    /\ Goto(c, "callback")
    /\ Works /\ UNCHANGED <<wake, holds, token, timely, timers, results>>

\* INCR or PEXPIRE is rejected, applied or not.
TokenLost(c) ==
    /\ \/ pc[c] \in {"fencing", "pexpire"} /\ UNCHANGED <<fence, fenceExp>>
       \/ pc[c] = "fencing" /\ Increment(Keys[c])
       \/ pc[c] = "pexpire" /\ Refresh(Keys[c])
    /\ Settle(c, "error")
    /\ Fault
    /\ UNCHANGED <<token, timely>>

\* Mutation: the token is issued before the try.
FenceFaultUnreleased(c) ==
    /\ TokenLost(c)
    /\ StopTimer(c)
    /\ Exit(c)
    /\ UNCHANGED <<wake, holds, sent, aborted, emitted>>

\* The callback never runs; finally releases the lock.
FenceFault(c) ==
    /\ TokenLost(c)
    /\ StopTimer(c)
    /\ Goto(c, "releasing")
    /\ UNCHANGED <<wake, holds, sent, aborted, emitted>>

\* The callback returns or throws ("value" is either, it is passed on);
\* finally clears the interval.
CallbackEnds(c) ==
    /\ pc[c] = "callback"
    /\ Settle(c, "value")
    /\ StopTimer(c)
    /\ Goto(c, "releasing")
    /\ Works /\ UNCHANGED <<wake, holds, fences, sent, aborted, emitted>>

\* Redlock rejects a release that finds the key gone; ZREM and the writer's
\* compare-and-delete report it in a reply nobody looks at.
ReleaseRefused(c) == HandleOf[c] = "redlock" /\ ~Held(c)

Release(c) ==
    /\ pc[c] = "releasing"
    /\ lease' = [lease EXCEPT ![c] = 0]
    /\ \/ ReleaseRefused(c) /\ Emit(c, {"release_failed"})
       \/ ~ReleaseRefused(c) /\ Emit(c, {"released"})
       \/ /\ ~ReleaseRefused(c) /\ "released" \in ThrowsOn
          /\ Emit(c, {"released", "release_failed"})
    /\ Exit(c)
    /\ Works /\ UNCHANGED <<wake, order, grants, fences, timers, outcome>>

ReleaseFault(c) ==
    /\ pc[c] = "releasing"
    /\ \/ lease' = lease
       \/ lease' = [lease EXCEPT ![c] = 0]
    /\ Emit(c, {"release_failed"})
    /\ Exit(c)
    /\ Fault
    /\ UNCHANGED <<wake, order, grants, fences, timers, outcome>>

-----------------------------------------------------------------------------
(* Auto-extension.  Bound: one extension of a call in flight at a time.    *)

ExtendFire(c) ==
    /\ due[c] # 0 /\ now >= due[c] /\ sent[c] = 0
    /\ pc[c] # "crashed"
    /\ due' = [due EXCEPT ![c] = Later(Period)]
    /\ sent' = [sent EXCEPT ![c] = Date(c)]
    /\ Works /\ UNCHANGED <<pc, wake, holds, fences, aborted, results>>

\* Mutation: the extension script sets what it does not find.
RenewableIfGone(c) == TRUE

\* The extension scripts renew what still has the caller's own value.
Renewable(c) == Held(c)

\* A set member gets the expiry its client computed, a key a TTL from now.
Extended(c) ==
    lease' = [lease EXCEPT ![c] =
                 IF HandleOf[c] = "zset" THEN sent[c] + Ttl ELSE now + Ttl]

\* Mutation: the signal is not aborted.
LostSilently(c, E) ==
    /\ Emit(c, E)
    /\ StopTimer(c)
    /\ aborted' = aborted

\* The interval is cleared and the AbortSignal fires.
ExtensionLost(c, E) ==
    /\ Emit(c, E)
    /\ StopTimer(c)
    /\ aborted' = [aborted EXCEPT ![c] = TRUE]

ExtendInFlight(c) == sent[c] # 0 /\ pc[c] # "crashed" /\ sent' = [sent EXCEPT ![c] = 0]

ExtendLands(c) ==
    /\ ExtendInFlight(c) /\ Renewable(c)
    /\ Extended(c)
    /\ \/ Emit(c, {"extended"}) /\ UNCHANGED <<due, aborted>>
       \/ /\ "extended" \in ThrowsOn      \* .then() rejects into .catch()
          /\ ExtensionLost(c, {"extended", "extend_failed"})
    /\ Works /\ UNCHANGED <<pc, wake, order, grants, fences, outcome>>

ExtendRefused(c) ==
    /\ ExtendInFlight(c) /\ ~Renewable(c)
    /\ ExtensionLost(c, {"extend_failed"})
    /\ Works /\ UNCHANGED <<pc, wake, holds, fences, outcome>>

ExtendFault(c) ==
    /\ ExtendInFlight(c)
    /\ lease' = lease \/ (Renewable(c) /\ Extended(c))
    /\ ExtensionLost(c, {"extend_failed"})
    /\ Fault
    /\ UNCHANGED <<pc, wake, order, grants, fences, outcome>>

-----------------------------------------------------------------------------
(* Processes die, time passes.                                             *)

Settled(c) == pc[c] \in {"done", "crashed"}

\* Nothing of the process survives; what Redis holds for it does.  An
\* extension in flight is either applied before (ExtendLands) or lost.
Crash(c) ==
    /\ c \in Crashable
    /\ pc[c] # "idle" /\ ~Settled(c)
    /\ Goto(c, "crashed")
    /\ due' = [due EXCEPT ![c] = 0]
    /\ sent' = [sent EXCEPT ![c] = 0]
    /\ Works /\ UNCHANGED <<wake, holds, fences, aborted, results>>

\* The runtime's own urgent work; a mode adds its own to waiting.
TimerReady(c) == (due[c] # 0 /\ now >= due[c]) \/ sent[c] # 0
RuntimeReady(c) ==
    \/ pc[c] \in {"granted", "fencing", "pexpire", "releasing"}
    \/ TimerReady(c)

Tick(ready) ==
    /\ now < MaxTime
    /\ Prompt => ~ready
    /\ now' = now + 1
    /\ UNCHANGED <<faults, pc, wake, holds, fences, timers, results>>

RuntimeStep(c) ==
    \/ Begin(c) \/ BeginThrows(c)
    \/ IncrFence(c) \/ PexpireFence(c) \/ FenceFault(c)
    \/ CallbackEnds(c)
    \/ Release(c) \/ ReleaseFault(c)
    \/ ExtendFire(c) \/ ExtendLands(c) \/ ExtendRefused(c) \/ ExtendFault(c)
    \/ Crash(c)

RuntimeInit ==
    /\ now = 1 /\ faults = 0 /\ grants = 0
    /\ pc = [c \in Call |-> "idle"]
    /\ wake = [c \in Call |-> 0]
    /\ lease = [c \in Call |-> 0]
    /\ order = [c \in Call |-> 0]
    /\ fence = [l \in Label |-> 0]
    /\ fenceExp = [l \in Label |-> 0]
    /\ token = [c \in Call |-> 0]
    /\ timely = [c \in Call |-> FALSE]
    /\ due = [c \in Call |-> 0]
    /\ sent = [c \in Call |-> 0]
    /\ aborted = [c \in Call |-> FALSE]
    /\ emitted = [c \in Call |-> {}]
    /\ outcome = [c \in Call |-> "pending"]

RuntimeType(Place) ==
    /\ now \in Nat \ {0} /\ faults \in Nat /\ grants \in Nat
    /\ pc \in [Call -> Place]
    /\ wake \in [Call -> Nat]
    /\ lease \in [Call -> Nat]
    /\ order \in [Call -> Nat]
    /\ fence \in [Label -> Nat] /\ fenceExp \in [Label -> Nat]
    /\ token \in [Call -> Nat] /\ timely \in [Call -> BOOLEAN]
    /\ due \in [Call -> Nat] /\ sent \in [Call -> Nat]
    /\ aborted \in [Call -> BOOLEAN]
    /\ emitted \in [Call -> SUBSET Event]
    /\ outcome \in [Call -> Outcome]

RuntimePlace == {"idle", "granted", "fencing", "pexpire", "callback",
                 "releasing", "leaving", "done", "crashed"}
-----------------------------------------------------------------------------
(* What a call may rely on, whatever the mode.  Runs name the conditions.  *)

\* A token issued while its lock was still held is smaller than that of any
\* later acquisition of the same label, so the storage layer can refuse the
\* earlier writer (nextFencingToken called after the admission).
FencedHandover ==
    \A c, d \in Call :
        /\ Keys[c] = Keys[d] /\ timely[c]
        /\ order[c] < order[d] /\ token[d] # 0
        => token[c] < token[d]

\* Once a call has settled, and the extension that was in flight has been
\* answered, nothing renews its lock (clearInterval in finally).
NoLateRenewal ==
    [][\A c \in Call : Settled(c) /\ sent[c] = 0
            => lease'[c] <= lease[c] /\ sent'[c] = 0]_runtimeVars

\* The callback of an auto-extended call that has lost its lock sees its
\* signal aborted (the catch of the extension interval).
NeverLostUnnoticed ==
    \A c \in AutoExtend : pc[c] = "callback" => Held(c) \/ aborted[c]

\* The same when replies and timers may be late: the signal still comes.
LossIsSignalled ==
    \A c \in AutoExtend :
        pc[c] = "callback" /\ ~Held(c) ~> aborted[c] \/ pc[c] # "callback"

\* A label's counter does not expire under a holder that got its token from
\* it (fenceCounterIdleTtl, refreshed after every INCR).
FenceAliveWhileHeld ==
    \A c \in Call : Held(c) /\ token[c] # 0 => ~CounterExpired(Keys[c])

\* EXTEND_FAILED is only emitted while the callback may run, the signal with
\* it (the event tells that the lock was lost in mid-callback).
ExtendFailedMidCallback ==
    [][\A c \in Call : "extend_failed" \in emitted'[c] \ emitted[c]
            => pc[c] \in {"fencing", "pexpire", "callback"}]_runtimeVars

\* Tokens of one label grow in the order of the acquisitions.
TokensFollowAdmission ==
    \A c, d \in Call :
        /\ Keys[c] = Keys[d] /\ token[c] # 0 /\ token[d] # 0
        /\ order[c] < order[d]
        => token[c] < token[d]

\* So do the tokens of any two calls that lock a common resource.
TokensFollowResource ==
    \A c, d \in Call :
        /\ Keys[c] \cap Keys[d] # {} /\ timely[c] /\ timely[d]
        /\ order[c] < order[d]
        => token[c] < token[d]

\* A settled call whose commands were all answered holds nothing.
AlwaysReleases ==
    \A c \in Call : pc[c] = "done" /\ faults = 0 => ~Held(c)

\* Every call that has been made settles, if its own callback ends: rivals
\* that hang, die or keep the lock cannot hold it up (retries, queueTimeout).
EveryCallSettles == \A c \in Call \ Hangs : pc[c] # "idle" ~> Settled(c)

=============================================================================
