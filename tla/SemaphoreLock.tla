---------------------------- MODULE SemaphoreLock ----------------------------
(***************************************************************************)
(* withLock with maxConcurrent: N (withSemaphoreLock): the ticket queue    *)
(* picks the first N, a Lua script over the owners set {key}:sem admits    *)
(* them.  Scores are expiries computed by the clients' clocks, and the     *)
(* script sweeps by the clock of whoever calls it.                         *)
(***************************************************************************)
EXTENDS TicketQueue

ASSUME SemaphoreAssumption ==
    /\ Ticketed = Call
    /\ \A c \in Call : HandleOf[c] = "zset"

VARIABLE stamp   \* Date.now() sent with c's semaphoreAcquire, 0: none

semaphoreVars == <<runtimeVars, queueVars, stamp>>
Owners == {c \in Call : Held(c)}

-----------------------------------------------------------------------------
\* c is among the first N: it computes its expiry and calls the script.
Ask(c) ==
    /\ Admitted(c)
    /\ stamp' = [stamp EXCEPT ![c] = Date(c)]
    /\ scan' = [scan EXCEPT ![c] = NoScan]
    /\ Goto(c, "asking")
    /\ Works /\ QueueRest
    /\ UNCHANGED <<wake, results, tickets, ticket, queue, deadline, ahead>>

\* Mutation: the limit is off by one.
RoomForOneMore(c) == Cardinality(Owners \ Expired(Owners, stamp[c])) <= Limit[c]

\* SEMAPHORE_ACQUIRE_LUA: sweep, count, add.  The limit is c's own maxConcurrent.
Room(c) == Cardinality(Owners \ Expired(Owners, stamp[c])) < Limit[c]

Acquire(c) ==
    /\ pc[c] = "asking" /\ Room(c)
    /\ SweepAndHold(Owners, stamp[c], c, stamp[c] + Ttl)
    /\ stamp' = [stamp EXCEPT ![c] = 0]
    /\ wake' = [wake EXCEPT ![c] = 0]
    /\ Goto(c, "granted")
    /\ Works /\ UNCHANGED <<fences, timers, results, queueVars>>

\* The owners set is still full: poll again from the same place.
AcquireFull(c) ==
    /\ pc[c] = "asking" /\ ~Room(c)
    /\ Sweep(Owners, stamp[c])
    /\ stamp' = [stamp EXCEPT ![c] = 0]
    /\ PollAgain(c)
    /\ Goto(c, "polling")
    /\ Works /\ UNCHANGED <<fences, timers, results, queueVars>>

\* The reply is lost: the slot may have been taken and nobody has its handle.
AcquireFault(c) ==
    /\ pc[c] = "asking"
    /\ \/ UNCHANGED holds
       \/ Room(c) /\ SweepAndHold(Owners, stamp[c], c, stamp[c] + Ttl)
       \/ ~Room(c) /\ Sweep(Owners, stamp[c])
    /\ stamp' = [stamp EXCEPT ![c] = 0]
    /\ Settle(c, "error")
    /\ Goto(c, "leaving")
    /\ Fault
    /\ UNCHANGED <<wake, fences, timers, emitted, queueVars>>

-----------------------------------------------------------------------------
SemaphoreStep(c) ==
    \/ Ask(c) \/ Acquire(c) \/ AcquireFull(c) \/ AcquireFault(c)
    \/ QueueStep(c) /\ UNCHANGED stamp
    \/ RuntimeStep(c) /\ UNCHANGED <<queueVars, stamp>>

Ready == \E c \in Call : RuntimeReady(c) \/ QueueReady(c) \/ pc[c] = "asking"

Finished(c) == Settled(c) \/ (pc[c] = "idle" /\ now > LastArrival)
Terminated == (\A c \in Call : Finished(c)) /\ now = MaxTime /\ UNCHANGED semaphoreVars

Init == RuntimeInit /\ QueueInit /\ stamp = [c \in Call |-> 0]
Next ==
    \/ \E c \in Call : SemaphoreStep(c)
    \/ Tick(Ready) /\ UNCHANGED <<queueVars, stamp>>
    \/ Terminated

Spec == Init /\ [][Next]_semaphoreVars

Advance(c) ==
    \/ Ask(c) \/ Acquire(c) \/ AcquireFull(c)
    \/ QueueAdvance(c) /\ UNCHANGED stamp
    \/ /\ \/ Begin(c) \/ IncrFence(c) \/ PexpireFence(c) \/ Release(c)
          \/ c \notin Hangs /\ CallbackEnds(c)
       /\ UNCHANGED <<queueVars, stamp>>
Fairness ==
    /\ \A c \in Call : WF_semaphoreVars(Advance(c))
    /\ WF_semaphoreVars(Tick(Ready) /\ UNCHANGED <<queueVars, stamp>>)
FairSpec == Spec /\ Fairness

-----------------------------------------------------------------------------
TypeOK ==
    /\ RuntimeType(RuntimePlace \cup QueuePlace \cup {"asking"})
    /\ QueueType
    /\ stamp \in [Call -> Nat]

\* A call that joins the owners is, with all that are left after the sweep, no
\* more than its own maxConcurrent (SEMAPHORE_ACQUIRE_LUA); and one that was
\* evicted, or refused, never gets back in: an extension renews a slot, it
\* never takes one (SEMAPHORE_EXTEND_LUA).
Abstract == INSTANCE Admission WITH
    Admits <- [c \in Call |-> {S \in SUBSET Call : Cardinality(S) <= Limit[c]}],
    holders <- Owners,
    closed <- {c \in Call : pc[c] \notin QueuePlace \cup {"idle", "asking"}}
ImplementsAdmission == Abstract!Spec

\* A holder loses its slot to a sweep only when it has expired by the clock of
\* some client: clocks that agree take nobody's slot early.
NoEarlyEviction ==
    [][\A c \in Call :
        lease[c] # 0 /\ lease'[c] = 0 /\ pc[c] \notin {"releasing", "leaving"}
            => \E d \in Call : Date(d) >= lease[c]]_semaphoreVars
=============================================================================
