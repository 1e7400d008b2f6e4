----------------------------- MODULE QueuedLock ------------------------------
(***************************************************************************)
(* withLock with queue: true (withQueuedLock): the ticket queue says whose *)
(* turn it is, redlock that only one holds.  Calls outside Ticketed take   *)
(* the same lock without queuing, as any other code may.                   *)
(***************************************************************************)
EXTENDS RedlockMutex, TicketQueue

\* tryLock and tryLockWithToken have no options.
ASSUME QueuedAssumption == Ticketed \cap Manual = {}

queuedVars == <<mutexVars, queueVars>>

-----------------------------------------------------------------------------
\* c is at the front: runWithLock calls redlock.acquire.
Admit(c) ==
    /\ Admitted(c)
    /\ scan' = [scan EXCEPT ![c] = NoScan]
    /\ wake' = [wake EXCEPT ![c] = 0]
    /\ Goto(c, "acquiring")
    /\ Works /\ QueueRest
    /\ UNCHANGED <<results, attempts, tickets, ticket, queue, deadline, ahead>>

\* A process that dies leaves its entry in the queue and its key in Redis.
QueuedStep(c) ==
    \/ CallStep(c) /\ UNCHANGED queueVars
    \/ QueueStep(c) /\ UNCHANGED attempts
    \/ Admit(c)

QueuedReady == Ready \/ \E c \in Call : QueueReady(c)

QueuedInit == Init /\ QueueInit
QueuedNext ==
    \/ \E c \in Call : QueuedStep(c)
    \/ Tick(QueuedReady) /\ UNCHANGED <<attempts, queueVars>>
    \/ Terminated /\ UNCHANGED queueVars

QueuedSpec == QueuedInit /\ [][QueuedNext]_queuedVars

QueuedFairness ==
    /\ \A c \in Call :
        /\ WF_queuedVars(Advance(c) /\ UNCHANGED queueVars)
        /\ c \notin Hangs => WF_queuedVars(CallbackEnds(c) /\ UNCHANGED <<attempts, queueVars>>)
        /\ WF_queuedVars(Admit(c) \/ (QueueAdvance(c) /\ UNCHANGED attempts))
    /\ WF_queuedVars(Tick(QueuedReady) /\ UNCHANGED <<attempts, queueVars>>)
FairQueuedSpec == QueuedSpec /\ QueuedFairness

-----------------------------------------------------------------------------
QueuedType ==
    /\ RuntimeType(RuntimePlace \cup QueuePlace \cup {"acquiring", "owning"})
    /\ attempts \in [Call -> 0 .. RetryCount]
    /\ QueueType

\* Queued and plain calls together still implement the abstract admission.
AbstractQueued == INSTANCE Admission WITH
    Admits <- [e \in Call |-> {S \in SUBSET Call : \A c, d \in S : ~Conflict(c, d)}],
    holders <- {c \in Call : Held(c)},
    closed <- {c \in Call : pc[c] \notin QueuePlace \cup {"idle", "acquiring"}}
QueuedImplementsAdmission == AbstractQueued!Spec

\* Two queued calls never try to acquire at the same time.
OnlyHeadAcquires ==
    \A c, d \in Ticketed : pc[c] = "acquiring" /\ pc[d] = "acquiring" => c = d

\* A queued call is refused only when its queueTimeout is over.
RefusedOnlyAtTimeout ==
    [][\A c \in Ticketed :
        outcome[c] = "pending" /\ outcome'[c] = "refused"
            => Date(c) >= deadline[c]]_queuedVars
=============================================================================
