---------------------------- MODULE ReadWriteLock ----------------------------
(***************************************************************************)
(* withLock with mode: 'read' or 'write' (withReadWriteLock).  Readers are *)
(* members of a sorted set and simply retry; writers go through the ticket *)
(* queue, and the one at the front keeps new readers out with the          *)
(* {key}:rw:writer-waiting marker while the present ones drain.            *)
(***************************************************************************)
EXTENDS TicketQueue

CONSTANT MarkerTtl   \* Math.max((basePollDelay + retryJitter) * 3, 100)

Reader == {c \in Call : HandleOf[c] = "zset"}
Writer == {c \in Call : HandleOf[c] = "writer"}

ASSUME ReadWriteAssumption ==
    /\ \A c \in Call : HandleOf[c] \in {"zset", "writer"}
    /\ Ticketed = Writer /\ \A c \in Call : Limit[c] = 1
    /\ MarkerTtl \in Nat /\ MarkerTtl >= 3 * (PollDelay + PollJitter)

VARIABLES
    marker,   \* expiry of the writer-waiting key, 0: none
    stamp,    \* Date.now() sent with c's acquisition script, 0: none
    marked    \* history: the writers that have set the marker

rwVars == <<runtimeVars, queueVars, marker, stamp, marked>>

MarkerExists == marker # 0 /\ now < marker
WriterExists == \E w \in Writer : Held(w)
Readers == {r \in Reader : Held(r)}

-----------------------------------------------------------------------------
(* mode: 'read'.                                                           *)

ReadStart(c) ==
    /\ pc[c] = "idle" /\ now <= LastArrival /\ c \in Reader
    /\ deadline' = [deadline EXCEPT ![c] = Date(c) + QueueTimeout]
    /\ Goto(c, "reading")
    /\ Works /\ QueueRest
    /\ UNCHANGED <<wake, results, tickets, ticket, queue, scan, ahead, marker, stamp, marked>>

Reading(c) == pc[c] = "reading" /\ now >= wake[c]

ReadTimesOut(c) ==
    /\ Reading(c) /\ OutOfTime(c)
    /\ Emit(c, {"failed"}) /\ Settle(c, "refused")
    /\ Goto(c, "done")
    /\ Works /\ QueueRest /\ UNCHANGED <<wake, queueVars, marker, stamp, marked>>

ReadAsk(c) ==
    /\ Reading(c) /\ ~OutOfTime(c)
    /\ stamp' = [stamp EXCEPT ![c] = Date(c)]
    /\ Goto(c, "readasking")
    /\ Works /\ QueueRest /\ UNCHANGED <<wake, results, queueVars, marker, marked>>

\* Mutation: the waiting writer is not looked for.
ReadersMayEnterUnwaiting == ~WriterExists

\* RW_ACQUIRE_READ_LUA.
ReadersMayEnter == ~WriterExists /\ ~MarkerExists

ReadAcquire(c) ==
    /\ pc[c] = "readasking" /\ ReadersMayEnter
    /\ SweepAndHold(Reader, stamp[c], c, stamp[c] + Ttl)
    /\ stamp' = [stamp EXCEPT ![c] = 0]
    /\ wake' = [wake EXCEPT ![c] = 0]
    /\ Goto(c, "granted")
    /\ Works /\ UNCHANGED <<fences, timers, results, queueVars, marker, marked>>

ReadBlocked(c) ==
    /\ pc[c] = "readasking" /\ ~ReadersMayEnter
    /\ Sweep(Reader, stamp[c])
    /\ stamp' = [stamp EXCEPT ![c] = 0]
    /\ PollAgain(c)
    /\ Goto(c, "reading")
    /\ Works /\ UNCHANGED <<fences, timers, results, queueVars, marker, marked>>

ReadFault(c) ==
    /\ pc[c] = "readasking"
    /\ \/ UNCHANGED holds
       \/ ReadersMayEnter /\ SweepAndHold(Reader, stamp[c], c, stamp[c] + Ttl)
       \/ ~ReadersMayEnter /\ Sweep(Reader, stamp[c])
    /\ stamp' = [stamp EXCEPT ![c] = 0]
    /\ Settle(c, "error")
    /\ Goto(c, "done")
    /\ Fault
    /\ UNCHANGED <<wake, fences, timers, emitted, queueVars, marker, marked>>

-----------------------------------------------------------------------------
(* mode: 'write'.                                                          *)

\* At the front of the queue: SET the marker, then ask for the lock.
Mark(c) ==
    /\ Admitted(c)
    /\ marker' = now + MarkerTtl
    /\ marked' = marked \cup {c}
    /\ stamp' = [stamp EXCEPT ![c] = Date(c)]
    /\ scan' = [scan EXCEPT ![c] = NoScan]
    /\ Goto(c, "asking")
    /\ Works /\ QueueRest
    /\ UNCHANGED <<wake, results, tickets, ticket, queue, deadline, ahead>>

MarkFault(c) ==
    /\ Admitted(c)
    /\ marker' \in {marker, now + MarkerTtl}
    /\ scan' = [scan EXCEPT ![c] = NoScan]
    /\ Settle(c, "error")
    /\ Goto(c, "leaving")
    /\ Fault
    /\ QueueRest
    /\ UNCHANGED <<wake, emitted, tickets, ticket, queue, deadline, ahead, stamp, marked>>

\* RW_ACQUIRE_WRITE_LUA: the key's TTL starts when the script runs.
Drained(c) == Readers \subseteq Expired(Reader, stamp[c])
\* Mutation: only the readers are looked for.
WriterMayEnterOnceDrained(c) == Drained(c)
WriterMayEnter(c) == Drained(c) /\ ~WriterExists

WriteAcquire(c) ==
    /\ pc[c] = "asking" /\ WriterMayEnter(c)
    /\ SweepAndHold(Reader, stamp[c], c, now + Ttl)
    /\ stamp' = [stamp EXCEPT ![c] = 0]
    /\ wake' = [wake EXCEPT ![c] = 0]
    /\ Goto(c, "granted")
    /\ Works /\ UNCHANGED <<fences, timers, results, queueVars, marker, marked>>

WriteBlocked(c) ==
    /\ pc[c] = "asking" /\ ~WriterMayEnter(c)
    /\ Sweep(Reader, stamp[c])
    /\ stamp' = [stamp EXCEPT ![c] = 0]
    /\ PollAgain(c)
    /\ Goto(c, "polling")
    /\ Works /\ UNCHANGED <<fences, timers, results, queueVars, marker, marked>>

WriteFault(c) ==
    /\ pc[c] = "asking"
    /\ \/ UNCHANGED holds
       \/ WriterMayEnter(c) /\ SweepAndHold(Reader, stamp[c], c, now + Ttl)
       \/ ~WriterMayEnter(c) /\ Sweep(Reader, stamp[c])
    /\ stamp' = [stamp EXCEPT ![c] = 0]
    /\ Settle(c, "error")
    /\ Goto(c, "leaving")
    /\ Fault
    /\ UNCHANGED <<wake, fences, timers, emitted, queueVars, marker, marked>>

\* The end of the finally: DEL of the marker, whoever set it last.
Unmark(c) ==
    /\ pc[c] = "unmarking"
    /\ marker' = 0
    /\ Goto(c, "done")
    /\ Works /\ QueueRest /\ UNCHANGED <<wake, results, queueVars, stamp, marked>>

UnmarkFault(c) ==
    /\ pc[c] = "unmarking"
    /\ marker' \in {marker, 0}
    /\ Goto(c, "done")
    /\ Fault
    /\ QueueRest /\ UNCHANGED <<wake, results, queueVars, stamp, marked>>

-----------------------------------------------------------------------------
RWStep(c) ==
    \/ ReadStart(c) \/ ReadTimesOut(c) \/ ReadAsk(c)
    \/ ReadAcquire(c) \/ ReadBlocked(c) \/ ReadFault(c)
    \/ Mark(c) \/ MarkFault(c)
    \/ WriteAcquire(c) \/ WriteBlocked(c) \/ WriteFault(c)
    \/ Unmark(c) \/ UnmarkFault(c)
    \/ QueueStep(c) /\ UNCHANGED <<marker, stamp, marked>>
    \/ RuntimeStep(c) /\ UNCHANGED <<queueVars, marker, stamp, marked>>

Ready ==
    \E c \in Call :
        \/ RuntimeReady(c) \/ QueueReady(c) \/ Reading(c)
        \/ pc[c] \in {"readasking", "asking", "unmarking"}

Finished(c) == Settled(c) \/ (pc[c] = "idle" /\ now > LastArrival)
Terminated == (\A c \in Call : Finished(c)) /\ now = MaxTime /\ UNCHANGED rwVars

Init ==
    /\ RuntimeInit /\ QueueInit
    /\ marker = 0 /\ marked = {}
    /\ stamp = [c \in Call |-> 0]
Next ==
    \/ \E c \in Call : RWStep(c)
    \/ Tick(Ready) /\ UNCHANGED <<queueVars, marker, stamp, marked>>
    \/ Terminated

Spec == Init /\ [][Next]_rwVars

Advance(c) ==
    \/ ReadTimesOut(c) \/ ReadAsk(c) \/ ReadAcquire(c) \/ ReadBlocked(c)
    \/ Mark(c) \/ WriteAcquire(c) \/ WriteBlocked(c) \/ Unmark(c)
    \/ QueueAdvance(c) /\ UNCHANGED <<marker, stamp, marked>>
    \/ /\ \/ Begin(c) \/ IncrFence(c) \/ PexpireFence(c) \/ Release(c)
          \/ c \notin Hangs /\ CallbackEnds(c)
       /\ UNCHANGED <<queueVars, marker, stamp, marked>>
Fairness ==
    /\ \A c \in Call : WF_rwVars(Advance(c))
    /\ WF_rwVars(Tick(Ready) /\ UNCHANGED <<queueVars, marker, stamp, marked>>)
FairSpec == Spec /\ Fairness

-----------------------------------------------------------------------------
TypeOK ==
    /\ RuntimeType(RuntimePlace \cup QueuePlace
                       \cup {"asking", "reading", "readasking", "unmarking"})
    /\ QueueType
    /\ marker \in Nat /\ marked \subseteq Writer
    /\ stamp \in [Call -> Nat]

\* Readers together or one writer alone, whatever is swept, lost or late.
Abstract == INSTANCE Admission WITH
    Admits <- [c \in Call |-> {S \in SUBSET Call : S \subseteq Reader \/ Cardinality(S) = 1}],
    holders <- {c \in Call : Held(c)},
    closed <- {c \in Call : pc[c] \notin QueuePlace \cup {"idle", "asking", "reading", "readasking"}}
ImplementsAdmission == Abstract!Spec

\* A writer that has marked itself as next and still waits keeps every new
\* reader out (the marker, refreshed on every poll).
WriterBlocksNewReaders ==
    [][\A r \in Reader, w \in Writer :
        /\ w \in marked /\ pc[w] \in Waiting \cup {"asking"}
        /\ Date(w) < deadline[w]
        => ~(pc[r] = "readasking" /\ pc'[r] = "granted")]_rwVars

\* With a queueTimeout longer than a lock and a poll delay, a writer without rivals
\* is not refused before it has the lock: readers that keep coming cannot starve it.
WriterNotStarved ==
    \A w \in Writer : outcome[w] = "refused" => "acquired" \in emitted[w]
=============================================================================
