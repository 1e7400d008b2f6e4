----------------------------- MODULE TicketQueue -----------------------------
(***************************************************************************)
(* The FIFO ticket queue in front of the queued mutex, the semaphore and   *)
(* the write lock: a Redis counter (INCR), a sorted set of waiters scored  *)
(* by ticket, each carrying its own deadline, and the poll loop every      *)
(* waiter runs.  Each command is a step of its own.                        *)
(***************************************************************************)
EXTENDS RunWithLock

CONSTANTS
    QueueTimeout,  \* how long a call waits for its turn
    PollDelay,     \* Math.max(10, retryDelay)
    PollJitter,    \* retryJitter
    PageSize,      \* Math.max(10, limit), entries read at once
    Limit          \* Limit[c]: how many waiters c lets to the front: maxConcurrent, or 1

ASSUME QueueAssumption ==
    /\ QueueTimeout \in Nat /\ PollDelay \in Nat \ {0} /\ PollJitter \in Nat
    /\ PageSize \in Nat
    /\ Limit \in [Call -> Nat \ {0}] /\ \A c \in Call : PageSize >= Limit[c]

VARIABLES
    tickets,    \* the INCR counter
    ticket,     \* ticket[c], the score of c's entry, 0: none yet
    queue,      \* calls with an entry in the sorted set
    deadline,   \* the deadline in c's entry
    scan,       \* c's admittedSet in progress
    ahead       \* history: who was in the queue when c drew its ticket

queueVars == <<tickets, ticket, queue, deadline, scan, ahead>>
QueueRest == UNCHANGED <<holds, fences, timers>>

\* pushed: the length of live, which names an entry twice when an earlier one
\* came in between two pages.
NoScan == [at |-> 0, start |-> 0, page |-> {}, full |-> FALSE, live |-> {}, pushed |-> 0]

-----------------------------------------------------------------------------
(* The sorted set.                                                         *)

Rank(c, S) == Cardinality({d \in S : ticket[d] < ticket[c]})
Slice(S, from, size) == {c \in S : from <= Rank(c, S) /\ Rank(c, S) < from + size}

\* Mutation: an entry expires at its deadline, not after it.
StaleAtDeadline(s) == {e \in s.page : deadline[e] <= s.at}
Stale(s) == {e \in s.page : deadline[e] < s.at}

\* Mutation: the limit is not applied within a page.
FreshUnlimited(c, s) == {e \in s.page : \A x \in Stale(s) : ticket[e] < ticket[x]}

\* The entries a scan takes off its page without a command: those before the
\* first expired one, until the limit is reached.
Fresh(c, s) ==
    LET run == {e \in s.page : \A x \in Stale(s) : ticket[e] < ticket[x]}
    IN  Slice(run, 0, Limit[c] - s.pushed)
Sifted(c, s) == [s EXCEPT !.live = @ \cup Fresh(c, s), !.page = @ \ Fresh(c, s),
                          !.pushed = @ + Cardinality(Fresh(c, s))]

\* Where a sifted scan goes on.
Complete(c, s) ==
    \/ s.pushed >= Limit[c]
    \/ s.page = {} /\ ~s.full

Continue(c, s) ==
    \/ /\ Complete(c, s)
       /\ scan' = [scan EXCEPT ![c] = [NoScan EXCEPT !.live = s.live, !.pushed = s.pushed]]
       /\ Goto(c, "scanned")
    \/ /\ ~Complete(c, s) /\ s.page # {}
       /\ scan' = [scan EXCEPT ![c] = s]
       /\ Goto(c, "evicting")
    \/ /\ ~Complete(c, s) /\ s.page = {}
       /\ scan' = [scan EXCEPT ![c] = [s EXCEPT !.start = @ + PageSize]]
       /\ Goto(c, "scanning")

-----------------------------------------------------------------------------
(* Entering.                                                               *)

Join(c) ==
    /\ pc[c] = "idle" /\ now <= LastArrival /\ c \in Ticketed
    /\ deadline' = [deadline EXCEPT ![c] = Date(c) + QueueTimeout]
    /\ Goto(c, "joining")
    /\ Works /\ QueueRest /\ UNCHANGED <<wake, results, tickets, ticket, queue, scan, ahead>>

DrawTicket(c) ==
    /\ pc[c] = "joining"
    /\ tickets' = tickets + 1
    /\ ticket' = [ticket EXCEPT ![c] = tickets + 1]
    /\ ahead' = [ahead EXCEPT ![c] = queue]
    /\ Goto(c, "enqueuing")
    /\ Works /\ QueueRest /\ UNCHANGED <<wake, results, queue, deadline, scan>>

\* ZADD, then ZRANK, which only gives the position QUEUED reports.
Enqueue(c) ==
    /\ pc[c] = "enqueuing"
    /\ queue' = queue \cup {c}
    /\ Emit(c, {"queued"})
    /\ Goto(c, "polling")
    /\ Works /\ QueueRest /\ UNCHANGED <<wake, outcome, tickets, ticket, deadline, scan, ahead>>

\* The try begins after these commands and after the emit: a rejection or a
\* listener that throws leaves whatever entry was made.
EnterFault(c) ==
    /\ \/ pc[c] = "joining" /\ Fault /\ queue' = queue /\ UNCHANGED emitted
       \/ pc[c] = "enqueuing" /\ Fault /\ queue' \in {queue, queue \cup {c}} /\ UNCHANGED emitted
       \/ /\ pc[c] = "enqueuing" /\ "queued" \in ThrowsOn /\ Works
          /\ queue' = queue \cup {c} /\ Emit(c, {"queued"})
    /\ Settle(c, "error")
    /\ Goto(c, "done")
    /\ QueueRest /\ UNCHANGED <<wake, tickets, ticket, deadline, scan, ahead>>

-----------------------------------------------------------------------------
(* The poll loop and admittedSet.                                          *)

\* Mutation: the loop does not look at the deadline.
OutOfTimeIgnored(c) == FALSE
OutOfTime(c) == Date(c) >= deadline[c]

Polling(c) == pc[c] = "polling" /\ now >= wake[c]

PollTimesOut(c) ==
    /\ Polling(c) /\ OutOfTime(c)
    /\ Emit(c, {"failed"}) /\ Settle(c, "refused")
    /\ Goto(c, "leaving")
    /\ Works /\ QueueRest /\ UNCHANGED <<wake, queueVars>>

Poll(c) ==
    /\ Polling(c) /\ ~OutOfTime(c)
    /\ scan' = [scan EXCEPT ![c] = [NoScan EXCEPT !.at = Date(c)]]
    /\ Goto(c, "scanning")
    /\ Works /\ QueueRest
    /\ UNCHANGED <<wake, results, tickets, ticket, queue, deadline, ahead>>

FetchPage(c) ==
    LET page == Slice(queue, scan[c].start, PageSize)
    IN  /\ pc[c] = "scanning"
        /\ Continue(c, Sifted(c, [scan[c] EXCEPT !.page = page,
                                                 !.full = Cardinality(page) = PageSize]))
        /\ Works /\ QueueRest
        /\ UNCHANGED <<wake, results, tickets, ticket, queue, deadline, ahead>>

\* The expired entry the scan has come to.
Reached(c) == {e \in scan[c].page : \A d \in scan[c].page : ticket[e] <= ticket[d]}

\* Its ZREM, and on to the entries after it.
Evict(c) ==
    /\ pc[c] = "evicting"
    /\ \E e \in Reached(c) :
        /\ queue' = queue \ {e}
        /\ Continue(c, Sifted(c, [scan[c] EXCEPT !.page = @ \ {e}]))
    /\ Works /\ QueueRest
    /\ UNCHANGED <<wake, results, tickets, ticket, deadline, ahead>>

Admitted(c) == pc[c] = "scanned" /\ c \in scan[c].live

\* jitteredPollDelay: a random part below retryJitter.
PollAgain(c) ==
    \E jitter \in {j \in 0 .. PollJitter : j = 0 \/ j < PollJitter} :
        wake' = [wake EXCEPT ![c] = Later(PollDelay + jitter)]

\* Not our turn, or the attempt it gave us failed: wait for the next poll.
BackToPolling(c) ==
    /\ PollAgain(c)
    /\ scan' = [scan EXCEPT ![c] = NoScan]
    /\ Goto(c, "polling")

SleepOn(c) ==
    /\ pc[c] = "scanned" /\ c \notin scan[c].live /\ scan[c].live # {}
    /\ BackToPolling(c)
    /\ Works /\ QueueRest
    /\ UNCHANGED <<results, tickets, ticket, queue, deadline, ahead>>

\* Nobody is left, so c was swept as well: ZADD with the ticket it had.
ReEnter(c) ==
    /\ pc[c] = "scanned" /\ scan[c].live = {}
    /\ queue' = queue \cup {c}
    /\ BackToPolling(c)
    /\ Works /\ QueueRest
    /\ UNCHANGED <<results, tickets, ticket, deadline, ahead>>

\* A rejected command of the loop passes through finally as it is.
PollFault(c) ==
    /\ \/ pc[c] = "scanning" /\ queue' = queue
       \/ /\ pc[c] = "evicting"
          /\ \E e \in Reached(c) : queue' \in {queue, queue \ {e}}
       \/ /\ pc[c] = "scanned" /\ scan[c].live = {}
          /\ queue' \in {queue, queue \cup {c}}
    /\ scan' = [scan EXCEPT ![c] = NoScan]
    /\ Settle(c, "error")
    /\ Goto(c, "leaving")
    /\ Fault
    /\ QueueRest /\ UNCHANGED <<wake, emitted, tickets, ticket, deadline, ahead>>

-----------------------------------------------------------------------------
(* The outer finally: ZREM, whose rejection is only logged; a writer goes  *)
(* on to delete the writer-waiting marker, in the same try.                *)

Leave(c) ==
    /\ pc[c] = "leaving"
    /\ queue' = queue \ {c}
    /\ Goto(c, IF HandleOf[c] = "writer" THEN "unmarking" ELSE "done")
    /\ Works /\ QueueRest /\ UNCHANGED <<wake, results, tickets, ticket, deadline, scan, ahead>>

LeaveFault(c) ==
    /\ pc[c] = "leaving"
    /\ queue' \in {queue, queue \ {c}}
    /\ Goto(c, "done")
    /\ Fault
    /\ QueueRest /\ UNCHANGED <<wake, results, tickets, ticket, deadline, scan, ahead>>

QueueStep(c) ==
    \/ Join(c) \/ DrawTicket(c) \/ Enqueue(c) \/ EnterFault(c)
    \/ PollTimesOut(c) \/ Poll(c) \/ FetchPage(c) \/ Evict(c)
    \/ SleepOn(c) \/ ReEnter(c) \/ PollFault(c)
    \/ Leave(c) \/ LeaveFault(c)

\* What a waiter does when nothing fails.
QueueAdvance(c) ==
    \/ DrawTicket(c) \/ Enqueue(c)
    \/ PollTimesOut(c) \/ Poll(c) \/ FetchPage(c) \/ Evict(c)
    \/ SleepOn(c) \/ ReEnter(c) \/ Leave(c)

QueueReady(c) ==
    \/ pc[c] \in {"joining", "enqueuing", "scanning", "evicting", "scanned", "leaving"}
    \/ Polling(c)

QueueInit ==
    /\ tickets = 0 /\ queue = {}
    /\ ticket = [c \in Call |-> 0]
    /\ deadline = [c \in Call |-> 0]
    /\ scan = [c \in Call |-> NoScan]
    /\ ahead = [c \in Call |-> {}]

QueuePlace == {"joining", "enqueuing", "polling", "scanning", "evicting", "scanned"}
Waiting == {"polling", "scanning", "evicting", "scanned"}
TurnPlace == {"acquiring", "asking", "marking"}   \* where an admitted call goes

QueueType ==
    /\ tickets \in Nat /\ queue \subseteq Call
    /\ ticket \in [Call -> Nat] /\ deadline \in [Call -> Nat]
    /\ scan \in [Call -> [at : Nat, start : Nat, page : SUBSET Call,
                          full : BOOLEAN, live : SUBSET Call, pushed : Nat]]
    /\ ahead \in [Call -> SUBSET Call]
    /\ \A c \in Call : Cardinality(scan[c].live) <= scan[c].pushed /\ scan[c].pushed <= Limit[c]

-----------------------------------------------------------------------------
\* First come, first served: when a call gets its turn, fewer than its limit of
\* those that were in the queue when it drew its ticket are still there with
\* time left (the INCR order, kept by admittedSet).
FirstComeFirstServed ==
    [][\A c \in Call :
        pc[c] = "scanned" /\ pc'[c] \in TurnPlace
            => Cardinality({d \in ahead[c] \cap queue : deadline[d] >= Date(c)}) < Limit[c]
      ]_<<runtimeVars, queueVars>>

\* While its deadline has not passed, a waiting call is in the queue: nobody
\* sweeps it, and one that was swept with the others re-enters.
WaiterKeepsItsPlace ==
    \A c \in Ticketed :
        pc[c] \in Waiting /\ Date(c) <= deadline[c] => c \in queue

\* When the TTL of a dead holder has been over for two polls of everybody, no
\* waiter is kept out by its entry in the queue.
DeadHolderCoveredByTtl ==
    \A c, d \in Ticketed :
        /\ pc[d] = "crashed" /\ d \in queue /\ lease[d] # 0
        /\ pc[c] = "polling" /\ d \in ahead[c]
        => now < lease[d] + 2 * (PollDelay + PollJitter)
=============================================================================
