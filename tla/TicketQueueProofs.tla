-------------------------- MODULE TicketQueueProofs --------------------------
(* Lemmas for the modes that queue: what a step of the runtime, and a step  *)
(* of the ticket queue, does to a call, whichever mode it is part of.  P is *)
(* the set of places a call may be in, which the mode knows.                *)
EXTENDS TicketQueue, FiniteSetTheorems, WellFoundedInduction, TLAPS

\* The instants the model computes are natural numbers.
LEMMA QueueTimes ==
    ASSUME NEW P, RuntimeType(P)
    PROVE  /\ Period \in Nat
           /\ \A n \in Nat : Later(n) \in Nat
           /\ \A c \in Call : Date(c) \in Nat \ {0} /\ Keys[c] \in Label
           /\ \A l \in Label : NextNumber(l) \in Nat
<1>1. Ttl \div 2 \in Nat
  BY NumbersAssumption
<1> QED
  BY <1>1, SetsAssumption, NumbersAssumption
  DEF RuntimeType, Period, Later, Date, Label, NextNumber

\* A step of the runtime keeps the types of its variables.
LEMMA RuntimeTyped ==
    ASSUME NEW P, RuntimePlace \subseteq P, RuntimeType(P), NEW c \in Call, RuntimeStep(c)
    PROVE  RuntimeType(P)'
<1>0. /\ Period \in Nat
      /\ \A n \in Nat : Later(n) \in Nat
      /\ \A d \in Call : Date(d) \in Nat \ {0} /\ Keys[d] \in Label
      /\ \A l \in Label : NextNumber(l) \in Nat
  BY QueueTimes
<1> USE <1>0, NumbersAssumption
    DEF RuntimeType, RuntimePlace, Event, Outcome, clock, holds, fences, timers, results,
        Works, Fault, Goto, Exit, Emit, Settle, StopTimer
<1>1. CASE Begin(c)
  BY <1>1 DEF Begin
<1>2. CASE BeginThrows(c)
  BY <1>2 DEF BeginThrows
<1>3. CASE IncrFence(c)
  <2>1. Keys[c] \in Label /\ NextNumber(Keys[c]) \in Nat
    OBVIOUS
  <2>2. /\ fence' \in [Label -> Nat] /\ fenceExp' \in [Label -> Nat]
        /\ token' \in [Call -> Nat] /\ timely' \in [Call -> BOOLEAN]
    BY <1>3, <2>1 DEF IncrFence, IssueToken, Increment, Held
  <2> QED
    BY <1>3, <2>2 DEF IncrFence
<1>4. CASE PexpireFence(c)
  BY <1>4 DEF PexpireFence, Refresh
<1>5. CASE FenceFault(c)
  BY <1>5 DEF FenceFault, TokenLost, Increment, Refresh
<1>6. CASE CallbackEnds(c)
  BY <1>6 DEF CallbackEnds
<1>7. CASE Release(c)
  BY <1>7 DEF Release
<1>8. CASE ReleaseFault(c)
  BY <1>8 DEF ReleaseFault
<1>9. CASE ExtendFire(c)
  BY <1>9 DEF ExtendFire
<1>10. CASE ExtendLands(c)
  <2>1. lease' \in [Call -> Nat] /\ sent' \in [Call -> Nat]
    BY <1>10 DEF ExtendLands, ExtendInFlight, Extended
  <2>2. /\ due' \in [Call -> Nat] /\ aborted' \in [Call -> BOOLEAN]
        /\ emitted' \in [Call -> SUBSET Event]
    <3>1. CASE Emit(c, {"extended"}) /\ UNCHANGED <<due, aborted>>
      BY <3>1
    <3>2. CASE ExtensionLost(c, {"extended", "extend_failed"})
      BY <3>2 DEF ExtensionLost
    <3> QED
      BY <1>10, <3>1, <3>2 DEF ExtendLands
  <2> QED
    BY <1>10, <2>1, <2>2 DEF ExtendLands
<1>11. CASE ExtendRefused(c)
  BY <1>11 DEF ExtendRefused, ExtendInFlight, ExtensionLost
<1>12. CASE ExtendFault(c)
  BY <1>12 DEF ExtendFault, ExtendInFlight, Extended, ExtensionLost
<1>13. CASE Crash(c)
  BY <1>13 DEF Crash
<1> QED
  BY <1>1, <1>2, <1>3, <1>4, <1>5, <1>6, <1>7, <1>8, <1>9, <1>10, <1>11, <1>12, <1>13
  DEF RuntimeStep

\* Time passes without changing anything else.
LEMMA TickTyped ==
    ASSUME NEW P, RuntimeType(P), NEW ready, Tick(ready)
    PROVE  RuntimeType(P)'
  BY DEF Tick, RuntimeType, holds, fences, timers, results

\* What the runtime does to the locks: an extension renews one that is held,
\* a release drops one.
LeaseRenewed(c) ==
    /\ Held(c) /\ sent[c] # 0
    /\ lease' = [lease EXCEPT ![c] =
                    IF HandleOf[c] = "zset" THEN sent[c] + Ttl ELSE now + Ttl]
LeaseDropped(c) == pc[c] = "releasing" /\ lease' = [lease EXCEPT ![c] = 0]

\* The runtime only renews or drops leases; it grants none.
LEMMA RuntimeLeases ==
    ASSUME NEW P, RuntimeType(P), NEW c \in Call, RuntimeStep(c)
    PROVE  /\ now' = now
           /\ lease' = lease \/ LeaseRenewed(c) \/ LeaseDropped(c)
<1> USE DEF RuntimeType, clock, holds, timers, Works, Fault
<1>1. CASE Begin(c) \/ BeginThrows(c) \/ IncrFence(c) \/ PexpireFence(c) \/ FenceFault(c)
  BY <1>1 DEF Begin, BeginThrows, IncrFence, PexpireFence, FenceFault, TokenLost
<1>2. CASE CallbackEnds(c) \/ ExtendFire(c) \/ ExtendRefused(c) \/ Crash(c)
  BY <1>2 DEF CallbackEnds, ExtendFire, ExtendRefused, Crash
<1>3. CASE Release(c) \/ ReleaseFault(c)
  BY <1>3 DEF Release, ReleaseFault, LeaseDropped
<1>4. CASE ExtendLands(c) \/ ExtendFault(c)
  BY <1>4 DEF ExtendLands, ExtendFault, ExtendInFlight, Renewable, Extended, LeaseRenewed
<1> QED
  BY <1>1, <1>2, <1>3, <1>4 DEF RuntimeStep

\* What the runtime does to the places: a call that runs never queues again.
AfterGrant == {"fencing", "pexpire", "callback", "releasing", "leaving", "done", "crashed"}

\* A call that the runtime moves is past its admission.
LEMMA RuntimePlaces ==
    ASSUME NEW P, RuntimeType(P), NEW c \in Call, RuntimeStep(c)
    PROVE  \A d \in Call : pc'[d] = pc[d] \/ pc'[d] \in AfterGrant
<1> USE DEF RuntimeType, AfterGrant, Goto, Exit
<1>1. CASE Begin(c) \/ BeginThrows(c) \/ IncrFence(c) \/ PexpireFence(c) \/ FenceFault(c)
  BY <1>1 DEF Begin, BeginThrows, IncrFence, PexpireFence, FenceFault
<1>2. CASE CallbackEnds(c) \/ Release(c) \/ ReleaseFault(c) \/ Crash(c)
  BY <1>2 DEF CallbackEnds, Release, ReleaseFault, Crash
<1>3. CASE ExtendFire(c) \/ ExtendLands(c) \/ ExtendRefused(c) \/ ExtendFault(c)
  BY <1>3 DEF ExtendFire, ExtendLands, ExtendRefused, ExtendFault
<1> QED
  BY <1>1, <1>2, <1>3 DEF RuntimeStep

-----------------------------------------------------------------------------
(* The ticket queue: tickets are distinct, and everything is finite.       *)

ScanType == [at : Nat, start : Nat, page : SUBSET Call, full : BOOLEAN, live : SUBSET Call,
             pushed : Nat]

QueueFinite ==
    /\ IsFiniteSet(queue)
    /\ \A c \in Call : IsFiniteSet(scan[c].page) /\ IsFiniteSet(scan[c].live)

\* A call has its ticket from the INCR on, and keeps it.
InLine == Waiting \cup TurnPlace
Entered == {"enqueuing"} \cup InLine
HasEntry(c) == c \in queue \/ \E d \in Call : c \in scan[d].page

TicketsDrawn ==
    /\ \A c \in Call : ticket[c] <= tickets
    /\ \A c, d \in Call : ticket[c] = ticket[d] /\ ticket[c] # 0 => c = d
    /\ \A c \in Call :
        /\ HasEntry(c) \/ (c \in Ticketed /\ pc[c] \in Entered) => ticket[c] # 0
        /\ pc[c] \in {"idle", "joining"} => ticket[c] = 0
        /\ pc[c] \in QueuePlace => c \in Ticketed

QueueInv == QueueType /\ QueueFinite /\ TicketsDrawn

Distinct(S) == \A d, e \in S : ticket[d] = ticket[e] => d = e

\* The first n entries of a set are at most n.
LEMMA SliceBound ==
    ASSUME NEW S \in SUBSET Call, IsFiniteSet(S), Distinct(S),
           ticket \in [Call -> Nat], NEW n \in Nat
    PROVE  IsFiniteSet(Slice(S, 0, n)) /\ Cardinality(Slice(S, 0, n)) <= n
<1> DEFINE Before(c) == {d \in S : ticket[d] < ticket[c]}
           T == Slice(S, 0, n)
           rank == [c \in T |-> Rank(c, S)]
<1>1. \A c \in S : IsFiniteSet(Before(c)) /\ Cardinality(Before(c)) \in Nat
  BY FS_Subset, FS_CardinalityType
<1>2. rank \in [T -> 0 .. n - 1]
  <2>1. ASSUME NEW c \in T PROVE Rank(c, S) \in 0 .. n - 1
    <3>1. Rank(c, S) \in Nat
      BY <1>1 DEF Slice, Rank
    <3>2. Rank(c, S) < n
      BY DEF Slice
    <3> QED
      BY <3>1, <3>2
  <2> QED
    BY <2>1
<1>3. ASSUME NEW c \in T, NEW d \in T, rank[c] = rank[d], ticket[c] < ticket[d] PROVE FALSE
  <2>1. Before(c) \subseteq Before(d) /\ c \in Before(d) /\ c \notin Before(c)
    BY <1>3 DEF Slice
  <2>2. Cardinality(Before(c)) = Cardinality(Before(d))
    BY <1>3 DEF Rank
  <2>3. IsFiniteSet(Before(d)) /\ Before(c) \in SUBSET Before(d)
    BY <1>1, <2>1 DEF Slice
  <2> HIDE DEF Before
  <2> QED
    BY <2>1, <2>2, <2>3, FS_Subset
<1>4. rank \in Injection(T, 0 .. n - 1)
  <2>1. ASSUME NEW c \in T, NEW d \in T, rank[c] = rank[d] PROVE c = d
    <3>1. c \in S /\ d \in S /\ ticket[c] \in Nat /\ ticket[d] \in Nat
      BY DEF Slice
    <3>2. ~(ticket[c] < ticket[d]) /\ ~(ticket[d] < ticket[c])
      BY <1>3, <2>1
    <3> QED
      BY <3>1, <3>2 DEF Distinct
  <2> QED
    BY <1>2, <2>1 DEF Injection, IsInjective
<1>5. IsFiniteSet(0 .. n - 1) /\ Cardinality(0 .. n - 1) = n
  BY FS_Interval
<1> QED
  BY <1>4, <1>5, FS_Injection

\* Taking fresh entries off a page keeps the scan a scan, within the limit.
LEMMA SiftedScan ==
    ASSUME NEW c \in Call, NEW s \in ScanType, ticket \in [Call -> Nat],
           IsFiniteSet(s.page), IsFiniteSet(s.live), Distinct(s.page),
           Cardinality(s.live) <= s.pushed, s.pushed <= Limit[c]
    PROVE  /\ Sifted(c, s) \in ScanType
           /\ Sifted(c, s).at = s.at
           /\ Sifted(c, s).page \subseteq s.page
           /\ Sifted(c, s).live \subseteq s.live \cup s.page
           /\ IsFiniteSet(Sifted(c, s).page) /\ IsFiniteSet(Sifted(c, s).live)
           /\ Cardinality(Sifted(c, s).live) <= Sifted(c, s).pushed
           /\ Sifted(c, s).pushed <= Limit[c]
<1> DEFINE run == {e \in s.page : \A x \in Stale(s) : ticket[e] < ticket[x]}
           n == Limit[c] - s.pushed
           F == Fresh(c, s)
<1>1. n \in Nat /\ s.pushed \in Nat /\ Limit[c] \in Nat
  BY QueueAssumption DEF ScanType
<1>2. F = Slice(run, 0, n) /\ F \subseteq s.page
  BY DEF Fresh, Slice
<1>3. run \in SUBSET Call /\ IsFiniteSet(run) /\ Distinct(run)
  BY FS_Subset DEF ScanType, Distinct
<1>4. IsFiniteSet(F) /\ Cardinality(F) \in Nat /\ Cardinality(F) <= n
  BY <1>1, <1>2, <1>3, SliceBound, FS_CardinalityType
<1>5. /\ IsFiniteSet(s.live \cup F) /\ IsFiniteSet(s.page \ F)
      /\ Cardinality(s.live \cup F) <= s.pushed + Cardinality(F)
  <2>1. /\ IsFiniteSet(s.live \cup F)
        /\ Cardinality(s.live \cup F)
             = Cardinality(s.live) + Cardinality(F) - Cardinality(s.live \cap F)
    BY <1>4, FS_Union
  <2>2. Cardinality(s.live) \in Nat /\ Cardinality(s.live \cap F) \in Nat
    BY FS_CardinalityType, FS_Intersection
  <2>3. IsFiniteSet(s.page \ F)
    BY FS_Difference
  <2> QED
    BY <1>1, <1>4, <2>1, <2>2, <2>3
<1>6. /\ Sifted(c, s).page = s.page \ F /\ Sifted(c, s).live = s.live \cup F
      /\ Sifted(c, s).pushed = s.pushed + Cardinality(F) /\ Sifted(c, s).at = s.at
      /\ Sifted(c, s) \in ScanType
  <2>1. Sifted(c, s) = [s EXCEPT !.live = s.live \cup F, !.page = s.page \ F,
                                 !.pushed = s.pushed + Cardinality(F)]
    BY DEF Sifted
  <2>2. /\ s.live \cup F \in SUBSET Call /\ s.page \ F \in SUBSET Call
        /\ s.pushed + Cardinality(F) \in Nat
    BY <1>1, <1>2, <1>4 DEF ScanType
  <2> HIDE DEF F
  <2> QED
    BY <2>1, <2>2 DEF ScanType
<1> QED
  BY <1>1, <1>2, <1>4, <1>5, <1>6

\* Among calls there is one whose ticket is the least.
LEMMA LeastTicket ==
    ASSUME NEW S \in SUBSET Call, S # {}, ticket \in [Call -> Nat]
    PROVE  \E e \in S : \A d \in S : ticket[e] <= ticket[d]
<1> DEFINE T == {ticket[e] : e \in S}
<1>1. T \subseteq Nat /\ T # {}
  OBVIOUS
<1>2. PICK t \in T : \A u \in T : ~(<<u, t>> \in OpToRel(<, Nat))
  BY <1>1, WFMin, NatLessThanWellFounded
<1>3. \A u \in T : ~(u < t)
  BY <1>1, <1>2 DEF OpToRel
<1>4. PICK e \in S : ticket[e] = t
  BY <1>2
<1> QED
  BY <1>3, <1>4

\* A scan that has not reached its limit has taken the fresh entries in front:
\* the first that is left has expired.
LEMMA SiftedStops ==
    ASSUME NEW c \in Call, NEW s \in ScanType, ticket \in [Call -> Nat],
           IsFiniteSet(s.page), Distinct(s.page),
           s.pushed <= Limit[c], Sifted(c, s).pushed < Limit[c],
           NEW e \in Sifted(c, s).page,
           \A d \in Sifted(c, s).page : ticket[e] <= ticket[d]
    PROVE  deadline[e] < s.at
<1> DEFINE run == {d \in s.page : \A x \in Stale(s) : ticket[d] < ticket[x]}
           n == Limit[c] - s.pushed
           F == Fresh(c, s)
<1>1. n \in Nat /\ s.pushed \in Nat /\ Limit[c] \in Nat
  BY QueueAssumption DEF ScanType
<1>2. F = Slice(run, 0, n) /\ F \subseteq run
  BY DEF Fresh, Slice
<1>3. run \in SUBSET Call /\ IsFiniteSet(run) /\ IsFiniteSet(F) /\ Cardinality(F) \in Nat
  BY <1>2, FS_Subset, FS_CardinalityType DEF ScanType
<1>4. Sifted(c, s).page = s.page \ F /\ Sifted(c, s).pushed = s.pushed + Cardinality(F)
  BY DEF Sifted, ScanType
<1>5. Cardinality(F) < n
  BY <1>1, <1>3, <1>4
<1>6. run \subseteq F
  <2> SUFFICES ASSUME run \ F # {} PROVE FALSE
    OBVIOUS
  <2>1. PICK x \in run \ F : \A d \in run \ F : ticket[x] <= ticket[d]
    BY <1>3, LeastTicket
  <2> DEFINE B == {d \in run : ticket[d] < ticket[x]}
  <2>2. B \subseteq F
    BY <1>3, <2>1
  <2>3. Cardinality(B) \in Nat /\ Cardinality(B) <= Cardinality(F)
    BY <1>3, <2>2, FS_Subset, FS_CardinalityType
  <2>4. ~(Cardinality(B) < n)
    BY <1>1, <1>2, <2>1, <2>3 DEF Slice, Rank
  <2> QED
    BY <1>1, <1>3, <1>5, <2>3, <2>4
<1>7. e \in s.page /\ e \notin run
  BY <1>4, <1>6
<1>8. PICK x \in Stale(s) : ~(ticket[e] < ticket[x])
  BY <1>7
<1>9. x \in s.page \ F
  <2>1. x \in s.page /\ ticket[x] \in Nat
    BY <1>8 DEF Stale, ScanType
  <2>2. x \notin run
    BY <1>8, <2>1
  <2> QED
    BY <1>2, <2>1, <2>2
<1>10. e = x
  <2>1. ticket[e] <= ticket[x] /\ ticket[e] \in Nat /\ ticket[x] \in Nat
    BY <1>4, <1>7, <1>9 DEF ScanType
  <2> QED
    BY <1>7, <1>8, <1>9, <2>1 DEF Distinct
<1> QED
  BY <1>8, <1>10 DEF Stale

\* Where a scan goes on, and with what.
LEMMA ContinueScan ==
    ASSUME NEW P, pc \in [Call -> P], scan \in [Call -> ScanType],
           NEW c \in Call, NEW s \in ScanType, Continue(c, s)
    PROVE  /\ scan' \in [Call -> ScanType]
           /\ \A d \in Call \ {c} : scan'[d] = scan[d] /\ pc'[d] = pc[d]
           /\ pc'[c] \in {"scanned", "evicting", "scanning"}
           /\ pc' = [pc EXCEPT ![c] = pc'[c]]
           /\ scan'[c].live = s.live /\ scan'[c].pushed = s.pushed
           /\ scan'[c].page \in {s.page, {}}
           /\ scan'[c].at \in {0, s.at}
           /\ pc'[c] = "evicting" => scan'[c] = s /\ ~Complete(c, s)
<1> DEFINE rest == [NoScan EXCEPT !.live = s.live, !.pushed = s.pushed]
           further == [s EXCEPT !.start = @ + PageSize]
<1>1. /\ rest \in ScanType
      /\ rest.live = s.live /\ rest.pushed = s.pushed /\ rest.page = {} /\ rest.at = 0
  BY DEF ScanType, NoScan
<1>2. /\ further \in ScanType
      /\ further.live = s.live /\ further.pushed = s.pushed
      /\ further.page = s.page /\ further.at = s.at
  BY QueueAssumption DEF ScanType
<1>3. CASE scan' = [scan EXCEPT ![c] = rest] /\ Goto(c, "scanned")
  BY <1>1, <1>3 DEF Goto
<1>4. CASE ~Complete(c, s) /\ scan' = [scan EXCEPT ![c] = s] /\ Goto(c, "evicting")
  BY <1>4 DEF Goto
<1>5. CASE scan' = [scan EXCEPT ![c] = further] /\ Goto(c, "scanning")
  BY <1>2, <1>5 DEF Goto
<1> QED
  BY <1>3, <1>4, <1>5 DEF Continue

-----------------------------------------------------------------------------
(* The steps of the queue.                                                 *)

ScanOK(c, s) ==
    /\ s \in ScanType
    /\ IsFiniteSet(s.page) /\ IsFiniteSet(s.live)
    /\ Cardinality(s.live) <= s.pushed /\ s.pushed <= Limit[c]

QueueMove(c) ==
    /\ \A d \in Call \ {c} : pc'[d] = pc[d] /\ ticket'[d] = ticket[d] /\ deadline'[d] = deadline[d]
    /\ \/ /\ tickets' = tickets /\ ticket' = ticket
          /\ pc'[c] \in {"idle", "joining"} => pc[c] = "idle"
          /\ pc'[c] \in Entered => pc[c] \in Entered
       \/ /\ pc[c] = "joining" /\ pc'[c] = "enqueuing"
          /\ tickets' = tickets + 1 /\ ticket'[c] = tickets + 1
    /\ queue' \subseteq queue \cup {c}
    /\ c \in queue' \ queue => pc[c] \in Entered
    /\ pc'[c] \in QueuePlace => c \in Ticketed
    /\ pc[c] # "idle" => deadline' = deadline

\* A step of the queue moves one call on, and adds no entry but its own.
LEMMA QueueMoves ==
    ASSUME NEW P, RuntimeType(P), QueueInv, NEW c \in Call, QueueStep(c)
    PROVE  QueueMove(c)
<1>0. /\ pc \in [Call -> P] /\ ticket \in [Call -> Nat] /\ deadline \in [Call -> Nat]
      /\ tickets \in Nat /\ (pc[c] \in QueuePlace => c \in Ticketed)
  BY DEF RuntimeType, QueueInv, QueueType, TicketsDrawn
<1> USE <1>0 DEF QueueMove, Goto, Entered, InLine, Waiting, TurnPlace, QueuePlace, queueVars
<1>1. CASE Join(c)
  BY <1>1 DEF Join
<1>2. CASE DrawTicket(c)
  BY <1>2 DEF DrawTicket
<1>3. CASE Enqueue(c) \/ EnterFault(c)
  BY <1>3 DEF Enqueue, EnterFault
<1>4. CASE PollTimesOut(c) \/ Poll(c)
  BY <1>4 DEF PollTimesOut, Poll, Polling
<1>5. CASE FetchPage(c)
  <2>1. /\ pc[c] = "scanning" /\ UNCHANGED <<tickets, ticket, queue, deadline>>
        /\ \E p \in {"scanned", "evicting", "scanning"} : pc' = [pc EXCEPT ![c] = p]
    BY <1>5 DEF FetchPage, Continue
  <2> QED
    BY <2>1
<1>6. CASE Evict(c)
  <2>1. /\ pc[c] = "evicting" /\ UNCHANGED <<tickets, ticket, deadline>> /\ queue' \subseteq queue
        /\ \E p \in {"scanned", "evicting", "scanning"} : pc' = [pc EXCEPT ![c] = p]
    BY <1>6 DEF Evict, Continue
  <2> QED
    BY <2>1
<1>7. CASE SleepOn(c) \/ ReEnter(c)
  BY <1>7 DEF SleepOn, ReEnter, BackToPolling
<1>8. CASE PollFault(c)
  <2>1. queue' \subseteq queue \cup {c} /\ (c \in queue' \ queue => pc[c] = "scanned")
    BY <1>8 DEF PollFault
  <2> QED
    BY <1>8, <2>1 DEF PollFault
<1>9. CASE Leave(c) \/ LeaveFault(c)
  BY <1>9 DEF Leave, LeaveFault
<1> QED
  BY <1>1, <1>2, <1>3, <1>4, <1>5, <1>6, <1>7, <1>8, <1>9 DEF QueueStep

QueueScan(c) ==
    /\ scan' \in [Call -> ScanType]
    /\ \A d \in Call \ {c} : scan'[d] = scan[d]
    /\ ScanOK(c, scan'[c])
    /\ scan'[c].page \subseteq queue \cup scan[c].page

\* A scan that has read nothing is well formed.
LEMMA EmptyScan ==
    \A c \in Call, t \in Nat :
        /\ ScanOK(c, NoScan) /\ NoScan.page = {}
        /\ ScanOK(c, [NoScan EXCEPT !.at = t]) /\ [NoScan EXCEPT !.at = t].page = {}
<1> TAKE c \in Call, t \in Nat
<1> DEFINE s == [NoScan EXCEPT !.at = t]
<1>1. /\ NoScan \in ScanType /\ NoScan.page = {} /\ NoScan.live = {} /\ NoScan.pushed = 0
      /\ s \in ScanType /\ s.page = {} /\ s.live = {} /\ s.pushed = 0
  BY DEF ScanType, NoScan
<1>2. IsFiniteSet({}) /\ Cardinality({}) = 0 /\ Limit[c] \in Nat
  BY FS_EmptySet, QueueAssumption
<1> HIDE DEF s
<1>3. ScanOK(c, NoScan) /\ ScanOK(c, s)
  BY <1>1, <1>2 DEF ScanOK
<1> QED
  BY <1>1, <1>3 DEF s

\* A step of the queue keeps every scan within its limit.
LEMMA QueueScans ==
    ASSUME NEW P, RuntimeType(P), QueueInv, NEW c \in Call, QueueStep(c)
    PROVE  QueueScan(c)
<1>0. /\ pc \in [Call -> P] /\ ticket \in [Call -> Nat] /\ queue \subseteq Call
      /\ scan \in [Call -> ScanType]
      /\ IsFiniteSet(queue) /\ \A d \in Call : ScanOK(d, scan[d])
      /\ Distinct(queue) /\ Distinct(scan[c].page)
  BY DEF RuntimeType, QueueInv, QueueType, QueueFinite, TicketsDrawn, HasEntry, ScanType, ScanOK, Distinct
<1>1. CASE scan' = scan
  BY <1>0, <1>1 DEF QueueScan
<1>2. CASE scan' = [scan EXCEPT ![c] = NoScan]
  BY <1>0, <1>2, EmptyScan DEF QueueScan, ScanOK
<1>3. CASE scan' = [scan EXCEPT ![c] = [NoScan EXCEPT !.at = Date(c)]]
  <2>1. Date(c) \in Nat
    BY QueueTimes
  <2> QED
    BY <1>0, <1>3, <2>1, EmptyScan DEF QueueScan, ScanOK
<1>4. ASSUME NEW s \in ScanType, IsFiniteSet(s.page), s.page \subseteq queue \cup scan[c].page,
             Distinct(s.page), s.live = scan[c].live, s.pushed = scan[c].pushed,
             Continue(c, Sifted(c, s))
      PROVE  QueueScan(c)
  <2>1. /\ ScanOK(c, Sifted(c, s)) /\ Sifted(c, s) \in ScanType
        /\ Sifted(c, s).page \subseteq s.page
    BY <1>0, <1>4, SiftedScan DEF ScanOK
  <2>2. /\ scan' \in [Call -> ScanType] /\ \A d \in Call \ {c} : scan'[d] = scan[d]
        /\ scan'[c].live = Sifted(c, s).live /\ scan'[c].pushed = Sifted(c, s).pushed
        /\ scan'[c].page \in {Sifted(c, s).page, {}}
    BY <1>0, <1>4, <2>1, ContinueScan
  <2> QED
    BY <1>4, <2>1, <2>2, FS_EmptySet DEF QueueScan, ScanOK
<1>5. CASE FetchPage(c)
  <2> DEFINE page == Slice(queue, scan[c].start, PageSize)
             s == [scan[c] EXCEPT !.page = page, !.full = Cardinality(page) = PageSize]
  <2>1. page \subseteq queue /\ IsFiniteSet(page) /\ Distinct(page)
    BY <1>0, FS_Subset DEF Slice, Distinct
  <2>2. Continue(c, Sifted(c, s))
    BY <1>5 DEF FetchPage
  <2> HIDE DEF page
  <2>3. /\ s \in ScanType /\ s.page = page
        /\ s.live = scan[c].live /\ s.pushed = scan[c].pushed
    <3>1. scan[c] \in ScanType /\ page \in SUBSET Call /\ (Cardinality(page) = PageSize) \in BOOLEAN
      BY <1>0, <2>1
    <3> QED
      BY <3>1 DEF ScanType
  <2> HIDE DEF s
  <2> QED
    BY <1>4, <2>1, <2>2, <2>3
<1>6. CASE Evict(c)
  <2>1. PICK e \in Reached(c) : Continue(c, Sifted(c, [scan[c] EXCEPT !.page = @ \ {e}]))
    BY <1>6 DEF Evict
  <2> DEFINE page == scan[c].page \ {e}
             s == [scan[c] EXCEPT !.page = page]
  <2>2. page \subseteq scan[c].page /\ IsFiniteSet(page) /\ Distinct(page)
    BY <1>0, FS_Difference DEF ScanOK, Distinct
  <2>3. Continue(c, Sifted(c, s))
    BY <2>1
  <2> HIDE DEF page
  <2>4. /\ s \in ScanType /\ s.page = page
        /\ s.live = scan[c].live /\ s.pushed = scan[c].pushed
    <3>1. scan[c] \in ScanType /\ page \in SUBSET Call
      BY <1>0, <2>2 DEF ScanType
    <3> QED
      BY <3>1 DEF ScanType
  <2> HIDE DEF s
  <2> QED
    BY <1>4, <2>2, <2>3, <2>4
<1>7. CASE Join(c) \/ DrawTicket(c) \/ Enqueue(c) \/ EnterFault(c) \/ PollTimesOut(c)
  BY <1>1, <1>7 DEF Join, DrawTicket, Enqueue, EnterFault, PollTimesOut, queueVars
<1>8. CASE Poll(c)
  BY <1>3, <1>8 DEF Poll
<1>9. CASE SleepOn(c) \/ ReEnter(c) \/ PollFault(c) \/ Leave(c) \/ LeaveFault(c)
  BY <1>1, <1>2, <1>9 DEF SleepOn, ReEnter, BackToPolling, PollFault, Leave, LeaveFault
<1> QED
  BY <1>5, <1>6, <1>7, <1>8, <1>9 DEF QueueStep

\* A step of the queue leaves the locks, and the clock, alone.
LEMMA QueueLeases ==
    ASSUME NEW c \in Call, QueueStep(c)
    PROVE  now' = now /\ UNCHANGED <<holds, fences, timers>>
<1> USE DEF clock, Works, Fault, QueueRest
<1>1. CASE Join(c) \/ DrawTicket(c) \/ Enqueue(c) \/ EnterFault(c)
  BY <1>1 DEF Join, DrawTicket, Enqueue, EnterFault
<1>2. CASE PollTimesOut(c) \/ Poll(c) \/ FetchPage(c) \/ Evict(c)
  BY <1>2 DEF PollTimesOut, Poll, FetchPage, Evict
<1>3. CASE SleepOn(c) \/ ReEnter(c) \/ PollFault(c) \/ Leave(c) \/ LeaveFault(c)
  BY <1>3 DEF SleepOn, ReEnter, PollFault, Leave, LeaveFault
<1> QED
  BY <1>1, <1>2, <1>3 DEF QueueStep

\* Only a call that queues, or leaves the queue, is moved by the queue.
QueueGoes(c) ==
    \/ pc[c] \in {"idle"} \cup QueuePlace /\ pc'[c] \in QueuePlace \cup {"leaving", "done"}
    \/ pc[c] = "leaving" /\ pc'[c] = "done"
    \/ pc[c] = "leaving" /\ pc'[c] = "unmarking" /\ HandleOf[c] = "writer"

\* A step of the queue moves its own call only, within the queue or out of it.
LEMMA QueuePlaces ==
    ASSUME NEW P, RuntimeType(P), NEW c \in Call, QueueStep(c)
    PROVE  QueueGoes(c) /\ pc' = [pc EXCEPT ![c] = pc'[c]]
<1> USE DEF RuntimeType, QueueGoes, QueuePlace, Goto
<1>1. CASE Join(c) \/ DrawTicket(c) \/ Enqueue(c) \/ EnterFault(c)
  BY <1>1 DEF Join, DrawTicket, Enqueue, EnterFault
<1>2. CASE PollTimesOut(c) \/ Poll(c)
  BY <1>2 DEF PollTimesOut, Poll, Polling
<1>3. CASE FetchPage(c) \/ Evict(c)
  <2>1. /\ pc[c] \in {"scanning", "evicting"}
        /\ \E p \in {"scanned", "evicting", "scanning"} : pc' = [pc EXCEPT ![c] = p]
    BY <1>3 DEF FetchPage, Evict, Continue
  <2> QED
    BY <2>1
<1>4. CASE SleepOn(c) \/ ReEnter(c) \/ PollFault(c)
  BY <1>4 DEF SleepOn, ReEnter, BackToPolling, PollFault
<1>5. CASE Leave(c) \/ LeaveFault(c)
  BY <1>5 DEF Leave, LeaveFault
<1> QED
  BY <1>1, <1>2, <1>3, <1>4, <1>5 DEF QueueStep

\* A step of the queue keeps the types of the runtime's variables.
LEMMA QueueRuntimeTyped ==
    ASSUME NEW P, QueuePlace \cup {"leaving", "done"} \subseteq P, RuntimeType(P),
           NEW c \in Call, HandleOf[c] = "writer" => "unmarking" \in P, QueueStep(c)
    PROVE  RuntimeType(P)'
<1>1. pc' \in [Call -> P]
  <2>1. QueueGoes(c) /\ pc' = [pc EXCEPT ![c] = pc'[c]]
    BY QueuePlaces
  <2>2. pc \in [Call -> P] /\ pc'[c] \in P
    BY <2>1 DEF RuntimeType, QueueGoes
  <2> QED
    BY <2>1, <2>2
<1>2. now' = now /\ UNCHANGED <<holds, fences, timers>>
  BY QueueLeases
<1>3. /\ faults' \in Nat /\ wake' \in [Call -> Nat]
      /\ emitted' \in [Call -> SUBSET Event] /\ outcome' \in [Call -> Outcome]
  <2>0. \A n \in Nat : Later(n) \in Nat
    BY QueueTimes
  <2> USE <2>0, QueueAssumption
      DEF RuntimeType, clock, results, Works, Fault, Emit, Settle, Event, Outcome, queueVars
  <2>1. CASE Join(c) \/ DrawTicket(c) \/ Enqueue(c) \/ EnterFault(c)
    BY <2>1 DEF Join, DrawTicket, Enqueue, EnterFault
  <2>2. CASE PollTimesOut(c) \/ Poll(c) \/ FetchPage(c) \/ Evict(c)
    BY <2>2 DEF PollTimesOut, Poll, FetchPage, Evict
  <2>3. CASE SleepOn(c) \/ ReEnter(c)
    BY <2>3 DEF SleepOn, ReEnter, BackToPolling, PollAgain
  <2>4. CASE PollFault(c) \/ Leave(c) \/ LeaveFault(c)
    BY <2>4 DEF PollFault, Leave, LeaveFault
  <2> QED
    BY <2>1, <2>2, <2>3, <2>4 DEF QueueStep
<1> QED
  BY <1>1, <1>2, <1>3 DEF RuntimeType, holds, fences, timers

\* The queue starts empty.
LEMMA QueueStarts ==
    RuntimeInit /\ QueueInit => QueueInv
<1> SUFFICES ASSUME RuntimeInit, QueueInit PROVE QueueInv
  OBVIOUS
<1>1. \A c \in Call : pc[c] = "idle" /\ ticket[c] = 0 /\ scan[c] = NoScan /\ ScanOK(c, NoScan)
  BY EmptyScan DEF RuntimeInit, QueueInit
<1>2. QueueType
  BY <1>1 DEF QueueInit, QueueType, ScanOK, ScanType
<1>3. QueueFinite
  BY <1>1, FS_EmptySet DEF QueueInit, QueueFinite, ScanOK
<1>4. \A c \in Call : ~HasEntry(c)
  BY <1>1 DEF QueueInit, HasEntry, NoScan
<1>5. TicketsDrawn
  BY <1>1, <1>4 DEF QueueInit, TicketsDrawn, Entered, InLine, Waiting, TurnPlace, QueuePlace
<1> QED
  BY <1>2, <1>3, <1>5 DEF QueueInv

\* A step of the queue keeps its invariant.
LEMMA QueueKept ==
    ASSUME NEW P, RuntimeType(P), QueueInv, NEW c \in Call, QueueStep(c)
    PROVE  QueueInv'
<1>1. QueueMove(c) /\ QueueScan(c)
  BY QueueMoves, QueueScans
<1>2. QueueType'
  <2>1. /\ tickets' \in Nat /\ ticket' \in [Call -> Nat]
        /\ deadline' \in [Call -> Nat] /\ ahead' \in [Call -> SUBSET Call]
    <3>0. /\ Date(c) \in Nat /\ tickets \in Nat /\ ticket \in [Call -> Nat]
          /\ deadline \in [Call -> Nat] /\ ahead \in [Call -> SUBSET Call] /\ queue \subseteq Call
      BY QueueTimes DEF QueueInv, QueueType
    <3> USE <3>0, QueueAssumption DEF queueVars
    <3>1. CASE Join(c) \/ DrawTicket(c) \/ Enqueue(c) \/ EnterFault(c)
      BY <3>1 DEF Join, DrawTicket, Enqueue, EnterFault
    <3>2. CASE PollTimesOut(c) \/ Poll(c) \/ FetchPage(c) \/ Evict(c)
      BY <3>2 DEF PollTimesOut, Poll, FetchPage, Evict
    <3>3. CASE SleepOn(c) \/ ReEnter(c) \/ PollFault(c) \/ Leave(c) \/ LeaveFault(c)
      BY <3>3 DEF SleepOn, ReEnter, PollFault, Leave, LeaveFault
    <3> QED
      BY <3>1, <3>2, <3>3 DEF QueueStep
  <2>2. queue' \subseteq Call
    BY <1>1 DEF QueueMove, QueueInv, QueueType
  <2> QED
    BY <1>1, <2>1, <2>2 DEF QueueScan, ScanOK, QueueInv, QueueType, ScanType
<1>3. QueueFinite'
  <2>1. IsFiniteSet(queue')
    BY <1>1, FS_AddElement, FS_Subset DEF QueueMove, QueueInv, QueueFinite
  <2> QED
    BY <1>1, <2>1 DEF QueueScan, ScanOK, QueueInv, QueueFinite
<1>4. TicketsDrawn'
  <2>0. /\ tickets \in Nat /\ ticket \in [Call -> Nat] /\ ticket' \in [Call -> Nat]
        /\ TicketsDrawn
    BY <1>2 DEF QueueInv, QueueType
  <2>1. \A d \in Call : ticket[d] # 0 => ticket'[d] = ticket[d]
    <3>1. pc[c] = "joining" => ticket[c] = 0
      BY <2>0 DEF TicketsDrawn
    <3> QED
      BY <1>1, <2>0, <3>1 DEF QueueMove
  <2>2. /\ \A d \in Call : ticket'[d] <= tickets'
        /\ \A d, e \in Call : ticket'[d] = ticket'[e] /\ ticket'[d] # 0 => d = e
    BY <1>1, <2>0 DEF QueueMove, TicketsDrawn
  <2>3. pc'[c] \in QueuePlace => c \in Ticketed
    BY <1>1 DEF QueueMove
  <2>4. pc[c] \in Entered /\ c \in Ticketed => ticket[c] # 0
    BY <2>0 DEF TicketsDrawn
  <2>5. c \in queue' \ queue => ticket[c] # 0
    <3>1. pc[c] \in Entered /\ pc[c] \in {"idle", "leaving"} \cup QueuePlace => pc[c] \in QueuePlace
      BY DEF Entered, InLine, Waiting, TurnPlace, QueuePlace
    <3>2. pc[c] \in {"idle", "leaving"} \cup QueuePlace
      BY QueuePlaces DEF QueueGoes
    <3> QED
      BY <1>1, <2>0, <2>4, <3>1, <3>2 DEF QueueMove, TicketsDrawn
  <2>6. ASSUME NEW d \in Call, HasEntry(d)' PROVE ticket'[d] # 0
    <3>1. HasEntry(d) \/ (d = c /\ c \in queue' \ queue)
      BY <1>1, <2>6 DEF HasEntry, QueueMove, QueueScan
    <3>2. ticket[d] # 0
      BY <2>0, <2>5, <3>1 DEF TicketsDrawn
    <3> QED
      BY <2>1, <3>2
  <2>7. ASSUME NEW d \in Call, d \in Ticketed, pc'[d] \in Entered PROVE ticket'[d] # 0
    <3>1. CASE pc[d] \in Entered
      BY <2>0, <2>1, <2>7, <3>1 DEF TicketsDrawn
    <3>2. CASE pc[d] \notin Entered
      <4>1. d = c /\ ticket'[c] = tickets + 1
        BY <1>1, <2>7, <3>2 DEF QueueMove
      <4> QED
        BY <2>0, <4>1
    <3> QED
      BY <3>1, <3>2
  <2>8. ASSUME NEW d \in Call, pc'[d] \in {"idle", "joining"} PROVE ticket'[d] = 0
    BY <1>1, <2>0, <2>8 DEF QueueMove, TicketsDrawn
  <2>9. ASSUME NEW d \in Call, pc'[d] \in QueuePlace PROVE d \in Ticketed
    BY <1>1, <2>0, <2>9 DEF QueueMove, TicketsDrawn
  <2> QED
    BY <2>2, <2>6, <2>7, <2>8, <2>9 DEF TicketsDrawn
<1> QED
  BY <1>2, <1>3, <1>4 DEF QueueInv

\* A call that another step of its mode moves does not come into the line.
Elsewhere(c) ==
    \/ pc'[c] = pc[c]
    \/ pc'[c] \notin {"idle"} \cup QueuePlace \cup TurnPlace
    \/ c \notin Ticketed /\ pc'[c] \notin {"idle"} \cup QueuePlace
    \/ c \in Ticketed /\ pc[c] \in InLine /\ pc'[c] \in {"polling"} \cup TurnPlace

\* A step that leaves the queue's own variables alone, but for ending a scan,
\* keeps the invariant as well.
LEMMA QueueLeftAlone ==
    ASSUME QueueInv, NEW c \in Call,
           UNCHANGED <<tickets, ticket, queue, ahead>>, deadline' \in [Call -> Nat],
           scan' = scan \/ scan' = [scan EXCEPT ![c] = NoScan],
           \A d \in Call : Elsewhere(d)
    PROVE  QueueInv'
<1>1. QueueScan(c)
  <2>1. /\ scan \in [Call -> ScanType] /\ ScanOK(c, scan[c])
        /\ ScanOK(c, NoScan) /\ NoScan.page = {}
    BY EmptyScan DEF QueueInv, QueueType, QueueFinite, ScanOK, ScanType
  <2> QED
    BY <2>1 DEF QueueScan, ScanOK
<1>2. QueueType'
  BY <1>1 DEF QueueScan, ScanOK, QueueInv, QueueType, ScanType
<1>3. QueueFinite'
  BY <1>1 DEF QueueScan, ScanOK, QueueInv, QueueFinite
<1>4. TicketsDrawn'
  <2>1. \A d \in Call : HasEntry(d)' => HasEntry(d)
    BY <1>1 DEF QueueScan, HasEntry
  <2>2. \A d \in Call : d \in Ticketed /\ pc'[d] \in Entered => pc[d] \in Entered
    BY DEF Elsewhere, Entered, InLine, Waiting, QueuePlace
  <2>3. \A d \in Call : pc'[d] \in {"idle", "joining"} => pc'[d] = pc[d]
    BY DEF Elsewhere, InLine, Waiting, TurnPlace, QueuePlace
  <2>4. \A d \in Call : pc'[d] \in QueuePlace => pc'[d] = pc[d] \/ d \in Ticketed
    BY DEF Elsewhere, TurnPlace, QueuePlace
  <2> QED
    BY <2>1, <2>2, <2>3, <2>4 DEF QueueInv, TicketsDrawn
<1> QED
  BY <1>2, <1>3, <1>4 DEF QueueInv

-----------------------------------------------------------------------------
(* Places: while its deadline has not passed, a waiter is in the queue.     *)
(* Every eviction is of an entry whose deadline is before the scan's date,  *)
(* which the clock of the waiter, if it agrees, has passed as well.         *)

Early == {"idle", "joining", "enqueuing"}
EqualClocks == \A c, d \in Call : Skew[c] = Skew[d]

PlaceInv ==
    /\ \A d \in queue : pc[d] \notin Early
    /\ \A c \in Call : \A d \in ahead[c] :
        pc[d] \notin Early /\ ticket[d] # 0 /\ ticket[d] < ticket[c]
    /\ \A c \in Call :
        /\ scan[c].at <= Date(c)
        /\ pc[c] = "evicting" => \A e \in Reached(c) : deadline[e] < scan[c].at
    /\ \A c \in Ticketed : pc[c] \in InLine /\ Date(c) <= deadline[c] => c \in queue

QueueEdge(c) ==
    /\ pc'[c] \in Early => pc[c] \in Early
    /\ \A d \in Call \ {c} : ahead'[d] = ahead[d]
    /\ IF pc[c] = "joining"
       THEN queue' = queue /\ (ahead' = ahead \/ (ahead'[c] = queue /\ ticket'[c] = tickets + 1))
       ELSE ahead' = ahead /\ ticket' = ticket
    /\ c \in queue' => c \in queue \/ (pc[c] \in {"enqueuing", "scanned"} /\ pc'[c] \notin Early)
    /\ \A d \in queue \ queue' :
        \/ d = c /\ pc[c] = "leaving"
        \/ pc[c] = "evicting" /\ d \in Reached(c)
    /\ pc'[c] \in InLine => pc[c] \in InLine \/ c \in queue'

\* What a step of the queue does to the entries.
LEMMA QueueEdges ==
    ASSUME NEW P, RuntimeType(P), QueueInv, NEW c \in Call, QueueStep(c)
    PROVE  QueueEdge(c)
<1>0. /\ pc \in [Call -> P] /\ ticket \in [Call -> Nat] /\ ahead \in [Call -> SUBSET Call]
      /\ tickets \in Nat
  BY DEF RuntimeType, QueueInv, QueueType
<1> USE <1>0 DEF QueueEdge, Early, InLine, Waiting, TurnPlace, Goto, queueVars
<1>1. CASE Join(c)
  BY <1>1 DEF Join
<1>2. CASE DrawTicket(c)
  BY <1>2 DEF DrawTicket
<1>3. CASE Enqueue(c)
  BY <1>3 DEF Enqueue
<1>4. CASE EnterFault(c)
  <2>1. /\ pc' = [pc EXCEPT ![c] = "done"] /\ UNCHANGED <<ahead, ticket>>
        /\ \/ pc[c] = "joining" /\ queue' = queue
           \/ pc[c] = "enqueuing" /\ queue' \in {queue, queue \cup {c}}
    BY <1>4 DEF EnterFault
  <2> QED
    BY <2>1
<1>5. CASE PollTimesOut(c) \/ Poll(c)
  BY <1>5 DEF PollTimesOut, Poll, Polling
<1>6. CASE FetchPage(c)
  <2>1. /\ pc[c] = "scanning" /\ UNCHANGED <<ticket, queue, ahead>>
        /\ \E p \in {"scanned", "evicting", "scanning"} : pc' = [pc EXCEPT ![c] = p]
    BY <1>6 DEF FetchPage, Continue
  <2> QED
    BY <2>1
<1>7. CASE Evict(c)
  <2>1. /\ pc[c] = "evicting" /\ UNCHANGED <<ticket, ahead>>
        /\ \E e \in Reached(c) : queue' = queue \ {e}
        /\ \E p \in {"scanned", "evicting", "scanning"} : pc' = [pc EXCEPT ![c] = p]
    BY <1>7 DEF Evict, Continue
  <2> QED
    BY <2>1
<1>8. CASE SleepOn(c) \/ ReEnter(c)
  BY <1>8 DEF SleepOn, ReEnter, BackToPolling
<1>9. CASE PollFault(c)
  <2>1. /\ pc' = [pc EXCEPT ![c] = "leaving"] /\ UNCHANGED <<ahead, ticket>>
        /\ \/ pc[c] = "scanning" /\ queue' = queue
           \/ pc[c] = "evicting" /\ \E e \in Reached(c) : queue' \in {queue, queue \ {e}}
           \/ pc[c] = "scanned" /\ queue' \in {queue, queue \cup {c}}
    BY <1>9 DEF PollFault
  <2> QED
    BY <2>1
<1>10. CASE Leave(c) \/ LeaveFault(c)
  BY <1>10 DEF Leave, LeaveFault
<1> QED
  BY <1>1, <1>2, <1>3, <1>4, <1>5, <1>6, <1>7, <1>8, <1>9, <1>10 DEF QueueStep

\* A scan keeps the date it began with, and stops only at entries that had
\* expired by then.
LEMMA ScanStops ==
    ASSUME NEW P, RuntimeType(P), QueueInv, PlaceInv, NEW c \in Call, QueueStep(c)
    PROVE  /\ scan'[c].at <= Date(c)
           /\ pc'[c] = "evicting" => \A e \in Reached(c)' : deadline[e] < scan'[c].at
<1>0. /\ pc \in [Call -> P] /\ ticket \in [Call -> Nat] /\ queue \subseteq Call
      /\ scan \in [Call -> ScanType] /\ scan[c].at <= Date(c) /\ Date(c) \in Nat
      /\ IsFiniteSet(queue) /\ ScanOK(c, scan[c])
      /\ Distinct(queue) /\ Distinct(scan[c].page)
  <2>1. /\ pc \in [Call -> P] /\ ticket \in [Call -> Nat] /\ queue \subseteq Call
        /\ scan \in [Call -> ScanType] /\ scan[c].at <= Date(c)
        /\ IsFiniteSet(queue) /\ ScanOK(c, scan[c])
    BY DEF RuntimeType, QueueInv, QueueType, QueueFinite, PlaceInv, ScanType, ScanOK
  <2>2. Distinct(queue) /\ Distinct(scan[c].page)
    BY DEF QueueInv, QueueType, TicketsDrawn, HasEntry, Distinct
  <2> QED
    BY <2>1, <2>2, QueueTimes
<1> DEFINE Goal == /\ scan'[c].at <= Date(c)
                   /\ pc'[c] = "evicting" => \A e \in Reached(c)' : deadline[e] < scan'[c].at
<1>1. CASE /\ scan' = scan \/ scan' = [scan EXCEPT ![c] = NoScan]
                           \/ scan' = [scan EXCEPT ![c] = [NoScan EXCEPT !.at = Date(c)]]
           /\ pc'[c] # "evicting"
  BY <1>0, <1>1 DEF NoScan
<1>2. ASSUME NEW s \in ScanType, IsFiniteSet(s.page), Distinct(s.page), s.at = scan[c].at,
             s.pushed = scan[c].pushed, s.live = scan[c].live, ticket' = ticket,
             Continue(c, Sifted(c, s))
      PROVE  Goal
  <2>1. /\ Sifted(c, s) \in ScanType /\ Sifted(c, s).at = s.at
        /\ s.pushed <= Limit[c] /\ Sifted(c, s).pushed <= Limit[c]
    BY <1>0, <1>2, SiftedScan DEF ScanOK
  <2>2. /\ scan'[c].at \in {0, s.at}
        /\ pc'[c] = "evicting" => scan'[c] = Sifted(c, s) /\ ~Complete(c, Sifted(c, s))
    BY <1>0, <1>2, <2>1, ContinueScan
  <2>3. ASSUME pc'[c] = "evicting", NEW e \in Reached(c)' PROVE deadline[e] < scan'[c].at
    <3>1. /\ e \in Sifted(c, s).page
          /\ \A d \in Sifted(c, s).page : ticket[e] <= ticket[d]
      BY <1>2, <2>2, <2>3 DEF Reached
    <3>2. Sifted(c, s).pushed < Limit[c]
      BY <2>1, <2>2, <2>3, QueueAssumption DEF Complete, ScanType
    <3>3. deadline[e] < s.at
      BY <1>0, <1>2, <2>1, <3>1, <3>2, SiftedStops
    <3> QED
      BY <2>1, <2>2, <2>3, <3>3
  <2> QED
    BY <1>0, <1>2, <2>2, <2>3
<1>3. CASE FetchPage(c)
  <2> DEFINE page == Slice(queue, scan[c].start, PageSize)
             s == [scan[c] EXCEPT !.page = page, !.full = Cardinality(page) = PageSize]
  <2>1. page \subseteq queue /\ IsFiniteSet(page) /\ Distinct(page)
    BY <1>0, FS_Subset DEF Slice, Distinct
  <2>2. Continue(c, Sifted(c, s)) /\ ticket' = ticket
    BY <1>3 DEF FetchPage
  <2> HIDE DEF page
  <2>3. /\ s \in ScanType /\ s.page = page /\ s.at = scan[c].at
        /\ s.live = scan[c].live /\ s.pushed = scan[c].pushed
    <3>1. scan[c] \in ScanType /\ page \in SUBSET Call /\ (Cardinality(page) = PageSize) \in BOOLEAN
      BY <1>0, <2>1
    <3> QED
      BY <3>1 DEF ScanType
  <2> HIDE DEF s
  <2> QED
    BY <1>2, <2>1, <2>2, <2>3
<1>4. CASE Evict(c)
  <2>1. PICK e \in Reached(c) : Continue(c, Sifted(c, [scan[c] EXCEPT !.page = @ \ {e}]))
    BY <1>4 DEF Evict
  <2> DEFINE page == scan[c].page \ {e}
             s == [scan[c] EXCEPT !.page = page]
  <2>2. page \subseteq scan[c].page /\ IsFiniteSet(page) /\ Distinct(page)
    BY <1>0, FS_Difference DEF ScanOK, Distinct
  <2>3. Continue(c, Sifted(c, s)) /\ ticket' = ticket
    BY <1>4, <2>1 DEF Evict
  <2> HIDE DEF page
  <2>4. /\ s \in ScanType /\ s.page = page /\ s.at = scan[c].at
        /\ s.live = scan[c].live /\ s.pushed = scan[c].pushed
    <3>1. scan[c] \in ScanType /\ page \in SUBSET Call
      BY <1>0, <2>2 DEF ScanType
    <3> QED
      BY <3>1 DEF ScanType
  <2> HIDE DEF s
  <2> QED
    BY <1>2, <2>2, <2>3, <2>4
<1>5. CASE Join(c) \/ DrawTicket(c) \/ Enqueue(c) \/ EnterFault(c) \/ PollTimesOut(c) \/ Poll(c)
  <2>1. \/ scan' = scan
        \/ scan' = [scan EXCEPT ![c] = [NoScan EXCEPT !.at = Date(c)]]
    BY <1>5 DEF Join, DrawTicket, Enqueue, EnterFault, PollTimesOut, Poll, queueVars
  <2>2. pc'[c] # "evicting"
    BY <1>0, <1>5 DEF Join, DrawTicket, Enqueue, EnterFault, PollTimesOut, Poll, Goto
  <2> QED
    BY <1>1, <2>1, <2>2
<1>6. CASE SleepOn(c) \/ ReEnter(c) \/ PollFault(c) \/ Leave(c) \/ LeaveFault(c)
  <2>1. scan' = scan \/ scan' = [scan EXCEPT ![c] = NoScan]
    BY <1>6 DEF SleepOn, ReEnter, BackToPolling, PollFault, Leave, LeaveFault
  <2>2. pc'[c] # "evicting"
    BY <1>0, <1>6 DEF SleepOn, ReEnter, BackToPolling, PollFault, Leave, LeaveFault, Goto
  <2> QED
    BY <1>1, <2>1, <2>2
<1> QED
  BY <1>3, <1>4, <1>5, <1>6 DEF QueueStep

\* A step of the queue leaves every waiter its place.
LEMMA PlaceKept ==
    ASSUME NEW P, RuntimeType(P), QueueInv, PlaceInv, EqualClocks, NEW c \in Call, QueueStep(c)
    PROVE  PlaceInv'
<1>0. /\ ticket \in [Call -> Nat] /\ tickets \in Nat /\ queue \subseteq Call
      /\ deadline \in [Call -> Nat] /\ TicketsDrawn
      /\ scan \in [Call -> ScanType] /\ ahead \in [Call -> SUBSET Call]
  BY DEF QueueInv, QueueType, ScanType
<1>1. QueueEdge(c) /\ QueueMove(c) /\ QueueScan(c) /\ now' = now
  BY QueueEdges, QueueMoves, QueueScans, QueueLeases
<1>2. \A d \in Call : Date(d)' = Date(d) /\ Date(d) \in Nat /\ Date(d) = Date(c)
  BY <1>1, QueueTimes DEF Date, EqualClocks
<1>3. \A d \in queue' : d \in Call /\ pc'[d] \notin Early
  <2> TAKE d \in queue'
  <2>1. d \in queue \cup {c}
    BY <1>1 DEF QueueMove
  <2>2. d # c => pc'[d] = pc[d]
    BY <1>0, <1>1, <2>1 DEF QueueMove
  <2> QED
    BY <1>0, <1>1, <2>1, <2>2 DEF QueueEdge, PlaceInv
<1>4. ASSUME NEW d \in Call, NEW e \in ahead'[d]
      PROVE  pc'[e] \notin Early /\ ticket'[e] # 0 /\ ticket'[e] < ticket'[d]
  <2>1. e \in ahead[d] \/ (d = c /\ pc[c] = "joining" /\ e \in queue /\ ticket'[c] = tickets + 1)
    BY <1>1 DEF QueueEdge
  <2>2. e \in Call /\ pc[e] \notin Early /\ ticket[e] # 0
    BY <1>0, <2>1 DEF PlaceInv, TicketsDrawn, HasEntry
  <2>3. pc'[e] \notin Early
    BY <1>1, <2>2 DEF QueueEdge, QueueMove
  <2>4. ticket'[e] = ticket[e]
    BY <1>1, <2>2 DEF QueueEdge, QueueMove, Early
  <2>5. CASE e \in ahead[d]
    <3>1. ticket[e] < ticket[d]
      BY <2>5 DEF PlaceInv
    <3>2. pc[d] = "joining" => ticket[d] = 0
      BY <1>0 DEF TicketsDrawn
    <3>3. ticket'[d] = ticket[d]
      BY <1>0, <1>1, <2>2, <3>1, <3>2 DEF QueueEdge, QueueMove
    <3> QED
      BY <2>2, <2>3, <2>4, <3>1, <3>3
  <2>6. CASE d = c /\ ticket'[c] = tickets + 1
    BY <1>0, <2>2, <2>3, <2>4, <2>6 DEF TicketsDrawn
  <2> QED
    BY <2>1, <2>5, <2>6
<1>5. ASSUME NEW d \in Call
      PROVE  /\ scan'[d].at <= Date(d)
             /\ pc'[d] = "evicting" => \A e \in Reached(d)' : deadline'[e] < scan'[d].at
  <2>1. \A e \in Call : HasEntry(e) => deadline'[e] = deadline[e] /\ ticket'[e] = ticket[e]
    BY <1>0, <1>1 DEF QueueMove, QueueEdge, TicketsDrawn
  <2>2. CASE d = c
    <3>1. \A e \in Reached(c)' : HasEntry(e) /\ e \in Call
      BY <1>0, <1>1 DEF Reached, QueueScan, HasEntry, ScanType
    <3> QED
      BY <2>1, <2>2, <3>1, ScanStops
  <2>3. CASE d # c
    <3>1. pc'[d] = pc[d] /\ scan'[d] = scan[d]
      BY <1>1, <2>3 DEF QueueMove, QueueScan
    <3>2. \A e \in scan[d].page : e \in Call /\ HasEntry(e)
      BY <1>0 DEF HasEntry, ScanType
    <3>3. \A e \in Reached(d)' : e \in Reached(d) /\ e \in Call /\ HasEntry(e)
      BY <2>1, <3>1, <3>2 DEF Reached
    <3> QED
      BY <2>1, <3>1, <3>3 DEF PlaceInv
  <2> QED
    BY <2>2, <2>3
<1>6. ASSUME NEW d \in Ticketed, pc'[d] \in InLine, Date(d) <= deadline'[d] PROVE d \in queue'
  <2>0. d \in Call
    BY SetsAssumption
  <2>1. CASE d = c /\ pc[c] \notin InLine
    BY <1>1, <1>6, <2>1 DEF QueueEdge
  <2>2. CASE pc[d] \in InLine
    <3>1. deadline'[d] = deadline[d]
      BY <1>1, <2>0, <2>2 DEF QueueMove, InLine, Waiting, TurnPlace
    <3>2. d \in queue
      BY <1>6, <2>2, <3>1 DEF PlaceInv
    <3>3. ~(d = c /\ pc[c] = "leaving")
      BY <2>2 DEF InLine, Waiting, TurnPlace
    <3>4. ~(pc[c] = "evicting" /\ d \in Reached(c))
      <4> SUFFICES ASSUME pc[c] = "evicting", d \in Reached(c) PROVE FALSE
        OBVIOUS
      <4>1. deadline[d] < scan[c].at /\ scan[c].at <= Date(c)
        BY DEF PlaceInv
      <4>2. scan[c].at \in Nat /\ Date(d) = Date(c) /\ Date(c) \in Nat /\ deadline[d] \in Nat
        BY <1>0, <1>2, <2>0 DEF ScanType
      <4> QED
        BY <1>6, <3>1, <4>1, <4>2
    <3> QED
      BY <1>1, <3>2, <3>3, <3>4 DEF QueueEdge
  <2>3. CASE d # c
    <3>1. pc[d] \in InLine
      BY <1>1, <1>6, <2>0, <2>3 DEF QueueMove
    <3> QED
      BY <2>2, <3>1
  <2> QED
    BY <2>1, <2>2, <2>3
<1> QED
  BY <1>2, <1>3, <1>4, <1>5, <1>6, SetsAssumption DEF PlaceInv

\* A step of the mode or of the runtime that leaves the entries alone.
LineLeftAlone(c) ==
    /\ now' \in {now, now + 1}
    /\ UNCHANGED <<tickets, ticket, queue, ahead>>
    /\ \A d \in Call : Elsewhere(d) /\ (deadline'[d] = deadline[d] \/ pc[d] = "idle")
    /\ scan' = scan \/ (scan' = [scan EXCEPT ![c] = NoScan] /\ pc'[c] \notin Waiting)

\* Steps that leave the queue alone leave every waiter's place alone.
LEMMA PlaceLeftAlone ==
    ASSUME NEW P, RuntimeType(P), QueueInv, PlaceInv, NEW c, LineLeftAlone(c),
           deadline' \in [Call -> Nat]
    PROVE  PlaceInv'
<1>0. /\ TicketsDrawn /\ scan \in [Call -> ScanType] /\ ahead \in [Call -> SUBSET Call]
      /\ queue \subseteq Call /\ deadline \in [Call -> Nat]
  BY DEF QueueInv, QueueType, ScanType
<1>1. \A d \in Call : pc'[d] \in Early => pc[d] \in Early
  BY DEF LineLeftAlone, Elsewhere, Early, QueuePlace, TurnPlace
<1>2. \A d \in Call : Date(d) \in Nat /\ Date(d)' \in Nat /\ Date(d) <= Date(d)'
  <2>1. \A d \in Call : Date(d)' = Date(d) \/ Date(d)' = Date(d) + 1
    BY NumbersAssumption DEF LineLeftAlone, Date, RuntimeType
  <2> QED
    BY <2>1, QueueTimes
<1>3. /\ \A d \in queue' : pc'[d] \notin Early
      /\ \A d \in Call : \A e \in ahead'[d] :
            pc'[e] \notin Early /\ ticket'[e] # 0 /\ ticket'[e] < ticket'[d]
  BY <1>0, <1>1 DEF LineLeftAlone, PlaceInv
<1>4. ASSUME NEW d \in Call
      PROVE  /\ scan'[d].at <= Date(d)'
             /\ pc'[d] = "evicting" => \A e \in Reached(d)' : deadline'[e] < scan'[d].at
  <2>1. scan'[d].at \in {0, scan[d].at} /\ scan[d].at \in Nat
    BY <1>0 DEF LineLeftAlone, NoScan, ScanType
  <2>2. scan[d].at <= Date(d)
    BY DEF PlaceInv
  <2>3. scan'[d].at <= Date(d)'
    BY <1>2, <2>1, <2>2
  <2>4. ASSUME pc'[d] = "evicting", NEW e \in Reached(d)' PROVE deadline'[e] < scan'[d].at
    <3>1. pc[d] = "evicting"
      BY <2>4 DEF LineLeftAlone, Elsewhere, QueuePlace, TurnPlace
    <3>2. scan'[d] = scan[d]
      BY <1>0, <2>4 DEF LineLeftAlone, Waiting
    <3>3. e \in Reached(d) /\ e \in Call
      BY <1>0, <2>4, <3>2 DEF Reached, LineLeftAlone, ScanType
    <3>4. pc[e] # "idle"
      BY <1>0, <3>3 DEF Reached, TicketsDrawn, HasEntry
    <3> QED
      BY <3>1, <3>2, <3>3, <3>4 DEF LineLeftAlone, PlaceInv
  <2> QED
    BY <2>3, <2>4
<1>5. ASSUME NEW d \in Ticketed, pc'[d] \in InLine, Date(d)' <= deadline'[d] PROVE d \in queue'
  <2>0. d \in Call
    BY SetsAssumption
  <2>1. pc[d] \in InLine
    BY <1>5, <2>0 DEF LineLeftAlone, Elsewhere, InLine, Waiting, QueuePlace, TurnPlace
  <2>2. deadline'[d] = deadline[d]
    BY <2>0, <2>1 DEF LineLeftAlone, InLine, Waiting, TurnPlace
  <2>3. Date(d) <= deadline[d]
    <3>1. Date(d) \in Nat /\ Date(d)' \in Nat /\ deadline[d] \in Nat /\ Date(d) <= Date(d)'
      BY <1>0, <1>2, <2>0
    <3> QED
      BY <1>5, <2>2, <3>1
  <2> QED
    BY <2>0, <2>1, <2>3 DEF LineLeftAlone, PlaceInv
<1> QED
  BY <1>3, <1>4, <1>5 DEF PlaceInv

\* No place is taken at the start, and none is lost in it.
LEMMA PlaceStarts ==
    ASSUME NEW P, RuntimeType(P), RuntimeInit, QueueInit
    PROVE  PlaceInv
<1>1. \A c \in Call : scan[c].at = 0 /\ pc[c] = "idle" /\ ahead[c] = {} /\ Date(c) \in Nat
  BY QueueTimes DEF RuntimeInit, QueueInit, NoScan
<1> QED
  BY <1>1, SetsAssumption DEF PlaceInv, QueueInit, InLine, Waiting, TurnPlace

-----------------------------------------------------------------------------
(* The front: if a page holds the whole queue, a scan goes through it in    *)
(* ticket order, so whoever it lets to the front has passed nobody that was *)
(* there before it and has time left.                                       *)

WholeQueue == IsFiniteSet(Call) /\ Cardinality(Call) <= PageSize
StillAhead(c) == {d \in ahead[c] \cap queue : deadline[d] >= Date(c)}
Below(S, T) == \A x \in S, y \in T : ticket[x] < ticket[y]

FrontInv ==
    \A c \in Call :
        /\ \A d \in scan[c].live : ticket[d] # 0
        /\ pc[c] = "scanning" =>
            IF scan[c].start = 0
            THEN scan[c].live = {}
            ELSE scan[c].start >= PageSize /\ StillAhead(c) \subseteq scan[c].live
        /\ pc[c] = "evicting" =>
            /\ Below(scan[c].live, scan[c].page)
            /\ StillAhead(c) \subseteq scan[c].live \cup scan[c].page
        /\ pc[c] = "scanned" => Below(scan[c].live, StillAhead(c) \ scan[c].live)

\* When a call at the front takes its turn, fewer than its limit are still ahead.
LEMMA FrontServes ==
    ASSUME QueueInv, PlaceInv, FrontInv, NEW c \in Call, Admitted(c)
    PROVE  Cardinality(StillAhead(c)) < Limit[c]
<1> DEFINE live == scan[c].live
<1>0. /\ IsFiniteSet(live) /\ live \subseteq Call
      /\ Cardinality(live) <= Limit[c] /\ Limit[c] \in Nat
      /\ ahead[c] \subseteq Call /\ ticket \in [Call -> Nat]
  <2>1. /\ IsFiniteSet(live) /\ live \subseteq Call /\ scan[c].pushed \in Nat
        /\ Cardinality(live) <= scan[c].pushed /\ scan[c].pushed <= Limit[c]
        /\ ahead[c] \subseteq Call /\ ticket \in [Call -> Nat]
    BY DEF QueueInv, QueueType, QueueFinite
  <2>2. Cardinality(live) \in Nat /\ Limit[c] \in Nat
    BY <2>1, FS_CardinalityType, QueueAssumption
  <2> QED
    BY <2>1, <2>2
<1>1. pc[c] = "scanned" /\ c \in live
  BY DEF Admitted
<1>2. \A d \in StillAhead(c) : d \in Call /\ ticket[d] < ticket[c]
  BY <1>0 DEF StillAhead, PlaceInv
<1>3. StillAhead(c) \subseteq live \ {c}
  <2> SUFFICES ASSUME NEW d \in StillAhead(c) PROVE d \in live /\ d # c
    OBVIOUS
  <2>1. ticket[d] \in Nat /\ ticket[c] \in Nat /\ ticket[d] < ticket[c]
    BY <1>0, <1>2
  <2>2. d \notin live => ticket[c] < ticket[d]
    BY <1>1 DEF FrontInv, Below
  <2> QED
    BY <2>1, <2>2
<1>4. /\ IsFiniteSet(live \ {c}) /\ Cardinality(live \ {c}) = Cardinality(live) - 1
      /\ Cardinality(live) \in Nat
  BY <1>0, <1>1, FS_RemoveElement, FS_CardinalityType
<1>5. Cardinality(StillAhead(c)) <= Cardinality(live \ {c}) /\ Cardinality(StillAhead(c)) \in Nat
  BY <1>3, <1>4, FS_Subset, FS_CardinalityType
<1> QED
  BY <1>0, <1>4, <1>5

\* Fresh entries come before the ones that stay on the page.
LEMMA FreshFirst ==
    ASSUME NEW c \in Call, NEW s \in ScanType, ticket \in [Call -> Nat],
           IsFiniteSet(s.page), Distinct(s.page), s.pushed <= Limit[c]
    PROVE  Below(Fresh(c, s), s.page \ Fresh(c, s))
<1> DEFINE run == {e \in s.page : \A x \in Stale(s) : ticket[e] < ticket[x]}
           n == Limit[c] - s.pushed
           F == Fresh(c, s)
<1>1. n \in Nat
  BY QueueAssumption DEF ScanType
<1>2. F = Slice(run, 0, n) /\ F \subseteq run
  BY DEF Fresh, Slice
<1>3. s.page \subseteq Call /\ IsFiniteSet(run)
  BY FS_Subset DEF ScanType
<1> SUFFICES ASSUME NEW x \in F, NEW y \in s.page \ F PROVE ticket[x] < ticket[y]
  BY DEF Below
<1>4. x \in run /\ ticket[x] \in Nat /\ ticket[y] \in Nat
  BY <1>2, <1>3
<1>5. CASE y \notin run
  <2>1. PICK z \in Stale(s) : ~(ticket[y] < ticket[z])
    BY <1>5
  <2>2. ticket[x] < ticket[z] /\ ticket[z] \in Nat
    BY <1>3, <1>4, <2>1 DEF Stale
  <2> QED
    BY <1>4, <2>1, <2>2
<1>6. CASE y \in run
  <2> SUFFICES ASSUME ticket[y] <= ticket[x] PROVE FALSE
    BY <1>4
  <2> DEFINE X == {d \in run : ticket[d] < ticket[x]}
             Y == {d \in run : ticket[d] < ticket[y]}
  <2>1. Y \subseteq X /\ IsFiniteSet(X) /\ IsFiniteSet(Y)
    BY <1>3, <1>4, FS_Subset
  <2>2. Cardinality(Y) <= Cardinality(X) /\ Cardinality(X) \in Nat /\ Cardinality(Y) \in Nat
    BY <2>1, FS_Subset, FS_CardinalityType
  <2>3. Cardinality(X) < n
    <3>1. Rank(x, run) < 0 + n
      BY <1>2 DEF Slice
    <3> QED
      BY <1>1, <2>2, <3>1 DEF Rank
  <2>4. Cardinality(Y) < n
    BY <1>1, <2>2, <2>3
  <2>5. y \in Slice(run, 0, n)
    BY <1>1, <1>6, <2>2, <2>4 DEF Slice, Rank
  <2> QED
    BY <1>2, <2>5
<1> QED
  BY <1>5, <1>6

\* A page as long as the queue is the queue, and there is no second one.
LEMMA PageIsQueue ==
    ASSUME WholeQueue, queue \subseteq Call, ticket \in [Call -> Nat], NEW n \in Nat
    PROVE  /\ Slice(queue, 0, PageSize) = queue
           /\ n >= PageSize => Slice(queue, n, PageSize) = {}
<1>1. PageSize \in Nat /\ IsFiniteSet(Call) /\ Cardinality(Call) \in Nat
  BY QueueAssumption, FS_CardinalityType DEF WholeQueue
<1>2. ASSUME NEW c \in queue PROVE Rank(c, queue) \in Nat /\ Rank(c, queue) < PageSize
  <2> DEFINE B == {d \in queue : ticket[d] < ticket[c]}
  <2>1. B \subseteq Call \ {c}
    OBVIOUS
  <2>2. IsFiniteSet(Call \ {c}) /\ Cardinality(Call \ {c}) = Cardinality(Call) - 1
    BY <1>1, FS_RemoveElement
  <2>3. Cardinality(B) <= Cardinality(Call \ {c}) /\ Cardinality(B) \in Nat
    BY <2>1, <2>2, FS_Subset, FS_CardinalityType
  <2> QED
    BY <1>1, <2>2, <2>3 DEF Rank, WholeQueue
<1> QED
  BY <1>1, <1>2 DEF Slice

\* A sift, and where the scan goes on, keep whoever is in G in sight: among the
\* calls let to the front, or behind all of them.
LEMMA FrontContinues ==
    ASSUME NEW P, pc \in [Call -> P], scan \in [Call -> ScanType], ticket \in [Call -> Nat],
           NEW c \in Call, NEW s \in ScanType, IsFiniteSet(s.page), Distinct(s.page),
           s.pushed <= Limit[c], Below(s.live, s.page), Continue(c, Sifted(c, s)), PageSize # 0,
           NEW G, G \subseteq s.live \cup s.page
    PROVE  LET new == scan'[c] IN
           /\ new.live \subseteq s.live \cup s.page
           /\ pc'[c] = "scanning" => new.start # 0 /\ new.start >= PageSize /\ G \subseteq new.live
           /\ pc'[c] = "evicting" => Below(new.live, new.page) /\ G \subseteq new.live \cup new.page
           /\ pc'[c] = "scanned" => Below(new.live, G \ new.live)
<1> DEFINE F == Fresh(c, s)
           t == Sifted(c, s)
           rest == [NoScan EXCEPT !.live = t.live, !.pushed = t.pushed]
           further == [t EXCEPT !.start = @ + PageSize]
<1>1. F \subseteq s.page /\ Below(F, s.page \ F)
  BY FreshFirst DEF Fresh, Slice
<1>2. /\ t.live = s.live \cup F /\ t.page = s.page \ F /\ t.start = s.start /\ s.start \in Nat
      /\ DOMAIN t = DOMAIN s
  BY DEF Sifted, ScanType
<1>3. Below(t.live, t.page) /\ G \subseteq t.live \cup t.page /\ t.live \subseteq s.live \cup s.page
  BY <1>1, <1>2 DEF Below
<1>4. CASE scan' = [scan EXCEPT ![c] = rest] /\ Goto(c, "scanned")
  <2>1. scan'[c].live = t.live /\ pc'[c] = "scanned"
    BY <1>4 DEF Goto, NoScan
  <2> QED
    BY <1>3, <2>1 DEF Below
<1>5. CASE scan' = [scan EXCEPT ![c] = t] /\ Goto(c, "evicting")
  <2>1. scan'[c] = t /\ pc'[c] = "evicting"
    BY <1>5 DEF Goto
  <2> HIDE DEF t
  <2> QED
    BY <1>3, <2>1
<1>6. CASE t.page = {} /\ scan' = [scan EXCEPT ![c] = further] /\ Goto(c, "scanning")
  <2>1. scan'[c].live = t.live /\ scan'[c].start = s.start + PageSize /\ pc'[c] = "scanning"
    BY <1>2, <1>6 DEF Goto, Sifted, ScanType
  <2>2. s.start + PageSize # 0 /\ s.start + PageSize >= PageSize
    BY <1>2, QueueAssumption
  <2> HIDE DEF t
  <2> QED
    BY <1>3, <1>6, <2>1, <2>2
<1> QED
  BY <1>4, <1>5, <1>6 DEF Continue

\* A step of the queue keeps whoever is still ahead in sight of the scans.
LEMMA FrontKept ==
    ASSUME NEW P, RuntimeType(P), QueueInv, PlaceInv, FrontInv, EqualClocks, WholeQueue,
           NEW c \in Call, QueueStep(c)
    PROVE  FrontInv'
<1>0. /\ pc \in [Call -> P] /\ ticket \in [Call -> Nat] /\ deadline \in [Call -> Nat]
      /\ queue \subseteq Call /\ IsFiniteSet(queue) /\ Distinct(queue)
      /\ scan \in [Call -> ScanType] /\ ahead \in [Call -> SUBSET Call] /\ TicketsDrawn
      /\ ScanOK(c, scan[c]) /\ Distinct(scan[c].page)
  <2>1. Distinct(queue) /\ Distinct(scan[c].page)
    BY DEF QueueInv, QueueType, TicketsDrawn, HasEntry, Distinct
  <2> QED
    BY <2>1 DEF RuntimeType, QueueInv, QueueType, QueueFinite, ScanType, ScanOK
<1>1. QueueEdge(c) /\ QueueMove(c) /\ QueueScan(c) /\ now' = now
  BY QueueEdges, QueueMoves, QueueScans, QueueLeases
<1>2. \A d \in Call : Date(d)' = Date(d) /\ Date(d) \in Nat /\ Date(d) = Date(c)
  BY <1>1, QueueTimes DEF Date, EqualClocks
<1>3. \A d \in Call : ticket[d] # 0 => ticket'[d] = ticket[d]
  BY <1>0, <1>1 DEF QueueEdge, QueueMove, TicketsDrawn
<1>4. PageSize # 0
  BY QueueAssumption
<1>5. ASSUME NEW d \in Call, pc[d] # "joining", NEW e \in StillAhead(d)'
      PROVE  e \in StillAhead(d) /\ e \in Call /\ ticket[e] # 0
  <2>1. e \in ahead[d] /\ e \in queue' /\ deadline'[e] >= Date(d)
    BY <1>1, <1>2, <1>5 DEF StillAhead, QueueEdge
  <2>2. e \in Call /\ pc[e] \notin Early /\ ticket[e] # 0
    BY <1>0, <2>1 DEF PlaceInv
  <2>3. deadline'[e] = deadline[e]
    BY <1>1, <2>2 DEF QueueMove, Early
  <2>4. e \in queue
    <3> SUFFICES ASSUME e \notin queue PROVE FALSE
      OBVIOUS
    <3>1. e = c /\ pc[c] = "scanned"
      BY <1>1, <2>1, <2>2 DEF QueueEdge, QueueMove, Early
    <3>2. c \in Ticketed /\ pc[c] \in InLine
      BY <1>0, <3>1 DEF TicketsDrawn, QueuePlace, InLine, Waiting
    <3>3. Date(c) <= deadline[c]
      BY <1>0, <1>2, <2>1, <2>3, <3>1
    <3> QED
      BY <3>1, <3>2, <3>3 DEF PlaceInv
  <2> QED
    BY <2>1, <2>2, <2>3, <2>4 DEF StillAhead
<1> DEFINE Front(d) ==
        /\ \A e \in scan[d].live : ticket[e] # 0
        /\ pc[d] = "scanning" =>
            IF scan[d].start = 0
            THEN scan[d].live = {}
            ELSE scan[d].start >= PageSize /\ StillAhead(d) \subseteq scan[d].live
        /\ pc[d] = "evicting" =>
            /\ Below(scan[d].live, scan[d].page)
            /\ StillAhead(d) \subseteq scan[d].live \cup scan[d].page
        /\ pc[d] = "scanned" => Below(scan[d].live, StillAhead(d) \ scan[d].live)
<1>6. \A d \in Call : Front(d)
  BY DEF FrontInv
<1>7. ASSUME NEW d \in Call \ {c} PROVE Front(d)'
  <2>1. pc'[d] = pc[d] /\ scan'[d] = scan[d]
    BY <1>1 DEF QueueMove, QueueScan
  <2>2. /\ scan[d].live \subseteq Call /\ scan[d].page \subseteq Call
        /\ \A e \in scan[d].page : ticket[e] # 0
    BY <1>0 DEF ScanType, TicketsDrawn, HasEntry
  <2>3. \A e \in scan[d].live : ticket'[e] = ticket[e] /\ ticket'[e] # 0
    BY <1>3, <1>6, <2>2
  <2>4. pc[d] # "joining" =>
            \A e \in StillAhead(d)' : e \in StillAhead(d) /\ e \in Call /\ ticket'[e] = ticket[e]
    BY <1>3, <1>5
  <2>5. pc[d] = "evicting" =>
            /\ \A x \in scan[d].live, y \in scan[d].page : ticket'[x] < ticket'[y]
            /\ StillAhead(d)' \subseteq scan[d].live \cup scan[d].page
    BY <1>3, <1>6, <2>2, <2>3, <2>4 DEF Below
  <2>6. pc[d] = "scanned" =>
            \A x \in scan[d].live, y \in StillAhead(d)' \ scan[d].live : ticket'[x] < ticket'[y]
    BY <1>6, <2>3, <2>4 DEF Below
  <2>7. pc[d] = "scanning" =>
            IF scan[d].start = 0
            THEN scan[d].live = {}
            ELSE scan[d].start >= PageSize /\ StillAhead(d)' \subseteq scan[d].live
    BY <1>6, <2>4
  <2> QED
    BY <2>1, <2>3, <2>5, <2>6, <2>7 DEF Below
<1>8. ASSUME NEW s \in ScanType, IsFiniteSet(s.page), Distinct(s.page),
             s.pushed = scan[c].pushed, s.live = scan[c].live,
             s.page \subseteq queue \cup scan[c].page, Below(s.live, s.page),
             pc[c] # "joining", StillAhead(c)' \subseteq s.live \cup s.page,
             ticket' = ticket, Continue(c, Sifted(c, s))
      PROVE  Front(c)'
  <2>1. s.pushed <= Limit[c]
    BY <1>0, <1>8 DEF ScanOK
  <2> DEFINE new == scan'[c]
             G == StillAhead(c)'
  <2>2. /\ new.live \subseteq s.live \cup s.page
        /\ pc'[c] = "scanning" => new.start # 0 /\ new.start >= PageSize /\ G \subseteq new.live
        /\ pc'[c] = "evicting" => Below(new.live, new.page) /\ G \subseteq new.live \cup new.page
        /\ pc'[c] = "scanned" => Below(new.live, G \ new.live)
    <3> HIDE DEF G
    <3> QED
      BY <1>0, <1>4, <1>8, <2>1, FrontContinues DEF G
  <2>3. \A e \in s.live \cup s.page : ticket[e] # 0
    BY <1>0, <1>6, <1>8 DEF TicketsDrawn, HasEntry, ScanType
  <2> QED
    BY <1>8, <2>2, <2>3 DEF Below
<1> SUFFICES Front(c)'
  BY <1>7 DEF FrontInv
<1>9. CASE FetchPage(c)
  <2> DEFINE page == Slice(queue, scan[c].start, PageSize)
             s == [scan[c] EXCEPT !.page = page, !.full = Cardinality(page) = PageSize]
  <2>1. page \subseteq queue /\ IsFiniteSet(page) /\ Distinct(page)
    BY <1>0, FS_Subset DEF Slice, Distinct
  <2>2. Continue(c, Sifted(c, s)) /\ ticket' = ticket /\ pc[c] = "scanning"
    BY <1>9 DEF FetchPage
  <2>3. scan[c].start \in Nat
    BY <1>0 DEF ScanType
  <2>4. IF scan[c].start = 0
        THEN scan[c].live = {} /\ page = queue
        ELSE page = {} /\ StillAhead(c) \subseteq scan[c].live
    BY <1>0, <1>6, <2>2, <2>3, PageIsQueue
  <2>5. Below(scan[c].live, page) /\ StillAhead(c)' \subseteq scan[c].live \cup page
    BY <1>5, <2>2, <2>4 DEF Below, StillAhead
  <2> HIDE DEF page
  <2>6. /\ s \in ScanType /\ s.page = page
        /\ s.live = scan[c].live /\ s.pushed = scan[c].pushed
    <3>1. scan[c] \in ScanType /\ page \in SUBSET Call /\ (Cardinality(page) = PageSize) \in BOOLEAN
      BY <1>0, <2>1
    <3> QED
      BY <3>1 DEF ScanType
  <2> HIDE DEF s
  <2> QED
    BY <1>8, <2>1, <2>2, <2>5, <2>6
<1>10. CASE Evict(c)
  <2>1. PICK e \in Reached(c) : Continue(c, Sifted(c, [scan[c] EXCEPT !.page = @ \ {e}]))
    BY <1>10 DEF Evict
  <2> DEFINE page == scan[c].page \ {e}
             s == [scan[c] EXCEPT !.page = page]
  <2>2. page \subseteq scan[c].page /\ IsFiniteSet(page) /\ Distinct(page)
    BY <1>0, FS_Difference DEF ScanOK, Distinct
  <2>3. Continue(c, Sifted(c, s)) /\ ticket' = ticket /\ pc[c] = "evicting"
    BY <1>10, <2>1 DEF Evict
  <2>4. e \notin StillAhead(c)
    <3>1. deadline[e] < scan[c].at /\ scan[c].at <= Date(c)
      BY <2>3 DEF PlaceInv
    <3>2. e \in Call
      BY <1>0 DEF Reached, ScanType
    <3>3. deadline[e] \in Nat /\ scan[c].at \in Nat /\ Date(c) \in Nat
      BY <1>0, <1>2, <3>2 DEF ScanType
    <3> QED
      BY <3>1, <3>3 DEF StillAhead
  <2>5. Below(scan[c].live, page) /\ StillAhead(c)' \subseteq scan[c].live \cup page
    BY <1>5, <1>6, <2>3, <2>4 DEF Below
  <2> HIDE DEF page
  <2>6. /\ s \in ScanType /\ s.page = page
        /\ s.live = scan[c].live /\ s.pushed = scan[c].pushed
    <3>1. scan[c] \in ScanType /\ page \in SUBSET Call
      BY <1>0, <2>2 DEF ScanType
    <3> QED
      BY <3>1 DEF ScanType
  <2> HIDE DEF s
  <2> QED
    BY <1>8, <2>2, <2>3, <2>5, <2>6
<1>11. CASE Poll(c)
  <2>1. scan'[c].live = {} /\ scan'[c].start = 0 /\ pc'[c] = "scanning"
    BY <1>0, <1>11 DEF Poll, Goto, NoScan
  <2> QED
    BY <2>1
<1>12. ASSUME scan' = scan \/ scan' = [scan EXCEPT ![c] = NoScan],
              pc'[c] \notin {"scanning", "evicting", "scanned"}
       PROVE  Front(c)'
  <2>1. scan'[c].live \in {{}, scan[c].live} /\ scan[c].live \subseteq Call
    BY <1>0, <1>12 DEF NoScan, ScanType
  <2>2. \A e \in scan'[c].live : ticket'[e] # 0
    BY <1>3, <1>6, <2>1
  <2> QED
    BY <1>12, <2>2
<1>13. CASE Join(c) \/ DrawTicket(c) \/ Enqueue(c) \/ EnterFault(c) \/ PollTimesOut(c)
  <2>1. scan' = scan
    BY <1>13 DEF Join, DrawTicket, Enqueue, EnterFault, PollTimesOut, queueVars
  <2>2. pc'[c] \notin {"scanning", "evicting", "scanned"}
    BY <1>0, <1>13 DEF Join, DrawTicket, Enqueue, EnterFault, PollTimesOut, Goto
  <2> QED
    BY <1>12, <2>1, <2>2
<1>14. CASE SleepOn(c) \/ ReEnter(c) \/ PollFault(c) \/ Leave(c) \/ LeaveFault(c)
  <2>1. scan' = scan \/ scan' = [scan EXCEPT ![c] = NoScan]
    BY <1>14 DEF SleepOn, ReEnter, BackToPolling, PollFault, Leave, LeaveFault
  <2>2. pc'[c] \notin {"scanning", "evicting", "scanned"}
    BY <1>0, <1>14 DEF SleepOn, ReEnter, BackToPolling, PollFault, Leave, LeaveFault, Goto
  <2> QED
    BY <1>12, <2>1, <2>2
<1> QED
  BY <1>9, <1>10, <1>11, <1>13, <1>14 DEF QueueStep

\* So does any other step.
LEMMA FrontLeftAlone ==
    ASSUME NEW P, RuntimeType(P), QueueInv, PlaceInv, FrontInv, NEW c, LineLeftAlone(c)
    PROVE  FrontInv'
<1>0. /\ scan \in [Call -> ScanType] /\ ahead \in [Call -> SUBSET Call]
      /\ deadline \in [Call -> Nat]
  BY DEF QueueInv, QueueType, ScanType
<1>1. \A d \in Call : StillAhead(d)' \subseteq StillAhead(d)
  <2> SUFFICES ASSUME NEW d \in Call, NEW e \in StillAhead(d)' PROVE e \in StillAhead(d)
    OBVIOUS
  <2>1. e \in ahead[d] /\ e \in queue /\ deadline'[e] >= Date(d)'
    BY DEF StillAhead, LineLeftAlone
  <2>2. e \in Call /\ deadline'[e] = deadline[e] /\ deadline[e] \in Nat
    BY <1>0, <2>1 DEF PlaceInv, Early, LineLeftAlone
  <2>3. Date(d) \in Nat /\ Date(d)' \in {Date(d), Date(d) + 1}
    BY QueueTimes, NumbersAssumption DEF LineLeftAlone, Date, RuntimeType
  <2> QED
    BY <2>1, <2>2, <2>3 DEF StillAhead
<1>2. ASSUME NEW d \in Call, pc'[d] \in {"scanning", "evicting", "scanned"}
      PROVE  pc'[d] = pc[d] /\ scan'[d] = scan[d]
  BY <1>0, <1>2 DEF LineLeftAlone, Elsewhere, QueuePlace, TurnPlace, Waiting
<1>3. ASSUME NEW d \in Call, NEW e \in scan'[d].live PROVE ticket'[e] # 0
  <2>1. e \in scan[d].live
    BY <1>0, <1>3 DEF LineLeftAlone, NoScan
  <2> QED
    BY <2>1 DEF FrontInv, LineLeftAlone
<1>4. ticket' = ticket
  BY DEF LineLeftAlone
<1> QED
  BY <1>1, <1>2, <1>3, <1>4 DEF FrontInv, Below

\* Nobody scans at the start.
LEMMA FrontStarts ==
    ASSUME RuntimeInit, QueueInit
    PROVE  FrontInv
<1>1. \A c \in Call : scan[c].live = {} /\ pc[c] = "idle"
  BY DEF RuntimeInit, QueueInit, NoScan
<1> QED
  BY <1>1 DEF FrontInv

=============================================================================
