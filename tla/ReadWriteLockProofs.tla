------------------------- MODULE ReadWriteLockProofs -------------------------
(* Theorems about ReadWriteLock for every instance of its constants: any    *)
(* number of readers and writers, clocks that differ, whatever fails.       *)
EXTENDS ReadWriteLock, TicketQueueProofs

RWPlace == RuntimePlace \cup QueuePlace \cup {"asking", "reading", "readasking", "unmarking"}

\* Only writers ask for the write lock, only readers for the read lock.
RolesKept ==
    \A c \in Call :
        /\ pc[c] = "asking" => c \in Writer
        /\ pc[c] \in {"reading", "readasking"} => c \in Reader

RWType ==
    /\ RuntimeType(RWPlace)
    /\ QueueInv
    /\ marker \in Nat /\ marked \subseteq Writer
    /\ stamp \in [Call -> Nat]
    /\ RolesKept

TimePasses == Tick(Ready) /\ UNCHANGED <<queueVars, marker, stamp, marked>>

\* The types hold at the start.
LEMMA InitType == Init => RWType
<1> SUFFICES ASSUME Init PROVE RWType
  OBVIOUS
<1>1. RuntimeType(RWPlace) /\ stamp \in [Call -> Nat] /\ marker \in Nat /\ marked = {}
  BY SetsAssumption DEF Init, RuntimeInit, RuntimeType, RWPlace, RuntimePlace, Outcome
<1>2. RolesKept
  BY DEF Init, RuntimeInit, RolesKept
<1> QED
  BY <1>1, <1>2, QueueStarts DEF Init, RWType

\* Readers and writers are different calls, and only writers queue.
LEMMA Roles == Ticketed = Writer /\ Reader \cap Writer = {} /\ Reader \cup Writer = Call
  BY ReadWriteAssumption DEF Reader, Writer

ReadStep(c) ==
    \/ ReadStart(c) \/ ReadTimesOut(c) \/ ReadAsk(c)
    \/ ReadAcquire(c) \/ ReadBlocked(c) \/ ReadFault(c)
WriteStep(c) ==
    \/ Mark(c) \/ MarkFault(c)
    \/ WriteAcquire(c) \/ WriteBlocked(c) \/ WriteFault(c)
    \/ Unmark(c) \/ UnmarkFault(c)

\* What the acquisition scripts do to the variables of the locks.
LEMMA ScriptTyped ==
    ASSUME RWType, NEW c \in Call, NEW n \in Nat
    PROVE  /\ \/ UNCHANGED holds
              \/ Sweep(Reader, stamp[c])
              \/ SweepAndHold(Reader, stamp[c], c, n)
              => lease' \in [Call -> Nat] /\ order' \in [Call -> Nat] /\ grants' \in Nat
  BY DEF RWType, RuntimeType, holds, Sweep, SweepAndHold

\* The steps of a reader on its way to the lock.
LEMMA ReadTyped ==
    ASSUME RWType, NEW c \in Call, ReadStep(c)
    PROVE  RWType'
<1>0. /\ RuntimeType(RWPlace) /\ stamp \in [Call -> Nat] /\ QueueInv
      /\ Date(c) \in Nat /\ \A n \in Nat : Later(n) \in Nat
      /\ stamp[c] + Ttl \in Nat /\ deadline \in [Call -> Nat]
  BY QueueTimes, NumbersAssumption DEF RWType, QueueInv, QueueType
<1>1. lease' \in [Call -> Nat] /\ order' \in [Call -> Nat] /\ grants' \in Nat
  <2>1. CASE ReadStart(c) \/ ReadTimesOut(c) \/ ReadAsk(c)
    BY <1>0, <2>1 DEF ReadStart, ReadTimesOut, ReadAsk, QueueRest, holds, RuntimeType
  <2>2. CASE ReadAcquire(c) \/ ReadBlocked(c) \/ ReadFault(c)
    BY <1>0, <2>2, ScriptTyped DEF ReadAcquire, ReadBlocked, ReadFault
  <2> QED
    BY <2>1, <2>2 DEF ReadStep
<1>2. RuntimeType(RWPlace)' /\ stamp' \in [Call -> Nat]
  <2> USE <1>0, <1>1, QueueAssumption
      DEF RuntimeType, RWPlace, RuntimePlace, QueueRest, clock, fences, timers, results,
          Works, Fault, Goto, Settle, Emit, Outcome, Event
  <2>1. CASE ReadStart(c)
    BY <2>1 DEF ReadStart
  <2>2. CASE ReadTimesOut(c)
    BY <2>2 DEF ReadTimesOut
  <2>3. CASE ReadAsk(c)
    BY <2>3 DEF ReadAsk
  <2>4. CASE ReadAcquire(c)
    BY <2>4 DEF ReadAcquire
  <2>5. CASE ReadBlocked(c)
    BY <2>5 DEF ReadBlocked, PollAgain
  <2>6. CASE ReadFault(c)
    <3>1. /\ stamp' = [stamp EXCEPT ![c] = 0] /\ outcome' = [outcome EXCEPT ![c] = "error"]
          /\ pc' = [pc EXCEPT ![c] = "done"] /\ faults' = faults + 1
          /\ UNCHANGED <<now, wake, fences, timers, emitted>>
      BY <2>6 DEF ReadFault
    <3> QED
      BY <3>1
  <2> QED
    BY <2>1, <2>2, <2>3, <2>4, <2>5, <2>6 DEF ReadStep
<1>3. /\ (pc[c] = "idle" /\ c \in Reader) \/ pc[c] \in {"reading", "readasking"}
      /\ \E p \in {"reading", "readasking", "granted", "done"} : pc' = [pc EXCEPT ![c] = p]
      /\ UNCHANGED <<tickets, ticket, queue, scan, ahead, marker, marked>>
      /\ deadline' = deadline \/ \E t \in Nat : deadline' = [deadline EXCEPT ![c] = t]
  <2>0. Date(c) + QueueTimeout \in Nat
    BY <1>0, QueueAssumption
  <2> USE <2>0 DEF Goto, queueVars, Reading
  <2>1. CASE ReadStart(c)
    BY <2>1 DEF ReadStart
  <2>2. CASE ReadTimesOut(c) \/ ReadAsk(c)
    BY <2>2 DEF ReadTimesOut, ReadAsk
  <2>3. CASE ReadAcquire(c) \/ ReadBlocked(c) \/ ReadFault(c)
    BY <2>3 DEF ReadAcquire, ReadBlocked, ReadFault
  <2> QED
    BY <2>1, <2>2, <2>3 DEF ReadStep
<1>4. c \in Reader /\ c \notin Ticketed
  BY <1>3, Roles DEF RWType, RolesKept
<1>5. QueueInv'
  <2>1. \A d \in Call : Elsewhere(d)
    BY <1>0, <1>3, <1>4 DEF RuntimeType, Elsewhere, TurnPlace, QueuePlace
  <2>2. deadline' \in [Call -> Nat]
    BY <1>0, <1>3
  <2> QED
    BY <1>0, <1>3, <2>1, <2>2, QueueLeftAlone
<1>6. RolesKept'
  BY <1>0, <1>3, <1>4 DEF RuntimeType, RWType, RolesKept, Writer, Reader
<1> QED
  BY <1>2, <1>3, <1>5, <1>6 DEF RWType, Writer

\* Those of a writer at the front of the queue.
LEMMA WriteTyped ==
    ASSUME RWType, NEW c \in Call, WriteStep(c)
    PROVE  RWType'
<1>0. /\ RuntimeType(RWPlace) /\ stamp \in [Call -> Nat] /\ QueueInv
      /\ Date(c) \in Nat /\ \A n \in Nat : Later(n) \in Nat
      /\ now + Ttl \in Nat /\ now + MarkerTtl \in Nat /\ marker \in Nat
      /\ deadline \in [Call -> Nat]
  <2>1. /\ RuntimeType(RWPlace) /\ stamp \in [Call -> Nat] /\ QueueInv /\ marker \in Nat
    BY DEF RWType
  <2>2. Date(c) \in Nat /\ \A n \in Nat : Later(n) \in Nat
    BY <2>1, QueueTimes
  <2>3. now \in Nat /\ Ttl \in Nat /\ MarkerTtl \in Nat
    BY <2>1, NumbersAssumption, ReadWriteAssumption DEF RuntimeType
  <2>4. deadline \in [Call -> Nat]
    BY <2>1 DEF QueueInv, QueueType
  <2> QED
    BY <2>1, <2>2, <2>3, <2>4
<1>1. lease' \in [Call -> Nat] /\ order' \in [Call -> Nat] /\ grants' \in Nat
  <2>1. CASE Mark(c) \/ MarkFault(c) \/ Unmark(c) \/ UnmarkFault(c)
    BY <1>0, <2>1 DEF Mark, MarkFault, Unmark, UnmarkFault, QueueRest, holds, RuntimeType
  <2>2. CASE WriteAcquire(c) \/ WriteBlocked(c) \/ WriteFault(c)
    BY <1>0, <2>2, ScriptTyped DEF WriteAcquire, WriteBlocked, WriteFault
  <2> QED
    BY <2>1, <2>2 DEF WriteStep
<1>2. RuntimeType(RWPlace)' /\ stamp' \in [Call -> Nat] /\ marker' \in Nat
  <2> USE <1>0, <1>1, QueueAssumption
      DEF RuntimeType, RWPlace, RuntimePlace, QueuePlace, QueueRest, clock, fences, timers, results,
          Works, Fault, Goto, Settle, Emit, Outcome, Event
  <2>1. CASE Mark(c)
    BY <2>1 DEF Mark
  <2>2. CASE MarkFault(c)
    BY <2>2 DEF MarkFault
  <2>3. CASE WriteAcquire(c)
    BY <2>3 DEF WriteAcquire
  <2>4. CASE WriteBlocked(c)
    BY <2>4 DEF WriteBlocked, PollAgain
  <2>5. CASE WriteFault(c)
    <3>1. /\ stamp' = [stamp EXCEPT ![c] = 0] /\ outcome' = [outcome EXCEPT ![c] = "error"]
          /\ pc' = [pc EXCEPT ![c] = "leaving"] /\ faults' = faults + 1
          /\ UNCHANGED <<now, wake, fences, timers, emitted, marker>>
      BY <2>5 DEF WriteFault
    <3> QED
      BY <3>1
  <2>6. CASE Unmark(c) \/ UnmarkFault(c)
    BY <2>6 DEF Unmark, UnmarkFault
  <2> QED
    BY <2>1, <2>2, <2>3, <2>4, <2>5, <2>6 DEF WriteStep
<1>3. /\ pc[c] \in {"scanned", "asking", "unmarking"}
      /\ \E p \in {"asking", "granted", "polling", "leaving", "done"} :
            /\ pc' = [pc EXCEPT ![c] = p]
            /\ p \in {"asking", "polling"} => pc[c] \in {"scanned", "asking"}
      /\ UNCHANGED <<tickets, ticket, queue, ahead, deadline>>
      /\ scan' = scan \/ scan' = [scan EXCEPT ![c] = NoScan]
      /\ marked' = marked \/ (pc[c] = "scanned" /\ marked' = marked \cup {c})
  <2> USE DEF Goto, queueVars, Admitted
  <2>1. CASE Mark(c) \/ MarkFault(c)
    BY <2>1 DEF Mark, MarkFault
  <2>2. CASE WriteAcquire(c) \/ WriteBlocked(c) \/ WriteFault(c)
    BY <2>2 DEF WriteAcquire, WriteBlocked, WriteFault
  <2>3. CASE Unmark(c) \/ UnmarkFault(c)
    BY <2>3 DEF Unmark, UnmarkFault
  <2> QED
    BY <2>1, <2>2, <2>3 DEF WriteStep
<1>4. pc[c] \in {"scanned", "asking"} => c \in Writer /\ c \in Ticketed
  BY <1>0, Roles DEF RWType, RolesKept, QueueInv, TicketsDrawn, QueuePlace
<1>5. QueueInv'
  <2>1. \A d \in Call : Elsewhere(d)
    BY <1>0, <1>3, <1>4 DEF RuntimeType, Elsewhere, InLine, Waiting, TurnPlace, QueuePlace
  <2> QED
    BY <1>0, <1>3, <2>1, QueueLeftAlone
<1>6. RolesKept'
  BY <1>0, <1>3, <1>4 DEF RuntimeType, RWType, RolesKept, Writer, Reader
<1> QED
  BY <1>2, <1>3, <1>4, <1>5, <1>6 DEF RWType, Writer

\* One case per group of actions of the specification.
LEMMA StepTyped ==
    ASSUME RWType, [Next]_rwVars
    PROVE  RWType'
<1>0. /\ RuntimeType(RWPlace) /\ QueueInv /\ stamp \in [Call -> Nat]
      /\ marker \in Nat /\ marked \subseteq Writer /\ RolesKept
      /\ pc \in [Call -> RWPlace]
  BY DEF RWType, RuntimeType
<1>1. ASSUME NEW c \in Call, QueueStep(c), UNCHANGED <<marker, stamp, marked>> PROVE RWType'
  <2>1. QueuePlace \cup {"leaving", "done", "unmarking"} \subseteq RWPlace
    BY DEF RWPlace, RuntimePlace
  <2>2. RuntimeType(RWPlace)'
    BY <1>0, <1>1, <2>1, QueueRuntimeTyped
  <2>3. QueueInv'
    BY <1>0, <1>1, QueueKept
  <2>4. QueueGoes(c) /\ pc' = [pc EXCEPT ![c] = pc'[c]]
    BY <1>0, <1>1, QueuePlaces
  <2>5. RolesKept'
    BY <1>0, <2>4 DEF RolesKept, QueueGoes, QueuePlace, Writer, Reader
  <2> QED
    BY <1>0, <1>1, <2>2, <2>3, <2>5 DEF RWType, Writer
<1>2. ASSUME NEW c \in Call, RuntimeStep(c), UNCHANGED <<queueVars, marker, stamp, marked>>
      PROVE  RWType'
  <2>1. RuntimeType(RWPlace)'
    BY <1>0, <1>2, RuntimeTyped DEF RWPlace
  <2>2. \A d \in Call : pc'[d] = pc[d] \/ pc'[d] \in AfterGrant
    BY <1>0, <1>2, RuntimePlaces
  <2>3. \A d \in Call : Elsewhere(d)
    BY <2>2 DEF Elsewhere, AfterGrant, QueuePlace, TurnPlace
  <2>4. deadline' \in [Call -> Nat]
    BY <1>0, <1>2 DEF QueueInv, QueueType, queueVars
  <2>5. QueueInv'
    BY <1>0, <1>2, <2>3, <2>4, QueueLeftAlone DEF queueVars
  <2>6. RolesKept'
    BY <1>0, <2>2 DEF RolesKept, AfterGrant, Writer, Reader
  <2> QED
    BY <1>0, <1>2, <2>1, <2>5, <2>6 DEF RWType, Writer
<1>3. CASE UNCHANGED <<queueVars, marker, stamp, marked, pc>> /\ RuntimeType(RWPlace)'
  <2>1. QueueInv'
    BY <1>0, <1>3 DEF QueueInv, QueueType, QueueFinite, TicketsDrawn, HasEntry, queueVars
  <2> QED
    BY <1>0, <1>3, <2>1 DEF RWType, RolesKept, Writer, Reader
<1>4. CASE TimePasses
  <2>1. RuntimeType(RWPlace)' /\ pc' = pc
    BY <1>0, <1>4, TickTyped DEF TimePasses, Tick
  <2> QED
    BY <1>3, <1>4, <2>1 DEF TimePasses
<1>5. CASE UNCHANGED rwVars
  <2>1. RuntimeType(RWPlace)'
    BY <1>0, <1>5
    DEF rwVars, runtimeVars, RuntimeType, clock, holds, fences, timers, results
  <2> QED
    BY <1>3, <1>5, <2>1 DEF rwVars, runtimeVars
<1> QED
  BY <1>1, <1>2, <1>4, <1>5, ReadTyped, WriteTyped
  DEF Next, RWStep, ReadStep, WriteStep, Terminated, TimePasses

\* Every variable keeps its type, tickets stay distinct, no scan lets more calls
\* to the front than its limit, and only writers ever set the marker.
THEOREM TypeCorrect == Spec => []TypeOK
<1>1. Init => RWType
  BY InitType
<1>2. RWType /\ [Next]_rwVars => RWType'
  BY StepTyped
<1>3. RWType => TypeOK
  BY DEF RWType, QueueInv, TypeOK, RWPlace
<1> QED
  BY <1>1, <1>2, <1>3, PTL DEF Spec

-----------------------------------------------------------------------------
(* What any step does to the locks.                                        *)

Swept(c) == lease' = [d \in Call |-> IF d \in Expired(Reader, stamp[c]) THEN 0 ELSE lease[d]]
SweptFor(c, n) ==
    lease' = [d \in Call |-> IF d = c THEN n
                             ELSE IF d \in Expired(Reader, stamp[c]) THEN 0 ELSE lease[d]]

LeasesStep ==
    \/ lease' = lease
    \/ \E c \in Call :
        \/ LeaseRenewed(c) \/ LeaseDropped(c) \/ Swept(c)
        \/ /\ pc[c] = "readasking" /\ ReadersMayEnter
           /\ now' = now /\ SweptFor(c, stamp[c] + Ttl)
        \/ /\ pc[c] = "asking" /\ WriterMayEnter(c)
           /\ now' = now /\ SweptFor(c, now + Ttl)

\* The clock does not go back, and only the two acquisition scripts give a lock
\* to a call that has none.
LEMMA StepLeases ==
    ASSUME RuntimeType(RWPlace), [Next]_rwVars
    PROVE  now' \in {now, now + 1} /\ LeasesStep
<1> USE DEF clock, holds, Works, Fault, LeasesStep
<1>1. ASSUME NEW c \in Call, QueueStep(c) PROVE now' = now /\ lease' = lease
  BY <1>1, QueueLeases
<1>2. ASSUME NEW c \in Call, RuntimeStep(c) PROVE now' = now /\ LeasesStep
  BY <1>2, RuntimeLeases
<1>3. ASSUME NEW c \in Call, ReadStart(c) \/ ReadTimesOut(c) \/ ReadAsk(c)
      PROVE  now' = now /\ lease' = lease
  BY <1>3 DEF ReadStart, ReadTimesOut, ReadAsk, QueueRest
<1>4. ASSUME NEW c \in Call, Mark(c) \/ MarkFault(c) \/ Unmark(c) \/ UnmarkFault(c)
      PROVE  now' = now /\ lease' = lease
  BY <1>4 DEF Mark, MarkFault, Unmark, UnmarkFault, QueueRest
<1>5. ASSUME NEW c \in Call, ReadAcquire(c) \/ ReadBlocked(c)
      PROVE  now' = now /\ LeasesStep
  BY <1>5 DEF ReadAcquire, ReadBlocked, Sweep, SweepAndHold, Swept, SweptFor
<1>6. ASSUME NEW c \in Call, ReadFault(c) PROVE now' = now /\ LeasesStep
  <2>1. pc[c] = "readasking" /\ now' = now
    BY <1>6 DEF ReadFault
  <2>2. lease' = lease \/ Swept(c) \/ (ReadersMayEnter /\ SweptFor(c, stamp[c] + Ttl))
    BY <1>6 DEF ReadFault, Sweep, SweepAndHold, Swept, SweptFor
  <2> QED
    BY <2>1, <2>2
<1>7. ASSUME NEW c \in Call, WriteAcquire(c) \/ WriteBlocked(c)
      PROVE  now' = now /\ LeasesStep
  BY <1>7 DEF WriteAcquire, WriteBlocked, Sweep, SweepAndHold, Swept, SweptFor
<1>8. ASSUME NEW c \in Call, WriteFault(c) PROVE now' = now /\ LeasesStep
  <2>1. pc[c] = "asking" /\ now' = now
    BY <1>8 DEF WriteFault
  <2>2. lease' = lease \/ Swept(c) \/ (WriterMayEnter(c) /\ SweptFor(c, now + Ttl))
    BY <1>8 DEF WriteFault, Sweep, SweepAndHold, Swept, SweptFor
  <2> QED
    BY <2>1, <2>2
<1>9. CASE TimePasses
  BY <1>9 DEF TimePasses, Tick
<1>10. CASE UNCHANGED rwVars
  BY <1>10 DEF rwVars, runtimeVars
<1> QED
  BY <1>1, <1>2, <1>3, <1>4, <1>5, <1>6, <1>7, <1>8, <1>9, <1>10
  DEF Next, RWStep, Terminated, TimePasses

Trying == QueuePlace \cup {"idle", "asking", "reading", "readasking"}

\* A call that stops trying never tries again.
LEMMA StepPlaces ==
    ASSUME RuntimeType(RWPlace), [Next]_rwVars
    PROVE  \A d \in Call : pc'[d] \in Trying => pc[d] \in Trying
<1> USE DEF RuntimeType, Trying
<1>1. ASSUME NEW c \in Call, QueueStep(c)
      PROVE  \A d \in Call : pc'[d] \in Trying => pc[d] \in Trying
  BY <1>1, QueuePlaces DEF QueueGoes, QueuePlace
<1>2. ASSUME NEW c \in Call, RuntimeStep(c)
      PROVE  \A d \in Call : pc'[d] \in Trying => pc[d] \in Trying
  BY <1>2, RuntimePlaces DEF AfterGrant, QueuePlace
<1>3. ASSUME NEW c \in Call, ReadStep(c)
      PROVE  \A d \in Call : pc'[d] \in Trying => pc[d] \in Trying
  BY <1>3 DEF ReadStep, ReadStart, ReadTimesOut, ReadAsk, ReadAcquire, ReadBlocked, ReadFault,
     Reading, Goto, QueuePlace
<1>4. ASSUME NEW c \in Call, WriteStep(c)
      PROVE  \A d \in Call : pc'[d] \in Trying => pc[d] \in Trying
  BY <1>4 DEF WriteStep, Mark, MarkFault, WriteAcquire, WriteBlocked, WriteFault, Unmark,
     UnmarkFault, Admitted, Goto, QueuePlace
<1>5. CASE TimePasses \/ UNCHANGED rwVars
  BY <1>5 DEF TimePasses, Tick, rwVars, runtimeVars
<1> QED
  BY <1>1, <1>2, <1>3, <1>4, <1>5
  DEF Next, RWStep, ReadStep, WriteStep, Terminated, TimePasses

-----------------------------------------------------------------------------
(* Readers together, or one writer alone.                                  *)

Holders == {c \in Call : Held(c)}
Alone == \A w \in Writer : Held(w) => Holders = {w}
SharedInv == RWType /\ Alone

HoldersStep ==
    \/ Holders' \subseteq Holders
    \/ \E r \in Reader : pc[r] = "readasking" /\ ~WriterExists /\ Holders' \subseteq Holders \cup {r}
    \/ \E w \in Writer : pc[w] = "asking" /\ Holders' = {w}

\* A reader joins when no writer holds the lock; a writer takes it when every
\* reader has expired by its own clock, which sweeps them out.
LEMMA StepHolders ==
    ASSUME RWType, [Next]_rwVars
    PROVE  HoldersStep
<1>0. /\ lease \in [Call -> Nat] /\ stamp \in [Call -> Nat] /\ sent \in [Call -> Nat]
      /\ now \in Nat \ {0} /\ now' \in {now, now + 1}
      /\ Ttl \in Nat \ {0} /\ RolesKept
  BY StepLeases, NumbersAssumption DEF RWType, RuntimeType
<1>1. \A d \in Call : lease'[d] \in {0, lease[d]} /\ Held(d)' => Held(d)
  BY <1>0 DEF Held
<1>2. LeasesStep
  BY StepLeases DEF RWType
<1>3. CASE lease' = lease
  BY <1>0, <1>1, <1>3 DEF HoldersStep, Holders
<1>4. ASSUME NEW c \in Call, LeaseRenewed(c) \/ LeaseDropped(c) \/ Swept(c) PROVE HoldersStep
  <2>1. \A d \in Call : Held(d)' => Held(d)
    BY <1>0, <1>1, <1>4 DEF LeaseRenewed, LeaseDropped, Swept
  <2> QED
    BY <2>1 DEF HoldersStep, Holders
<1>5. ASSUME NEW c \in Call, pc[c] = "readasking", ReadersMayEnter, SweptFor(c, stamp[c] + Ttl)
      PROVE  HoldersStep
  <2>1. \A d \in Call \ {c} : Held(d)' => Held(d)
    BY <1>0, <1>1, <1>5 DEF SweptFor
  <2>2. c \in Reader /\ ~WriterExists
    BY <1>0, <1>5 DEF RolesKept, ReadersMayEnter
  <2> QED
    BY <1>5, <2>1, <2>2 DEF HoldersStep, Holders
<1>6. ASSUME NEW c \in Call, pc[c] = "asking", WriterMayEnter(c), now' = now,
             SweptFor(c, now + Ttl)
      PROVE  HoldersStep
  <2>1. c \in Writer /\ Readers \subseteq Expired(Reader, stamp[c]) /\ ~WriterExists
    BY <1>0, <1>6 DEF RolesKept, WriterMayEnter, Drained
  <2>2. \A d \in Call \ {c} : ~Held(d)'
    <3> SUFFICES ASSUME NEW d \in Call \ {c}, Held(d)' PROVE FALSE
      OBVIOUS
    <3>1. Held(d) /\ d \notin Expired(Reader, stamp[c])
      BY <1>0, <1>1, <1>6 DEF SweptFor, Held
    <3>2. d \in Reader
      BY <2>1, <3>1, Roles DEF WriterExists
    <3> QED
      BY <2>1, <3>1, <3>2 DEF Readers
  <2>3. Held(c)'
    BY <1>0, <1>6 DEF SweptFor, Held
  <2> QED
    BY <1>6, <2>1, <2>2, <2>3 DEF HoldersStep, Holders
<1> QED
  BY <1>2, <1>3, <1>4, <1>5, <1>6 DEF LeasesStep

\* A writer that holds the lock holds it alone.
LEMMA AloneKept == SharedInv /\ [Next]_rwVars => SharedInv'
<1> SUFFICES ASSUME SharedInv, [Next]_rwVars PROVE SharedInv'
  OBVIOUS
<1>1. RWType /\ RWType' /\ HoldersStep /\ Alone
  BY StepTyped, StepHolders DEF SharedInv
<1>2. Writer' = Writer /\ Reader' = Reader /\ Writer \subseteq Call /\ Reader \cap Writer = {}
  BY Roles DEF Writer, Reader
<1>3. \A w \in Writer : Held(w)' <=> w \in Holders'
  BY <1>2 DEF Holders
<1>4. \A w \in Writer : w \in Holders' => Holders' = {w}
  <2>1. CASE Holders' \subseteq Holders
    BY <1>1, <1>2, <2>1 DEF Alone, Holders
  <2>2. CASE \E r \in Reader : ~WriterExists /\ Holders' \subseteq Holders \cup {r}
    BY <1>2, <2>2 DEF WriterExists, Holders
  <2>3. CASE \E w \in Writer : Holders' = {w}
    BY <2>3
  <2> QED
    BY <1>1, <2>1, <2>2, <2>3 DEF HoldersStep
<1> QED
  BY <1>1, <1>2, <1>3, <1>4 DEF SharedInv, Alone

\* The lock implements the abstract admission: readers together or one writer
\* alone, whatever is swept, lost or late, and nobody holds it again who has
\* been refused or has released it.
THEOREM Refinement == Spec => ImplementsAdmission
<1> DEFINE shut == {c \in Call : pc[c] \notin Trying}
<1>1. Init => Abstract!Init
  BY DEF Init, RuntimeInit, Abstract!Init, Held
<1>2. Init => SharedInv
  BY InitType DEF Init, RuntimeInit, SharedInv, Alone, Held, Writer
<1>3. SharedInv /\ SharedInv' /\ [Next]_rwVars => [Abstract!Next]_<<Holders, shut>>
  <2> SUFFICES ASSUME SharedInv, SharedInv', [Next]_rwVars
               PROVE  Abstract!Next
    BY DEF Trying, Holders
  <2>1. shut \subseteq shut'
    BY StepPlaces DEF SharedInv, RWType
  <2>2. HoldersStep
    BY StepHolders DEF SharedInv
  <2>3. Holders' \subseteq Reader \/ Cardinality(Holders') = 1
    <3>1. CASE \E w \in Writer : Held(w)'
      <4>1. PICK w \in Writer : Holders' = {w}
        BY <3>1 DEF SharedInv, Alone, Writer
      <4> QED
        BY <4>1, FS_Singleton
    <3>2. CASE \A w \in Writer : ~Held(w)'
      BY <3>2, Roles DEF Holders
    <3> QED
      BY <3>1, <3>2
  <2>4. Abstract!Leave \/ Abstract!Admit
    BY <2>2, <2>3 DEF HoldersStep, Holders, Abstract!Leave, Abstract!Admit, Trying, QueuePlace
  <2> QED
    BY <2>1, <2>4 DEF Abstract!Next, Trying, Holders
<1> QED
  BY <1>1, <1>2, <1>3, AloneKept, PTL DEF Spec, ImplementsAdmission, Abstract!Spec, Trying, Holders

-----------------------------------------------------------------------------
(* A writer without rivals gets its turn.  From the moment it has set the   *)
(* marker no reader comes in, since it sets the marker again on every poll, *)
(* before the last one expires; so it waits for the locks that were there,  *)
(* none of which outlives the TTL, and for the poll after that.             *)

OneWriter == \A v, w \in Writer : v = w
ReadersEnd == Reader \cap AutoExtend = {}

\* By the writer's clock, the TTL of a reader and a poll fit into the timeout.
TimeToDrain ==
    \A r \in Call, w \in Writer :
        Ttl + PollDelay + PollJitter + Skew[r] <= QueueTimeout + Skew[w]

ReadersInv ==
    \A r \in Reader :
        /\ due[r] = 0 /\ sent[r] = 0 /\ pc[r] # "unmarking"
        /\ stamp[r] <= Date(r) /\ lease[r] <= Date(r) + Ttl

Joining == {"joining", "enqueuing"}
Urging == Waiting \cup {"asking"}

\* Where the writer is in its wait, and until when.
FirstPoll(w) ==
    pc[w] \in Joining \cup Waiting /\ w \notin marked
        => deadline[w] = Date(w) + QueueTimeout /\ wake[w] = 0
MarkerLasts(w) ==
    pc[w] \in Waiting /\ w \in marked =>
        now <= wake[w] /\ wake[w] < marker /\ wake[w] + Skew[w] < deadline[w]
MarkerFresh(w) ==
    pc[w] = "asking" => w \in marked /\ stamp[w] = Date(w) /\ marker = now + MarkerTtl
ReadersDrain(w) ==
    pc[w] \in Urging /\ w \in marked =>
        \A r \in Readers : lease[r] + QueueTimeout + Skew[w] <= deadline[w] + Skew[r] + Ttl

\* Its scan finds nobody else.
ScansAlone(w) ==
    /\ pc[w] \in Urging => w \in queue
    /\ pc[w] # "evicting"
    /\ pc[w] = "scanning" => /\ scan[w].start = 0 /\ scan[w].live = {} /\ scan[w].pushed = 0
                             /\ scan[w].at <= deadline[w]
    /\ pc[w] = "scanned" => scan[w].live = {w}

Unmarked(w) == pc[w] \in Early => wake[w] = 0 /\ w \notin marked
HoldsNothing(w) == pc[w] \in Early \cup Urging => lease[w] = 0
RefusedLater(w) == outcome[w] = "refused" => "acquired" \in emitted[w]

WriterInv(w) ==
    /\ FirstPoll(w) /\ MarkerLasts(w) /\ MarkerFresh(w) /\ ReadersDrain(w)
    /\ ScansAlone(w) /\ Unmarked(w) /\ HoldsNothing(w) /\ RefusedLater(w)
WaitInv ==
    /\ RWType /\ ReadersInv /\ now <= MaxTime
    /\ queue \subseteq Writer
    /\ \A w \in Writer : WriterInv(w)

\* The interval of a call that does not extend its lock never starts.
LEMMA NeverExtends ==
    ASSUME RuntimeType(RWPlace), [Next]_rwVars, NEW r \in Call, r \notin AutoExtend,
           due[r] = 0, sent[r] = 0
    PROVE  due'[r] = 0 /\ sent'[r] = 0
<1> USE DEF RuntimeType, timers, StopTimer
<1>1. ASSUME NEW c \in Call, QueueStep(c) PROVE UNCHANGED timers
  BY <1>1, QueueLeases
<1>2. ASSUME NEW c \in Call, ReadStep(c) \/ WriteStep(c) PROVE UNCHANGED timers
  BY <1>2 DEF ReadStep, ReadStart, ReadTimesOut, ReadAsk, ReadAcquire, ReadBlocked, ReadFault,
     WriteStep, Mark, MarkFault, WriteAcquire, WriteBlocked, WriteFault, Unmark, UnmarkFault,
     QueueRest
<1>3. ASSUME NEW c \in Call, RuntimeStep(c) PROVE due'[r] = 0 /\ sent'[r] = 0
  <2>1. CASE Begin(c) \/ BeginThrows(c) \/ IncrFence(c) \/ PexpireFence(c) \/ FenceFault(c)
    BY <2>1 DEF Begin, BeginThrows, IncrFence, PexpireFence, FenceFault
  <2>2. CASE CallbackEnds(c) \/ Release(c) \/ ReleaseFault(c) \/ Crash(c)
    BY <2>2 DEF CallbackEnds, Release, ReleaseFault, Crash
  <2>3. CASE ExtendFire(c)
    BY <2>3 DEF ExtendFire
  <2>4. CASE ExtendLands(c) \/ ExtendRefused(c) \/ ExtendFault(c)
    BY <2>4 DEF ExtendLands, ExtendRefused, ExtendFault, ExtendInFlight, ExtensionLost
  <2> QED
    BY <1>3, <2>1, <2>2, <2>3, <2>4 DEF RuntimeStep
<1>4. CASE TimePasses \/ UNCHANGED rwVars
  BY <1>4 DEF TimePasses, Tick, rwVars, runtimeVars
<1> QED
  BY <1>1, <1>2, <1>3, <1>4 DEF Next, RWStep, ReadStep, WriteStep, Terminated, TimePasses

\* The instant sent with an acquisition script is the client's at that moment.
LEMMA StepStamps ==
    ASSUME RWType, [Next]_rwVars, NEW d \in Call
    PROVE  /\ now' \in {now, now + 1}
           /\ stamp'[d] \in {0, stamp[d]} \/ (stamp'[d] = Date(d) /\ now' = now)
<1>0. RuntimeType(RWPlace) /\ stamp \in [Call -> Nat]
  BY DEF RWType
<1>1. now' \in {now, now + 1}
  BY <1>0, StepLeases
<1>2. ASSUME NEW c \in Call, ReadStep(c) \/ WriteStep(c)
      PROVE  stamp'[d] \in {0, stamp[d]} \/ (stamp'[d] = Date(d) /\ now' = now)
  <2>1. CASE ReadStart(c) \/ ReadTimesOut(c) \/ ReadAsk(c)
    BY <1>0, <2>1 DEF ReadStart, ReadTimesOut, ReadAsk, Works, clock
  <2>2. CASE ReadAcquire(c) \/ ReadBlocked(c) \/ ReadFault(c)
    BY <1>0, <2>2 DEF ReadAcquire, ReadBlocked, ReadFault
  <2>3. CASE Mark(c) \/ MarkFault(c) \/ Unmark(c) \/ UnmarkFault(c)
    BY <1>0, <2>3 DEF Mark, MarkFault, Unmark, UnmarkFault, Works, clock
  <2>4. CASE WriteAcquire(c) \/ WriteBlocked(c) \/ WriteFault(c)
    BY <1>0, <2>4 DEF WriteAcquire, WriteBlocked, WriteFault
  <2> QED
    BY <1>2, <2>1, <2>2, <2>3, <2>4 DEF ReadStep, WriteStep
<1>3. CASE stamp' = stamp
  BY <1>1, <1>3
<1> QED
  BY <1>1, <1>2, <1>3
  DEF Next, RWStep, ReadStep, WriteStep, Terminated, TimePasses, rwVars, runtimeVars

\* Only a writer comes to the end of the outer finally.
LEMMA StepUnmarks ==
    ASSUME RWType, [Next]_rwVars, NEW r \in Reader, pc'[r] = "unmarking"
    PROVE  pc[r] = "unmarking"
<1>0. RuntimeType(RWPlace) /\ pc \in [Call -> RWPlace] /\ r \in Call /\ HandleOf[r] # "writer"
  BY DEF RWType, RuntimeType, Reader
<1>1. ASSUME NEW c \in Call, QueueStep(c) PROVE pc[r] = "unmarking"
  BY <1>0, <1>1, QueuePlaces DEF QueueGoes, QueuePlace
<1>2. ASSUME NEW c \in Call, RuntimeStep(c) PROVE pc[r] = "unmarking"
  BY <1>0, <1>2, RuntimePlaces DEF AfterGrant
<1>3. ASSUME NEW c \in Call, ReadStep(c) \/ WriteStep(c) PROVE pc[r] = "unmarking"
  BY <1>0, <1>3 DEF ReadStep, ReadStart, ReadTimesOut, ReadAsk, ReadAcquire, ReadBlocked,
     ReadFault, WriteStep, Mark, MarkFault, WriteAcquire, WriteBlocked, WriteFault, Unmark,
     UnmarkFault, Goto
<1>4. CASE TimePasses \/ UNCHANGED rwVars
  BY <1>4 DEF TimePasses, Tick, rwVars, runtimeVars
<1> QED
  BY <1>1, <1>2, <1>3, <1>4 DEF Next, RWStep, ReadStep, WriteStep, Terminated, TimePasses

\* What a step does to the lock of a reader that does not extend it: drop it, or
\* grant it when neither a writer nor a marker is there, for a TTL at most.
LEMMA StepReads ==
    ASSUME RWType, ReadersInv, [Next]_rwVars, NEW r \in Reader
    PROVE  \/ lease'[r] \in {0, lease[r]}
           \/ ReadersMayEnter /\ lease'[r] <= Date(r) + Ttl /\ now' = now
<1>0. /\ lease \in [Call -> Nat] /\ stamp \in [Call -> Nat] /\ r \in Call
      /\ sent[r] = 0 /\ stamp[r] <= Date(r) /\ Date(r) \in Nat /\ Ttl \in Nat
      /\ RolesKept /\ LeasesStep
  BY StepLeases, NumbersAssumption, QueueTimes DEF RWType, RuntimeType, ReadersInv, Reader
<1>1. CASE lease' = lease
  BY <1>1
<1>2. ASSUME NEW c \in Call, LeaseRenewed(c) \/ LeaseDropped(c) \/ Swept(c)
      PROVE  lease'[r] \in {0, lease[r]}
  BY <1>0, <1>2 DEF LeaseRenewed, LeaseDropped, Swept
<1>3. ASSUME NEW c \in Call, pc[c] = "readasking", ReadersMayEnter, now' = now,
             SweptFor(c, stamp[c] + Ttl)
      PROVE  lease'[r] \in {0, lease[r]} \/ lease'[r] <= Date(r) + Ttl
  BY <1>0, <1>3 DEF SweptFor
<1>4. ASSUME NEW c \in Call, pc[c] = "asking", SweptFor(c, now + Ttl)
      PROVE  lease'[r] \in {0, lease[r]}
  <2>1. c # r
    BY <1>0, <1>4, Roles DEF RolesKept
  <2> QED
    BY <1>0, <1>4, <2>1 DEF SweptFor
<1> QED
  BY <1>0, <1>1, <1>2, <1>3, <1>4 DEF LeasesStep

\* A reader's lock is over a TTL after now, at the latest.
LEMMA ReadersKept ==
    ASSUME ReadersEnd, RWType, ReadersInv, [Next]_rwVars
    PROVE  ReadersInv'
<1> SUFFICES ASSUME NEW r \in Reader
             PROVE  /\ due'[r] = 0 /\ sent'[r] = 0 /\ pc'[r] # "unmarking"
                    /\ stamp'[r] <= Date(r)' /\ lease'[r] <= Date(r)' + Ttl
  BY DEF ReadersInv, Reader
<1>0. /\ RuntimeType(RWPlace) /\ r \in Call /\ r \notin AutoExtend
      /\ due[r] = 0 /\ sent[r] = 0 /\ pc[r] # "unmarking"
      /\ stamp[r] <= Date(r) /\ lease[r] <= Date(r) + Ttl
  BY DEF RWType, ReadersInv, ReadersEnd, Reader
<1>1. due'[r] = 0 /\ sent'[r] = 0 /\ pc'[r] # "unmarking"
  BY <1>0, NeverExtends, StepUnmarks
<1>2. /\ Date(r)' \in {Date(r), Date(r) + 1} /\ Date(r) \in Nat /\ Ttl \in Nat
      /\ now' = now => Date(r)' = Date(r)
  BY <1>0, StepStamps, NumbersAssumption, QueueTimes DEF Date, RuntimeType
<1>3. stamp'[r] <= Date(r)'
  BY <1>0, <1>2, StepStamps DEF RWType
<1>4. lease'[r] <= Date(r)' + Ttl
  BY <1>0, <1>2, StepReads DEF RuntimeType
<1> QED
  BY <1>1, <1>3, <1>4

-----------------------------------------------------------------------------
(* The steps of the readers, then those of the writer.                     *)

Apart(w) ==
    /\ pc'[w] = pc[w] /\ wake'[w] = wake[w] /\ stamp'[w] = stamp[w]
    /\ deadline'[w] = deadline[w] /\ scan'[w] = scan[w]
    /\ outcome'[w] = outcome[w] /\ emitted[w] \subseteq emitted'[w]
    /\ lease[w] = 0 => lease'[w] = 0
    /\ w \in queue => w \in queue'
    /\ UNCHANGED <<marker, marked>>

Acts(c) ==
    \/ ReadStep(c) \/ WriteStep(c)
    \/ QueueStep(c) /\ UNCHANGED <<marker, stamp, marked>>
    \/ RuntimeStep(c) /\ UNCHANGED <<queueVars, marker, stamp, marked>>

\* A step of the runtime touches the variables of its own call.
LEMMA RuntimeIsLocal ==
    ASSUME RuntimeType(RWPlace), NEW c \in Call, RuntimeStep(c)
    PROVE  /\ wake' = wake
           /\ \A d \in Call \ {c} :
                pc'[d] = pc[d] /\ outcome'[d] = outcome[d] /\ emitted'[d] = emitted[d]
           /\ emitted[c] \subseteq emitted'[c]
           /\ outcome'[c] = "refused" => outcome[c] = "refused" \/ "acquired" \in emitted'[c]
<1> USE DEF RuntimeType, results, Goto, Exit, Emit, Settle
<1>1. CASE Begin(c) \/ BeginThrows(c) \/ IncrFence(c) \/ PexpireFence(c) \/ FenceFault(c)
  BY <1>1 DEF Begin, BeginThrows, IncrFence, PexpireFence, FenceFault, TokenLost
<1>2. CASE CallbackEnds(c) \/ Release(c) \/ ReleaseFault(c) \/ Crash(c)
  BY <1>2 DEF CallbackEnds, Release, ReleaseFault, Crash
<1>3. CASE ExtendFire(c) \/ ExtendLands(c) \/ ExtendRefused(c) \/ ExtendFault(c)
  BY <1>3 DEF ExtendFire, ExtendLands, ExtendRefused, ExtendFault, ExtensionLost
<1> QED
  BY <1>1, <1>2, <1>3 DEF RuntimeStep

\* A reader's step is not the writer's.
LEMMA ReadersApart ==
    ASSUME RWType, ReadersInv, NEW c \in Reader, NEW w \in Writer, Acts(c)
    PROVE  Apart(w) /\ queue' \subseteq queue /\ now' = now
<1>0. /\ RuntimeType(RWPlace) /\ QueueInv /\ stamp \in [Call -> Nat] /\ RolesKept
      /\ c \in Call /\ w \in Call /\ c # w /\ c \notin Ticketed
      /\ w \notin Reader /\ c \notin Writer /\ pc[c] # "unmarking"
  BY Roles DEF RWType, ReadersInv, Reader, Writer
<1>1. pc[c] \notin QueuePlace \cup {"asking", "unmarking"}
  BY <1>0 DEF QueueInv, TicketsDrawn, RolesKept
<1> USE <1>0, <1>1 DEF Apart, RuntimeType, QueueInv, QueueType, queueVars, results
<1>2. CASE ReadStep(c)
  <2> USE DEF QueueRest, holds, Works, Fault, clock, Goto, Emit, Settle
  <2>1. CASE ReadStart(c) \/ ReadTimesOut(c) \/ ReadAsk(c)
    BY <2>1 DEF ReadStart, ReadTimesOut, ReadAsk
  <2>2. CASE ReadAcquire(c) \/ ReadBlocked(c)
    BY <2>2 DEF ReadAcquire, ReadBlocked, PollAgain, Sweep, SweepAndHold, Expired
  <2>3. CASE ReadFault(c)
    <3>1. lease[w] = 0 => lease'[w] = 0
      BY <2>3 DEF ReadFault, Sweep, SweepAndHold
    <3> QED
      BY <2>3, <3>1 DEF ReadFault
  <2> QED
    BY <1>2, <2>1, <2>2, <2>3 DEF ReadStep
<1>3. CASE WriteStep(c)
  BY <1>3 DEF WriteStep, Mark, MarkFault, WriteAcquire, WriteBlocked, WriteFault, Unmark,
     UnmarkFault, Admitted, QueuePlace
<1>4. CASE QueueStep(c) /\ UNCHANGED <<marker, stamp, marked>>
  <2>1. Leave(c) \/ LeaveFault(c)
    BY <1>4 DEF QueueStep, Join, DrawTicket, Enqueue, EnterFault, PollTimesOut, Poll, Polling,
       FetchPage, Evict, SleepOn, ReEnter, PollFault, QueuePlace
  <2>2. now' = now /\ lease' = lease
    BY <1>4, QueueLeases DEF holds
  <2>3. Leave(c) \/ LeaveFault(c) => Apart(w) /\ queue' \subseteq queue
    BY <1>4, <2>2 DEF Leave, LeaveFault, Goto
  <2> QED
    BY <2>1, <2>2, <2>3
<1>5. CASE RuntimeStep(c) /\ UNCHANGED <<queueVars, marker, stamp, marked>>
  <2>1. now' = now /\ (lease' = lease \/ LeaseRenewed(c) \/ LeaseDropped(c))
    BY <1>5, RuntimeLeases
  <2>2. lease[w] = 0 => lease'[w] = 0
    BY <2>1 DEF LeaseRenewed, LeaseDropped
  <2>3. wake' = wake /\ pc'[w] = pc[w] /\ outcome'[w] = outcome[w] /\ emitted'[w] = emitted[w]
    BY <1>5, RuntimeIsLocal
  <2> QED
    BY <1>5, <2>1, <2>2, <2>3
<1> QED
  BY <1>2, <1>3, <1>4, <1>5 DEF Acts

\* While the writer waits with its marker set, no reader comes in: the locks that
\* remain are those that were there.
LEMMA DrainKept ==
    ASSUME RWType, ReadersInv, [Next]_rwVars, NEW w \in Writer, WriterInv(w),
           pc[w] \in Urging, w \in marked
    PROVE  /\ MarkerExists
           /\ \A r \in Readers' : r \in Readers /\ lease'[r] = lease[r]
<1>0. /\ now \in Nat \ {0} /\ marker \in Nat /\ MarkerTtl \in Nat \ {0} /\ wake[w] \in Nat
      /\ lease \in [Call -> Nat]
  BY ReadWriteAssumption, QueueAssumption DEF RWType, RuntimeType, Writer
<1>1. MarkerExists
  BY <1>0 DEF WriterInv, MarkerLasts, MarkerFresh, MarkerExists, Urging
<1>2. ASSUME NEW r \in Readers' PROVE r \in Readers /\ lease'[r] = lease[r]
  <2>1. r \in Reader /\ lease'[r] # 0 /\ HandleOf[r] = "zset"
    BY <1>2 DEF Readers, Held, Reader
  <2>2. lease'[r] \in {0, lease[r]}
    BY <1>1, <2>1, StepReads DEF ReadersMayEnter
  <2> QED
    BY <2>1, <2>2 DEF Readers, Held
<1> QED
  BY <1>1, <1>2

\* Whatever is not its own step leaves the writer's wait as it is.
LEMMA ApartKept ==
    ASSUME RWType, ReadersInv, [Next]_rwVars, NEW w \in Writer, WriterInv(w), Apart(w), now' = now
    PROVE  WriterInv(w)'
<1>1. Date(w)' = Date(w) /\ w \in Call
  BY DEF Date, Writer
<1>2. pc[w] \in Urging /\ w \in marked => \A r \in Readers' : r \in Readers /\ lease'[r] = lease[r]
  BY DrainKept
<1>3. ReadersDrain(w)'
  BY <1>1, <1>2 DEF Apart, WriterInv, ReadersDrain
<1>4. (FirstPoll(w) /\ MarkerLasts(w) /\ MarkerFresh(w))'
  BY <1>1 DEF Apart, WriterInv, FirstPoll, MarkerLasts, MarkerFresh
<1>5. (ScansAlone(w) /\ Unmarked(w) /\ HoldsNothing(w) /\ RefusedLater(w))'
  BY <1>1 DEF Apart, WriterInv, ScansAlone, Unmarked, HoldsNothing, RefusedLater
<1> QED
  BY <1>3, <1>4, <1>5 DEF WriterInv

\* Time passes only while the writer sleeps between two polls or runs its callback.
LEMMA TickKept ==
    ASSUME Prompt, RWType, ReadersInv, [Next]_rwVars, NEW w \in Writer, WriterInv(w), TimePasses
    PROVE  WriterInv(w)'
<1>0. /\ now' = now + 1 /\ now \in Nat \ {0} /\ wake[w] \in Nat /\ w \in Call
      /\ UNCHANGED <<pc, wake, lease, emitted, outcome, deadline, scan, queue, marker, stamp, marked>>
  BY DEF TimePasses, Tick, holds, timers, results, queueVars, RWType, RuntimeType, Writer
<1>1. ~Ready
  BY DEF TimePasses, Tick
<1>2. ~QueueReady(w) /\ pc[w] # "asking"
  BY <1>0, <1>1 DEF Ready
<1>3. pc[w] \notin Joining \cup {"scanning", "evicting", "scanned"} /\ ~Polling(w)
  BY <1>2 DEF QueueReady, Joining
<1>4. pc[w] \in Waiting => pc[w] = "polling" /\ now < wake[w]
  BY <1>0, <1>3 DEF Waiting, Polling
<1>5. ReadersDrain(w)'
  <2>1. pc[w] \in Urging /\ w \in marked =>
            \A r \in Readers' : r \in Readers /\ lease'[r] = lease[r]
    BY DrainKept
  <2> QED
    BY <1>0, <2>1 DEF WriterInv, ReadersDrain
<1>6. (FirstPoll(w) /\ MarkerLasts(w) /\ MarkerFresh(w))'
  <2>1. pc[w] \in Joining \cup Waiting => w \in marked
    BY <1>0, <1>3, <1>4 DEF WriterInv, FirstPoll
  <2> QED
    BY <1>0, <1>2, <1>4, <2>1 DEF WriterInv, FirstPoll, MarkerLasts, MarkerFresh
<1>7. (ScansAlone(w) /\ Unmarked(w) /\ HoldsNothing(w) /\ RefusedLater(w))'
  BY <1>0 DEF WriterInv, ScansAlone, Unmarked, HoldsNothing, RefusedLater
<1> QED
  BY <1>5, <1>6, <1>7 DEF WriterInv

\* A writer that goes on past its wait has no more to keep than its verdict.
LEMMA WaitOver ==
    ASSUME NEW w \in Writer, WriterInv(w), pc'[w] \notin Early \cup Urging,
           outcome'[w] # "refused" \/ "acquired" \in emitted'[w]
    PROVE  WriterInv(w)'
<1> USE DEF WriterInv, Urging, Waiting, Early, Joining
<1>1. (FirstPoll(w) /\ MarkerLasts(w) /\ MarkerFresh(w) /\ ReadersDrain(w))'
  BY DEF FirstPoll, MarkerLasts, MarkerFresh, ReadersDrain
<1>2. (ScansAlone(w) /\ Unmarked(w) /\ HoldsNothing(w) /\ RefusedLater(w))'
  BY DEF ScansAlone, Unmarked, HoldsNothing, RefusedLater
<1> QED
  BY <1>1, <1>2

\* One page shows the writer that it is at the front.
LEMMA FindsItself ==
    ASSUME OneWriter, RWType, queue \subseteq Writer, NEW w \in Writer, ScansAlone(w), FetchPage(w)
    PROVE  pc'[w] = "scanned" /\ scan'[w].live = {w}
<1> DEFINE page == Slice(queue, scan[w].start, PageSize)
           s == [scan[w] EXCEPT !.page = page, !.full = Cardinality(page) = PageSize]
<1>0. /\ pc \in [Call -> RWPlace] /\ pc[w] = "scanning" /\ w \in Call /\ Limit[w] = 1
      /\ scan \in [Call -> ScanType] /\ ticket \in [Call -> Nat] /\ deadline \in [Call -> Nat]
      /\ PageSize \in Nat /\ PageSize >= 1
  BY ReadWriteAssumption, QueueAssumption
  DEF RWType, RuntimeType, Writer, FetchPage, QueueInv, QueueType, ScanType
<1>1. queue = {w}
  BY <1>0 DEF OneWriter, ScansAlone, Urging, Waiting
<1>2. \A n \in Nat : n >= 1 => Slice({w}, 0, n) = {w}
  <2>1. {d \in {w} : ticket[d] < ticket[w]} = {}
    BY <1>0
  <2>2. Rank(w, {w}) = 0
    BY <2>1, FS_EmptySet DEF Rank
  <2> QED
    BY <2>2 DEF Slice
<1>3. page = {w}
  BY <1>0, <1>1, <1>2 DEF ScansAlone
<1>4. /\ s \in ScanType /\ s.page = {w} /\ s.live = {} /\ s.pushed = 0 /\ s.at <= deadline[w]
  <2>1. /\ scan[w] \in ScanType /\ scan[w].live = {} /\ scan[w].pushed = 0
        /\ scan[w].at <= deadline[w]
    BY <1>0 DEF ScansAlone
  <2>2. (Cardinality(page) = PageSize) \in BOOLEAN
    OBVIOUS
  <2> HIDE DEF page
  <2> QED
    BY <1>0, <1>3, <2>1, <2>2 DEF ScanType
<1>5. Continue(w, Sifted(w, s))
  BY DEF FetchPage
<1> HIDE DEF s, page
<1>6. Stale(s) = {}
  BY <1>0, <1>4 DEF Stale, ScanType
<1>7. Fresh(w, s) = {w}
  <2>1. {e \in s.page : \A x \in Stale(s) : ticket[e] < ticket[x]} = {w}
    BY <1>4, <1>6
  <2>2. Limit[w] - s.pushed = 1
    BY <1>0, <1>4
  <2> QED
    BY <1>2, <2>1, <2>2 DEF Fresh
<1>8. Sifted(w, s).live = {w} /\ Sifted(w, s).pushed = 1
  <2>1. Cardinality({w}) = 1
    BY FS_Singleton
  <2> QED
    BY <1>4, <1>7, <2>1 DEF Sifted, ScanType
<1>9. Complete(w, Sifted(w, s))
  BY <1>0, <1>8 DEF Complete
<1>10. /\ pc' = [pc EXCEPT ![w] = "scanned"]
       /\ scan' = [scan EXCEPT ![w] = [NoScan EXCEPT !.live = Sifted(w, s).live,
                                                     !.pushed = Sifted(w, s).pushed]]
  BY <1>5, <1>9 DEF Continue, Goto
<1> QED
  BY <1>0, <1>8, <1>10 DEF NoScan

\* The writer's steps in the queue: it joins, polls and finds itself at the front.
LEMMA WriterQueues ==
    ASSUME OneWriter, TimeToDrain, RWType, ReadersInv, [Next]_rwVars, queue \subseteq Writer,
           NEW w \in Writer, WriterInv(w), QueueStep(w), UNCHANGED <<marker, stamp, marked>>
    PROVE  WriterInv(w)'
<1>0. /\ pc \in [Call -> RWPlace] /\ wake \in [Call -> Nat] /\ w \in Call /\ now \in Nat \ {0}
      /\ outcome \in [Call -> Outcome] /\ emitted \in [Call -> SUBSET Event]
      /\ scan \in [Call -> ScanType] /\ deadline \in [Call -> Nat]
      /\ Date(w) \in Nat /\ Skew[w] \in Nat /\ QueueTimeout \in Nat \ {0}
  <2>1. /\ Ttl \in Nat \ {0} /\ Skew \in [Call -> Nat] /\ QueueTimeout \in Nat
        /\ PollDelay \in Nat /\ PollJitter \in Nat /\ w \in Call
    BY NumbersAssumption, QueueAssumption DEF Writer
  <2>2. QueueTimeout # 0
    BY <2>1 DEF TimeToDrain
  <2> QED
    BY <2>1, <2>2, QueueTimes DEF RWType, RuntimeType, QueueInv, QueueType, ScanType
<1>1. /\ now' = now /\ UNCHANGED <<lease, marker, stamp, marked>> /\ Date(w)' = Date(w)
  BY <1>0, QueueLeases DEF holds, Date
<1>2. ASSUME Apart(w) PROVE WriterInv(w)'
  BY <1>1, <1>2, ApartKept
<1> USE DEF WriterInv, results
<1>3. CASE Join(w)
  <2>1. /\ pc[w] = "idle" /\ pc'[w] = "joining" /\ UNCHANGED <<wake, emitted, outcome>>
        /\ deadline'[w] = Date(w) + QueueTimeout
    BY <1>0, <1>3 DEF Join, Goto
  <2> QED
    BY <1>1, <2>1 DEF Early, Joining, Waiting, Urging, FirstPoll, MarkerLasts, MarkerFresh,
       ReadersDrain, ScansAlone, Unmarked, HoldsNothing, RefusedLater
<1>4. CASE DrawTicket(w) \/ Enqueue(w)
  <2>1. /\ pc[w] \in Joining /\ pc'[w] \in {"enqueuing", "polling"}
        /\ UNCHANGED <<wake, outcome, deadline, scan>>
        /\ pc'[w] = "polling" => w \in queue'
        /\ emitted[w] \subseteq emitted'[w]
    BY <1>0, <1>4 DEF DrawTicket, Enqueue, Goto, Emit, Joining
  <2> QED
    BY <1>1, <2>1 DEF Early, Joining, Waiting, Urging, FirstPoll, MarkerLasts, MarkerFresh,
       ReadersDrain, ScansAlone, Unmarked, HoldsNothing, RefusedLater
<1>5. CASE EnterFault(w) \/ PollFault(w) \/ Leave(w) \/ LeaveFault(w)
  <2>1. pc'[w] \notin Early \cup Urging
    BY <1>0, <1>5 DEF EnterFault, PollFault, Leave, LeaveFault, Goto, Early, Urging, Waiting
  <2>2. outcome'[w] # "refused" \/ "acquired" \in emitted'[w]
    BY <1>0, <1>5 DEF EnterFault, PollFault, Leave, LeaveFault, Settle, RefusedLater
  <2> QED
    BY <2>1, <2>2, WaitOver
<1>6. Polling(w) => ~OutOfTime(w)
  BY <1>0 DEF Polling, OutOfTime, FirstPoll, MarkerLasts, Waiting, Date
<1>7. CASE Poll(w)
  <2>1. /\ pc[w] = "polling" /\ pc'[w] = "scanning" /\ UNCHANGED <<wake, outcome, emitted, deadline, queue>>
        /\ scan'[w] = [NoScan EXCEPT !.at = Date(w)]
    BY <1>0, <1>7 DEF Poll, Polling, Goto
  <2>2. scan'[w].start = 0 /\ scan'[w].live = {} /\ scan'[w].pushed = 0 /\ scan'[w].at = Date(w)
    BY <2>1 DEF NoScan
  <2>3. Date(w) <= deadline[w]
    BY <1>0, <1>7 DEF Poll, OutOfTime
  <2>4. ReadersDrain(w)'
    <3>1. pc[w] \in Urging /\ w \in marked =>
              \A r \in Readers' : r \in Readers /\ lease'[r] = lease[r]
      BY DrainKept
    <3> QED
      BY <1>1, <2>1, <3>1 DEF ReadersDrain, Urging, Waiting
  <2> QED
    BY <1>1, <2>1, <2>2, <2>3, <2>4 DEF Early, Joining, Waiting, Urging, FirstPoll, MarkerLasts,
       MarkerFresh, ScansAlone, Unmarked, HoldsNothing, RefusedLater
<1>8. CASE FetchPage(w)
  <2>1. /\ pc[w] = "scanning" /\ UNCHANGED <<wake, outcome, emitted, deadline, queue>>
    BY <1>8 DEF FetchPage
  <2>2. pc'[w] = "scanned" /\ scan'[w].live = {w}
    BY <1>8, FindsItself
  <2>4. ReadersDrain(w)'
    <3>1. pc[w] \in Urging /\ w \in marked =>
              \A r \in Readers' : r \in Readers /\ lease'[r] = lease[r]
      BY DrainKept
    <3> QED
      BY <1>1, <2>1, <2>2, <3>1 DEF ReadersDrain, Urging, Waiting
  <2> QED
    BY <1>1, <2>1, <2>2, <2>4 DEF Early, Joining, Waiting, Urging, FirstPoll, MarkerLasts,
       MarkerFresh, ScansAlone, Unmarked, HoldsNothing, RefusedLater
<1>9. ~(PollTimesOut(w) \/ Evict(w) \/ SleepOn(w) \/ ReEnter(w))
  BY <1>6 DEF PollTimesOut, Evict, SleepOn, ReEnter, ScansAlone
<1> QED
  BY <1>3, <1>4, <1>5, <1>7, <1>8, <1>9 DEF QueueStep

\* At the front it sets the marker and asks; refused, a reader's lock is still there,
\* and the next poll comes before both the marker and the timeout run out.
LEMMA WriterAsks ==
    ASSUME OneWriter, TimeToDrain, RWType, ReadersInv, now <= MaxTime, [Next]_rwVars,
           NEW w \in Writer, WriterInv(w), WriteStep(w)
    PROVE  WriterInv(w)'
<1>0. /\ pc \in [Call -> RWPlace] /\ wake \in [Call -> Nat] /\ w \in Call /\ now \in Nat \ {0}
      /\ outcome \in [Call -> Outcome] /\ emitted \in [Call -> SUBSET Event]
      /\ scan \in [Call -> ScanType] /\ deadline \in [Call -> Nat] /\ lease \in [Call -> Nat]
      /\ stamp \in [Call -> Nat] /\ MaxTime \in Nat /\ Ttl \in Nat
      /\ PollDelay \in Nat \ {0} /\ PollJitter \in Nat /\ QueueTimeout \in Nat
      /\ MarkerTtl \in Nat /\ MarkerTtl >= 3 * (PollDelay + PollJitter)
      /\ \A d \in Call : Date(d) = now + Skew[d] /\ Skew[d] \in Nat
  BY NumbersAssumption, QueueAssumption, ReadWriteAssumption
  DEF RWType, RuntimeType, QueueInv, QueueType, ScanType, Writer, Date
<1>1. ASSUME pc'[w] \notin Early \cup Urging, outcome'[w] \in {outcome[w], "error"},
             emitted' = emitted
      PROVE  WriterInv(w)'
  BY <1>1, WaitOver DEF WriterInv, RefusedLater
<1>2. CASE Mark(w)
  <2>1. /\ pc[w] = "scanned" /\ pc'[w] = "asking" /\ marker' = now + MarkerTtl
        /\ w \in marked' /\ stamp'[w] = Date(w)
        /\ UNCHANGED <<now, lease, wake, outcome, emitted, deadline, queue>>
    BY <1>0, <1>2 DEF Mark, Admitted, Goto, Works, clock, QueueRest, holds, results
  <2>2. ReadersDrain(w)'
    <3> SUFFICES ASSUME NEW r \in Readers', r \in Readers
                 PROVE  lease[r] + QueueTimeout + Skew[w] <= deadline[w] + Skew[r] + Ttl
      BY <1>0, <2>1 DEF ReadersDrain, Readers, Held
    <3>1. CASE w \in marked
      BY <2>1, <3>1 DEF WriterInv, ReadersDrain, Urging, Waiting
    <3>2. CASE w \notin marked
      <4>1. deadline[w] = Date(w) + QueueTimeout
        BY <2>1, <3>2 DEF WriterInv, FirstPoll, Waiting
      <4>2. r \in Call /\ lease[r] <= Date(r) + Ttl
        BY DEF ReadersInv, Readers, Reader
      <4> QED
        BY <1>0, <4>1, <4>2
    <3> QED
      BY <3>1, <3>2
  <2>3. Date(w)' = Date(w)
    BY <2>1 DEF Date
  <2> QED
    BY <2>1, <2>2, <2>3 DEF WriterInv, Early, Joining, Waiting, Urging, FirstPoll, MarkerLasts,
       MarkerFresh, ScansAlone, Unmarked, HoldsNothing, RefusedLater
<1>3. CASE WriteBlocked(w)
  <2>1. /\ pc[w] = "asking" /\ pc'[w] = "polling" /\ ~WriterMayEnter(w)
        /\ Sweep(Reader, stamp[w])
        /\ UNCHANGED <<now, outcome, emitted, deadline, queue, scan, marker, marked>>
    BY <1>0, <1>3 DEF WriteBlocked, Goto, Works, clock, results, queueVars
  <2>2. w \in marked /\ stamp[w] = Date(w) /\ marker = now + MarkerTtl
    BY <2>1 DEF WriterInv, MarkerFresh
  <2>3. PICK r \in Readers : r \in Call /\ stamp[w] < lease[r]
    <3>1. ~WriterExists
      BY <2>1 DEF OneWriter, WriterExists, Held, WriterInv, HoldsNothing, Urging
    <3>2. ~Drained(w)
      BY <2>1, <3>1 DEF WriterMayEnter
    <3>3. PICK r \in Readers : r \notin Expired(Reader, stamp[w])
      BY <3>2 DEF Drained
    <3>4. r \in Reader /\ r \in Call /\ lease[r] # 0
      BY DEF Readers, Reader, Held
    <3> QED
      BY <1>0, <3>3, <3>4 DEF Expired
  <2>4. lease[r] + QueueTimeout + Skew[w] <= deadline[w] + Skew[r] + Ttl
    BY <2>1, <2>2, <2>3 DEF WriterInv, ReadersDrain, Urging
  <2>5. wake'[w] \in Nat /\ now <= wake'[w] /\ wake'[w] <= now + PollDelay + PollJitter
    <3>1. PICK jitter \in 0 .. PollJitter : wake' = [wake EXCEPT ![w] = Later(PollDelay + jitter)]
      BY <1>3 DEF WriteBlocked, PollAgain
    <3> QED
      BY <1>0, <3>1 DEF Later
  <2>6. wake'[w] < marker /\ wake'[w] + Skew[w] < deadline[w]
    <3>1. Ttl + PollDelay + PollJitter + Skew[r] <= QueueTimeout + Skew[w]
      BY <2>3 DEF TimeToDrain
    <3> QED
      BY <1>0, <2>2, <2>3, <2>4, <2>5, <3>1
  <2>7. ReadersDrain(w)'
    <3>1. \A q \in Readers' : q \in Readers /\ lease'[q] = lease[q]
      BY <2>1, <2>2, DrainKept DEF Urging
    <3> QED
      BY <2>1, <2>2, <3>1 DEF WriterInv, ReadersDrain, Urging
  <2>8. lease'[w] = 0
    BY <1>0, <2>1 DEF Sweep, WriterInv, HoldsNothing, Urging
  <2> QED
    BY <2>1, <2>2, <2>5, <2>6, <2>7, <2>8 DEF WriterInv, Early, Joining, Waiting, Urging,
       FirstPoll, MarkerLasts, MarkerFresh, ScansAlone, Unmarked, HoldsNothing, RefusedLater
<1>4. CASE MarkFault(w) \/ WriteFault(w)
  BY <1>0, <1>1, <1>4 DEF MarkFault, WriteFault, Goto, Settle, Early, Urging, Waiting
<1>5. CASE WriteAcquire(w) \/ Unmark(w) \/ UnmarkFault(w)
  BY <1>0, <1>1, <1>5 DEF WriteAcquire, Unmark, UnmarkFault, Goto, results, Early, Urging, Waiting
<1> QED
  BY <1>2, <1>3, <1>4, <1>5 DEF WriteStep

\* What it does once it has the lock is no longer part of its wait.
LEMMA WriterRuns ==
    ASSUME RWType, ReadersInv, [Next]_rwVars, NEW w \in Writer, WriterInv(w),
           RuntimeStep(w), UNCHANGED <<queueVars, marker, stamp, marked>>
    PROVE  WriterInv(w)'
<1>0. RuntimeType(RWPlace) /\ w \in Call /\ pc \in [Call -> RWPlace] /\ lease \in [Call -> Nat]
  BY DEF RWType, RuntimeType, Writer
<1>1. /\ wake' = wake /\ emitted[w] \subseteq emitted'[w]
      /\ outcome'[w] = "refused" => outcome[w] = "refused" \/ "acquired" \in emitted'[w]
  BY <1>0, RuntimeIsLocal
<1>2. now' = now /\ (lease[w] = 0 => lease'[w] = 0)
  BY <1>0, RuntimeLeases DEF LeaseRenewed, LeaseDropped, Held
<1>3. RefusedLater(w)'
  BY <1>1 DEF WriterInv, RefusedLater
<1>4. CASE pc'[w] = pc[w]
  <2>1. ReadersDrain(w)'
    <3>1. pc[w] \in Urging /\ w \in marked =>
              \A r \in Readers' : r \in Readers /\ lease'[r] = lease[r]
      BY DrainKept
    <3> QED
      BY <1>4, <3>1 DEF WriterInv, ReadersDrain, queueVars
  <2>2. Date(w)' = Date(w)
    BY <1>2 DEF Date
  <2> QED
    BY <1>1, <1>2, <1>3, <1>4, <2>1, <2>2 DEF WriterInv, FirstPoll, MarkerLasts, MarkerFresh,
       ScansAlone, Unmarked, HoldsNothing, queueVars
<1>5. CASE pc'[w] # pc[w]
  <2>1. pc'[w] \in AfterGrant
    BY <1>0, <1>5, RuntimePlaces
  <2> QED
    BY <1>3, <2>1, WaitOver DEF AfterGrant, Early, Urging, Waiting, RefusedLater
<1> QED
  BY <1>4, <1>5

\* The wait of a writer without rivals goes as planned.
LEMMA WaitKept ==
    ASSUME Prompt, OneWriter, ReadersEnd, TimeToDrain, WaitInv, [Next]_rwVars
    PROVE  WaitInv'
<1>0. RWType /\ ReadersInv /\ queue \subseteq Writer /\ RuntimeType(RWPlace) /\ QueueInv
  BY DEF WaitInv, RWType
<1>1. RWType' /\ ReadersInv'
  BY <1>0, StepTyped, ReadersKept
<1>2. Writer' = Writer /\ Writer \cup Reader = Call
  BY Roles DEF Writer
<1>3. now' <= MaxTime
  <2>1. CASE TimePasses
    BY <1>0, <2>1, NumbersAssumption DEF TimePasses, Tick, RuntimeType
  <2>2. ~TimePasses => now' = now
    <3>1. ASSUME NEW c \in Call, RWStep(c) PROVE now' = now
      <4>1. CASE QueueStep(c) \/ RuntimeStep(c)
        BY <1>0, <4>1, QueueLeases, RuntimeLeases
      <4>2. CASE ReadStep(c)
        BY <4>2 DEF ReadStep, ReadStart, ReadTimesOut, ReadAsk, ReadAcquire, ReadBlocked,
           ReadFault, Works, Fault, clock
      <4>3. CASE WriteStep(c)
        BY <4>3 DEF WriteStep, Mark, MarkFault, WriteAcquire, WriteBlocked, WriteFault, Unmark,
           UnmarkFault, Works, Fault, clock
      <4> QED
        BY <3>1, <4>1, <4>2, <4>3 DEF RWStep, ReadStep, WriteStep
    <3> QED
      BY <3>1 DEF Next, Terminated, TimePasses, rwVars, runtimeVars, clock
  <2> QED
    BY <2>1, <2>2 DEF WaitInv
<1>4. ASSUME NEW c \in Call, Acts(c)
      PROVE  queue' \subseteq Writer /\ \A w \in Writer : WriterInv(w)'
  <2>1. CASE c \in Reader
    <3>1. ASSUME NEW w \in Writer PROVE WriterInv(w)'
      <4>1. Apart(w) /\ now' = now /\ WriterInv(w)
        BY <1>0, <1>4, <2>1, ReadersApart DEF WaitInv
      <4> QED
        BY <1>0, <4>1, ApartKept
    <3>2. queue' \subseteq Writer
      <4>1. CASE \E w \in Writer : TRUE
        BY <1>0, <1>4, <2>1, <4>1, ReadersApart
      <4>2. CASE QueueStep(c)
        <5>1. c \notin Ticketed
          BY <2>1, Roles
        <5>2. pc[c] \notin QueuePlace
          BY <1>0, <5>1 DEF QueueInv, TicketsDrawn
        <5>3. Leave(c) \/ LeaveFault(c)
          BY <4>2, <5>1, <5>2 DEF QueueStep, Join, DrawTicket, Enqueue, EnterFault, PollTimesOut,
             Poll, Polling, FetchPage, Evict, SleepOn, ReEnter, PollFault, QueuePlace
        <5> QED
          BY <1>0, <5>3 DEF Leave, LeaveFault
      <4>3. CASE ~QueueStep(c)
        BY <1>0, <1>4, <4>3 DEF Acts, ReadStep, ReadStart, ReadTimesOut, ReadAsk, ReadAcquire,
           ReadBlocked, ReadFault, WriteStep, Mark, MarkFault, WriteAcquire, WriteBlocked,
           WriteFault, Unmark, UnmarkFault, queueVars
      <4> QED
        BY <4>2, <4>3
    <3> QED
      BY <3>1, <3>2
  <2>2. CASE c \in Writer
    <3>1. WriterInv(c) /\ \A w \in Writer : w = c
      BY <2>2 DEF WaitInv, OneWriter
    <3>2. ~ReadStep(c)
      BY <1>0, <2>2, Roles DEF RWType, RolesKept, ReadStep, ReadStart, ReadTimesOut, ReadAsk,
         ReadAcquire, ReadBlocked, ReadFault, Reading
    <3>3. WriterInv(c)'
      BY <1>0, <1>4, <2>2, <3>1, <3>2, WriterQueues, WriterAsks, WriterRuns DEF Acts, WaitInv
    <3>4. queue' \subseteq Writer
      <4>1. CASE QueueStep(c)
        BY <1>0, <2>2, <4>1, QueueMoves DEF QueueMove
      <4>2. CASE WriteStep(c)
        BY <1>0, <4>2 DEF WriteStep, Mark, MarkFault, WriteAcquire, WriteBlocked, WriteFault,
           Unmark, UnmarkFault, queueVars
      <4> QED
        BY <1>0, <1>4, <3>2, <4>1, <4>2 DEF Acts, queueVars
    <3> QED
      BY <3>1, <3>3, <3>4
  <2> QED
    BY <1>2, <2>1, <2>2
<1>5. CASE TimePasses
  <2>1. \A w \in Writer : WriterInv(w)'
    BY <1>0, <1>5, TickKept DEF WaitInv
  <2>2. queue' \subseteq Writer
    BY <1>0, <1>5 DEF TimePasses, queueVars
  <2> QED
    BY <1>1, <1>2, <1>3, <2>1, <2>2 DEF WaitInv
<1>6. CASE UNCHANGED rwVars
  <2>1. \A w \in Writer : Apart(w)
    BY <1>6 DEF Apart, rwVars, runtimeVars, queueVars, clock, holds, fences, timers, results
  <2>2. now' = now /\ queue' = queue
    BY <1>6 DEF rwVars, runtimeVars, queueVars, clock
  <2>3. \A w \in Writer : WriterInv(w)'
    BY <1>0, <2>1, <2>2, ApartKept DEF WaitInv
  <2> QED
    BY <1>0, <1>1, <1>2, <1>3, <2>2, <2>3 DEF WaitInv
<1>7. (\E c \in Call : Acts(c)) \/ TimePasses \/ UNCHANGED rwVars
  BY DEF Next, RWStep, Acts, ReadStep, WriteStep, Terminated, TimePasses
<1> QED
  BY <1>1, <1>2, <1>3, <1>4, <1>5, <1>6, <1>7 DEF WaitInv

\* It is so from the start.
LEMMA WaitInvariant ==
    ASSUME Prompt, OneWriter, ReadersEnd, TimeToDrain
    PROVE  Spec => []WaitInv
<1>1. Init => WaitInv
  <2> SUFFICES ASSUME Init PROVE WaitInv
    OBVIOUS
  <2>1. RWType /\ now = 1 /\ now <= MaxTime /\ queue = {}
    BY InitType, NumbersAssumption DEF Init, RuntimeInit, QueueInit
  <2>2. ReadersInv
    <3>1. \A r \in Call : Date(r) + Ttl \in Nat /\ Date(r) \in Nat
      BY <2>1, QueueTimes, NumbersAssumption DEF RWType
    <3> QED
      BY <3>1 DEF Init, RuntimeInit, ReadersInv, Reader
  <2>3. \A w \in Writer : WriterInv(w)
    BY DEF Init, RuntimeInit, Writer, WriterInv, Early, Joining, Waiting, Urging, FirstPoll,
       MarkerLasts, MarkerFresh, ReadersDrain, ScansAlone, Unmarked, HoldsNothing, RefusedLater
  <2> QED
    BY <2>1, <2>2, <2>3 DEF WaitInv
<1>2. WaitInv /\ [Next]_rwVars => WaitInv'
  BY WaitKept
<1> QED
  BY <1>1, <1>2, PTL DEF Spec

\* Readers that keep coming cannot starve a writer without rivals, if replies come
\* at once, readers do not extend their locks, and the TTL and one poll fit into
\* queueTimeout, by the clocks of the clients.
THEOREM WriterGetsItsTurn ==
    ASSUME Prompt, OneWriter, ReadersEnd, TimeToDrain
    PROVE  Spec => []WriterNotStarved
<1>1. WaitInv => WriterNotStarved
  BY DEF WaitInv, WriterInv, RefusedLater, WriterNotStarved
<1> QED
  BY <1>1, WaitInvariant, PTL

\* Under the same conditions the marker is there for as long as the writer waits
\* after its first poll, so no reader comes in: three poll delays are enough.
THEOREM ReadersKeptOut ==
    ASSUME Prompt, OneWriter, ReadersEnd, TimeToDrain
    PROVE  Spec => WriterBlocksNewReaders
<1> DEFINE Out == \A r \in Reader, w \in Writer :
                    /\ w \in marked /\ pc[w] \in Waiting \cup {"asking"}
                    /\ Date(w) < deadline[w]
                    => ~(pc[r] = "readasking" /\ pc'[r] = "granted")
<1>1. WaitInv /\ [Next]_rwVars => [Out]_rwVars
  <2> SUFFICES ASSUME WaitInv, [Next]_rwVars, NEW r \in Reader, NEW w \in Writer,
                      w \in marked, pc[w] \in Urging, pc[r] = "readasking", pc'[r] = "granted"
               PROVE  FALSE
    BY DEF Urging
  <2>0. RWType /\ ReadersInv /\ WriterInv(w) /\ RuntimeType(RWPlace) /\ r \in Call
        /\ pc \in [Call -> RWPlace] /\ r \notin Ticketed
    BY Roles DEF WaitInv, RWType, RuntimeType, Reader
  <2>1. MarkerExists
    BY <2>0, DrainKept
  <2>2. ASSUME NEW c \in Call, QueueStep(c) PROVE FALSE
    BY <2>0, <2>2, QueuePlaces DEF QueueGoes, QueuePlace
  <2>3. ASSUME NEW c \in Call, RuntimeStep(c) PROVE FALSE
    BY <2>0, <2>3, RuntimePlaces DEF AfterGrant
  <2>4. ASSUME NEW c \in Call, ReadStep(c) PROVE FALSE
    BY <2>0, <2>1, <2>4 DEF ReadStep, ReadStart, ReadTimesOut, ReadAsk, ReadAcquire, ReadBlocked,
       ReadFault, ReadersMayEnter, Goto
  <2>5. ASSUME NEW c \in Call, WriteStep(c) PROVE FALSE
    <3>1. c = r /\ c \in Call
      BY <2>0, <2>5 DEF WriteStep, Mark, MarkFault, WriteAcquire, WriteBlocked, WriteFault,
         Unmark, UnmarkFault, Goto
    <3> QED
      BY <2>5, <3>1 DEF WriteStep, Mark, MarkFault, Admitted, WriteAcquire, WriteBlocked,
         WriteFault, Unmark, UnmarkFault
  <2>6. pc' # pc
    BY <2>0
  <2> QED
    BY <2>2, <2>3, <2>4, <2>5, <2>6
    DEF Next, RWStep, ReadStep, WriteStep, Terminated, Tick, rwVars, runtimeVars
<1> QED
  BY <1>1, WaitInvariant, PTL DEF Spec, WriterBlocksNewReaders, Out

=============================================================================
