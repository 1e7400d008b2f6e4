------------------------- MODULE SemaphoreLockProofs -------------------------
(* Theorems about SemaphoreLock for every instance of its constants: any   *)
(* number of calls, any limits, clocks that differ, whatever dies or fails. *)
EXTENDS SemaphoreLock, TicketQueueProofs

SemaphorePlace == RuntimePlace \cup QueuePlace \cup {"asking"}
SemaphoreType ==
    /\ RuntimeType(SemaphorePlace)
    /\ QueueInv
    /\ stamp \in [Call -> Nat]

\* A step of a call, the clock, or nothing.
TimePasses == Tick(Ready) /\ UNCHANGED <<queueVars, stamp>>

\* The semaphore starts with its types.
LEMMA InitType == Init => SemaphoreType
<1> SUFFICES ASSUME Init PROVE SemaphoreType
  OBVIOUS
<1>1. RuntimeType(SemaphorePlace) /\ stamp \in [Call -> Nat]
  BY SetsAssumption DEF Init, RuntimeInit, RuntimeType, SemaphorePlace, RuntimePlace, Outcome
<1> QED
  BY <1>1, QueueStarts DEF Init, SemaphoreType

\* The four steps of the acquisition.
LEMMA AcquisitionTyped ==
    ASSUME SemaphoreType, NEW c \in Call,
           Ask(c) \/ Acquire(c) \/ AcquireFull(c) \/ AcquireFault(c)
    PROVE  SemaphoreType'
<1>0. /\ RuntimeType(SemaphorePlace) /\ stamp \in [Call -> Nat] /\ QueueInv
      /\ Date(c) \in Nat /\ \A n \in Nat : Later(n) \in Nat
      /\ c \in Ticketed
  BY QueueTimes, SemaphoreAssumption DEF SemaphoreType
<1>1. RuntimeType(SemaphorePlace)' /\ stamp' \in [Call -> Nat]
  <2> USE <1>0, NumbersAssumption, QueueAssumption
      DEF RuntimeType, SemaphorePlace, RuntimePlace, QueuePlace, QueueRest, clock, holds, fences,
          timers, results, Works, Fault, Goto, Settle, Outcome
  <2>1. CASE Ask(c)
    BY <2>1 DEF Ask
  <2>2. ASSUME SweepAndHold(Owners, stamp[c], c, stamp[c] + Ttl)
        PROVE  lease' \in [Call -> Nat] /\ order' \in [Call -> Nat] /\ grants' \in Nat
    BY <2>2 DEF SweepAndHold
  <2>3. ASSUME Sweep(Owners, stamp[c])
        PROVE  lease' \in [Call -> Nat] /\ order' \in [Call -> Nat] /\ grants' \in Nat
    BY <2>3 DEF Sweep
  <2>4. CASE Acquire(c)
    BY <2>2, <2>4 DEF Acquire
  <2>5. CASE AcquireFull(c)
    BY <2>3, <2>5 DEF AcquireFull, PollAgain
  <2>6. CASE AcquireFault(c)
    <3>1. lease' \in [Call -> Nat] /\ order' \in [Call -> Nat] /\ grants' \in Nat
      BY <2>2, <2>3, <2>6 DEF AcquireFault
    <3>2. /\ stamp' = [stamp EXCEPT ![c] = 0] /\ outcome' = [outcome EXCEPT ![c] = "error"]
          /\ pc' = [pc EXCEPT ![c] = "leaving"] /\ faults' = faults + 1
          /\ UNCHANGED <<now, wake, fences, timers, emitted>>
      BY <2>6 DEF AcquireFault
    <3> QED
      BY <3>1, <3>2
  <2> QED
    BY <2>1, <2>4, <2>5, <2>6
<1>2. QueueInv'
  <2>1. /\ UNCHANGED <<tickets, ticket, queue, ahead, deadline>>
        /\ scan' = scan \/ scan' = [scan EXCEPT ![c] = NoScan]
        /\ pc[c] \in {"scanned", "asking"}
        /\ \E p \in {"asking", "granted", "polling", "leaving"} : pc' = [pc EXCEPT ![c] = p]
    BY DEF Ask, Acquire, AcquireFull, AcquireFault, Admitted, queueVars, Goto
  <2>2. \A d \in Call : Elsewhere(d)
    BY <1>0, <2>1 DEF RuntimeType, Elsewhere, InLine, Waiting, TurnPlace, QueuePlace
  <2>3. deadline' \in [Call -> Nat]
    BY <1>0, <2>1 DEF QueueInv, QueueType
  <2> QED
    BY <1>0, <2>1, <2>2, <2>3, QueueLeftAlone
<1> QED
  BY <1>1, <1>2 DEF SemaphoreType

\* Every step keeps the types of the runtime, the queue and the time stamps.
LEMMA StepTyped ==
    ASSUME SemaphoreType, [Next]_semaphoreVars
    PROVE  SemaphoreType'
<1>0. RuntimeType(SemaphorePlace) /\ QueueInv /\ stamp \in [Call -> Nat]
  BY DEF SemaphoreType
<1>1. ASSUME NEW c \in Call, QueueStep(c), UNCHANGED stamp PROVE SemaphoreType'
  <2>1. QueuePlace \cup {"leaving", "done"} \subseteq SemaphorePlace /\ HandleOf[c] # "writer"
    BY SemaphoreAssumption DEF SemaphorePlace, RuntimePlace
  <2>2. RuntimeType(SemaphorePlace)'
    BY <1>0, <1>1, <2>1, QueueRuntimeTyped
  <2>3. QueueInv'
    BY <1>0, <1>1, QueueKept
  <2> QED
    BY <1>0, <1>1, <2>2, <2>3 DEF SemaphoreType
<1>2. ASSUME NEW c \in Call, RuntimeStep(c), UNCHANGED <<queueVars, stamp>> PROVE SemaphoreType'
  <2>1. RuntimeType(SemaphorePlace)'
    BY <1>0, <1>2, RuntimeTyped DEF SemaphorePlace
  <2>2. \A d \in Call : Elsewhere(d)
    BY <1>0, <1>2, RuntimePlaces DEF Elsewhere, AfterGrant, QueuePlace, TurnPlace
  <2>3. deadline' \in [Call -> Nat]
    BY <1>0, <1>2 DEF QueueInv, QueueType, queueVars
  <2>4. QueueInv'
    BY <1>0, <1>2, <2>2, <2>3, QueueLeftAlone DEF queueVars
  <2> QED
    BY <1>0, <1>2, <2>1, <2>4 DEF SemaphoreType
<1>3. CASE UNCHANGED <<queueVars, stamp, pc>> /\ RuntimeType(SemaphorePlace)'
  <2>1. QueueInv'
    BY <1>0, <1>3 DEF QueueInv, QueueType, QueueFinite, TicketsDrawn, HasEntry, queueVars
  <2> QED
    BY <1>0, <1>3, <2>1 DEF SemaphoreType
<1>4. CASE TimePasses
  <2>1. RuntimeType(SemaphorePlace)' /\ pc' = pc
    BY <1>0, <1>4, TickTyped DEF TimePasses, Tick
  <2> QED
    BY <1>3, <1>4, <2>1 DEF TimePasses
<1>5. CASE UNCHANGED semaphoreVars
  <2>1. RuntimeType(SemaphorePlace)'
    BY <1>0, <1>5
    DEF semaphoreVars, runtimeVars, RuntimeType, clock, holds, fences, timers, results
  <2> QED
    BY <1>3, <1>5, <2>1 DEF semaphoreVars, runtimeVars
<1> QED
  BY <1>1, <1>2, <1>4, <1>5, AcquisitionTyped DEF Next, SemaphoreStep, Terminated, TimePasses

\* Every variable keeps its type, tickets stay distinct, and no scan lets more
\* calls to the front than its own limit.
THEOREM TypeCorrect == Spec => []TypeOK
<1>1. Init => SemaphoreType
  BY InitType
<1>2. SemaphoreType /\ [Next]_semaphoreVars => SemaphoreType'
  BY StepTyped
<1>3. SemaphoreType => TypeOK
  BY DEF SemaphoreType, QueueInv, TypeOK, SemaphorePlace
<1> QED
  BY <1>1, <1>2, <1>3, PTL DEF Spec

-----------------------------------------------------------------------------
(* What any step does to the owners set, and where it takes a call.        *)

Swept(c) == lease' = [d \in Call |-> IF d \in Expired(Owners, stamp[c]) THEN 0 ELSE lease[d]]
SweptFor(c) ==
    /\ Room(c)
    /\ lease' = [d \in Call |-> IF d = c THEN stamp[c] + Ttl
                                 ELSE IF d \in Expired(Owners, stamp[c]) THEN 0 ELSE lease[d]]

LeasesStep ==
    \/ lease' = lease
    \/ \E c \in Call : LeaseRenewed(c) \/ LeaseDropped(c)
    \/ \E c \in Call : pc[c] = "asking" /\ (Swept(c) \/ SweptFor(c))

\* The clock does not go back, and the script of another call is the only way
\* to lose a slot but one's own release.
LEMMA StepLeases ==
    ASSUME RuntimeType(SemaphorePlace), [Next]_semaphoreVars
    PROVE  now' \in {now, now + 1} /\ LeasesStep
<1> USE DEF clock, holds, Works, Fault, LeasesStep
<1>1. ASSUME NEW c \in Call, QueueStep(c) PROVE now' = now /\ lease' = lease
  BY <1>1, QueueLeases
<1>2. ASSUME NEW c \in Call, RuntimeStep(c)
      PROVE  now' = now /\ LeasesStep
  BY <1>2, RuntimeLeases
<1>3. ASSUME NEW c \in Call, Ask(c) PROVE now' = now /\ lease' = lease
  BY <1>3 DEF Ask, QueueRest
<1>4. ASSUME NEW c \in Call, Acquire(c) \/ AcquireFull(c) PROVE now' = now /\ LeasesStep
  BY <1>4 DEF Acquire, AcquireFull, Sweep, SweepAndHold, Swept, SweptFor
<1>5. ASSUME NEW c \in Call, AcquireFault(c) PROVE now' = now /\ LeasesStep
  <2>1. pc[c] = "asking" /\ now' = now
    BY <1>5 DEF AcquireFault
  <2>2. lease' = lease \/ Swept(c) \/ SweptFor(c)
    BY <1>5 DEF AcquireFault, Sweep, SweepAndHold, Swept, SweptFor
  <2> QED
    BY <2>1, <2>2
<1>6. CASE TimePasses
  BY <1>6 DEF TimePasses, Tick
<1>7. CASE UNCHANGED semaphoreVars
  BY <1>7 DEF semaphoreVars, runtimeVars
<1> QED
  BY <1>1, <1>2, <1>3, <1>4, <1>5, <1>6, <1>7 DEF Next, SemaphoreStep, Terminated, TimePasses

Trying == QueuePlace \cup {"idle", "asking"}

\* A call that stops trying never tries again.
LEMMA StepPlaces ==
    ASSUME RuntimeType(SemaphorePlace), [Next]_semaphoreVars
    PROVE  \A d \in Call : pc'[d] \in Trying => pc[d] \in Trying
<1> USE DEF RuntimeType, Trying
<1>1. ASSUME NEW c \in Call, QueueStep(c)
      PROVE  \A d \in Call : pc'[d] \in Trying => pc[d] \in Trying
  BY <1>1, QueuePlaces DEF QueueGoes, QueuePlace
<1>2. ASSUME NEW c \in Call, RuntimeStep(c)
      PROVE  \A d \in Call : pc'[d] \in Trying => pc[d] \in Trying
  BY <1>2, RuntimePlaces DEF AfterGrant, QueuePlace
<1>3. ASSUME NEW c \in Call, Ask(c) \/ Acquire(c) \/ AcquireFull(c) \/ AcquireFault(c)
      PROVE  \A d \in Call : pc'[d] \in Trying => pc[d] \in Trying
  BY <1>3 DEF Ask, Acquire, AcquireFull, AcquireFault, Admitted, Goto, QueuePlace
<1>4. CASE TimePasses \/ UNCHANGED semaphoreVars
  BY <1>4 DEF TimePasses, Tick, semaphoreVars, runtimeVars
<1> QED
  BY <1>1, <1>2, <1>3, <1>4 DEF Next, SemaphoreStep, Terminated, TimePasses

-----------------------------------------------------------------------------
(* The owners set: finite, and within the limit of every call that joins.  *)

OwnersInv == SemaphoreType /\ IsFiniteSet(Owners)

OwnersStep ==
    \/ Owners' \subseteq Owners
    \/ \E c \in Call :
        /\ pc[c] = "asking" /\ Room(c)
        /\ Owners' = (Owners \ Expired(Owners, stamp[c])) \cup {c}

\* Owners are released, swept out, or joined by one that the script found room for.
LEMMA StepOwners ==
    ASSUME SemaphoreType, [Next]_semaphoreVars
    PROVE  OwnersStep
<1>0. /\ lease \in [Call -> Nat] /\ stamp \in [Call -> Nat] /\ sent \in [Call -> Nat]
      /\ Ttl \in Nat \ {0} /\ \A c \in Call : HandleOf[c] = "zset"
  BY SemaphoreAssumption, NumbersAssumption DEF SemaphoreType, RuntimeType
<1>1. Owners = {c \in Call : lease[c] # 0} /\ Owners' = {c \in Call : lease'[c] # 0}
  BY <1>0 DEF Owners, Held
<1>2. LeasesStep
  BY StepLeases DEF SemaphoreType
<1>3. CASE lease' = lease
  BY <1>1, <1>3 DEF OwnersStep
<1>4. ASSUME NEW c \in Call, LeaseRenewed(c) \/ LeaseDropped(c) PROVE OwnersStep
  <2>1. \A d \in Call : lease'[d] # 0 => lease[d] # 0
    BY <1>0, <1>4 DEF LeaseRenewed, LeaseDropped, Held
  <2> QED
    BY <1>1, <2>1 DEF OwnersStep
<1>5. ASSUME NEW c \in Call, Swept(c) PROVE OwnersStep
  BY <1>1, <1>5 DEF Swept, OwnersStep
<1>6. ASSUME NEW c \in Call, pc[c] = "asking", SweptFor(c) PROVE OwnersStep
  <2>1. Owners' = (Owners \ Expired(Owners, stamp[c])) \cup {c}
    <3>1. stamp[c] + Ttl # 0
      BY <1>0
    <3>2. \A d \in Call : lease'[d] # 0 <=> d = c \/ (lease[d] # 0 /\ d \notin Expired(Owners, stamp[c]))
      BY <1>6, <3>1 DEF SweptFor
    <3> QED
      BY <1>1, <3>2
  <2> QED
    BY <1>6, <2>1 DEF OwnersStep, SweptFor
<1> QED
  BY <1>2, <1>3, <1>4, <1>5, <1>6 DEF LeasesStep

\* Owners join one at a time, so there are never infinitely many.
LEMMA OwnersInvariant == Spec => []OwnersInv
<1>1. Init => OwnersInv
  <2> SUFFICES ASSUME Init PROVE OwnersInv
    OBVIOUS
  <2>1. Owners = {}
    BY DEF Init, RuntimeInit, Owners, Held
  <2> QED
    BY <2>1, InitType, FS_EmptySet DEF OwnersInv
<1>2. OwnersInv /\ [Next]_semaphoreVars => OwnersInv'
  <2> SUFFICES ASSUME OwnersInv, [Next]_semaphoreVars PROVE OwnersInv'
    OBVIOUS
  <2>1. SemaphoreType /\ SemaphoreType' /\ OwnersStep /\ IsFiniteSet(Owners)
    BY StepTyped, StepOwners DEF OwnersInv
  <2>2. CASE Owners' \subseteq Owners
    BY <2>1, <2>2, FS_Subset DEF OwnersInv
  <2>3. ASSUME NEW c \in Call, Owners' = (Owners \ Expired(Owners, stamp[c])) \cup {c}
        PROVE  IsFiniteSet(Owners')
    <3>1. IsFiniteSet(Owners \ Expired(Owners, stamp[c]))
      BY <2>1, FS_Subset
    <3> QED
      BY <2>3, <3>1, FS_AddElement
  <2> QED
    BY <2>1, <2>2, <2>3 DEF OwnersStep, OwnersInv
<1> QED
  BY <1>1, <1>2, PTL DEF Spec

\* What the Lua script leaves (sweep, count, add): with the new owner they are no
\* more than the new owner's limit.
LEMMA JoinerFits ==
    ASSUME OwnersInv, NEW c \in Call, Room(c),
           Owners' = (Owners \ Expired(Owners, stamp[c])) \cup {c}
    PROVE  Cardinality(Owners') <= Limit[c]
<1> DEFINE S == Owners \ Expired(Owners, stamp[c])
<1>1. IsFiniteSet(S)
  BY FS_Subset DEF OwnersInv
<1>2. Cardinality(S) \in Nat /\ Cardinality(S) < Limit[c] /\ Limit[c] \in Nat
  BY <1>1, FS_CardinalityType, QueueAssumption DEF Room
<1>3. Cardinality(S \cup {c}) = IF c \in S THEN Cardinality(S) ELSE Cardinality(S) + 1
  BY <1>1, FS_AddElement
<1>4. Cardinality(S \cup {c}) <= Limit[c]
  BY <1>2, <1>3
<1> QED
  BY <1>4

\* The semaphore implements the abstract admission: a call that joins is, with
\* the owners left after the sweep, no more than its own maxConcurrent, and
\* nobody becomes an owner again who has been refused or has released.
THEOREM Refinement == Spec => ImplementsAdmission
<1> DEFINE shut == {c \in Call : pc[c] \notin Trying}
<1>1. Init => Abstract!Init
  BY DEF Init, RuntimeInit, Abstract!Init, Owners, Held
<1>2. OwnersInv /\ [Next]_semaphoreVars => [Abstract!Next]_<<Owners, shut>>
  <2> SUFFICES ASSUME OwnersInv, [Next]_semaphoreVars
               PROVE  Abstract!Next
    BY DEF Trying
  <2>1. shut \subseteq shut'
    BY StepPlaces DEF OwnersInv, SemaphoreType
  <2>2. OwnersStep
    BY StepOwners DEF OwnersInv
  <2>3. CASE Owners' \subseteq Owners
    BY <2>1, <2>3 DEF Abstract!Leave, Abstract!Next, Trying
  <2>4. ASSUME NEW c \in Call, pc[c] = "asking", Room(c),
               Owners' = (Owners \ Expired(Owners, stamp[c])) \cup {c}
        PROVE  Abstract!Admit
    <3>1. Owners' \ Owners \subseteq {c} /\ Owners' \in SUBSET Call
      BY <2>4 DEF Owners
    <3>2. Cardinality(Owners') <= Limit[c]
      BY <2>4, JoinerFits
    <3>3. \A d \in Owners' \ Owners :
              Owners' \in [e \in Call |-> {S \in SUBSET Call : Cardinality(S) <= Limit[e]}][d]
      <4> TAKE d \in Owners' \ Owners
      <4>1. d = c
        BY <3>1
      <4>2. Owners' \in {S \in SUBSET Call : Cardinality(S) <= Limit[d]}
        BY <3>1, <3>2, <4>1
      <4> QED
        BY <4>1, <4>2
    <3>4. Owners' \ Owners \subseteq Call \ shut
      BY <2>4, <3>1 DEF Trying
    <3> QED
      BY <3>3, <3>4 DEF Abstract!Admit, Trying
  <2> QED
    BY <2>1, <2>2, <2>3, <2>4 DEF OwnersStep, Abstract!Next, Trying
<1> QED
  BY <1>1, <1>2, OwnersInvariant, PTL DEF Spec, ImplementsAdmission, Abstract!Spec, Trying

-----------------------------------------------------------------------------
(* Evictions.                                                              *)

StampInv == SemaphoreType /\ \A c \in Call : stamp[c] <= Date(c)

\* A stamp is a reading of its client's clock, and clocks do not go back.
LEMMA StampsKept == StampInv /\ [Next]_semaphoreVars => StampInv'
<1> SUFFICES ASSUME StampInv, [Next]_semaphoreVars PROVE StampInv'
  OBVIOUS
<1>1. SemaphoreType /\ SemaphoreType' /\ now' \in {now, now + 1}
  BY StepTyped, StepLeases DEF StampInv, SemaphoreType
<1>2. ASSUME NEW c \in Call PROVE stamp'[c] \in {0, stamp[c], Date(c)}
  <2>0. stamp \in [Call -> Nat]
    BY <1>1 DEF SemaphoreType
  <2>1. ASSUME NEW d \in Call, SemaphoreStep(d) PROVE stamp'[c] \in {0, stamp[c], Date(c)}
    BY <2>0, <2>1 DEF SemaphoreStep, Ask, Acquire, AcquireFull, AcquireFault
  <2> QED
    BY <2>1 DEF Next, Terminated, semaphoreVars
<1>3. \A c \in Call : stamp'[c] <= Date(c)'
  <2> TAKE c \in Call
  <2>1. /\ stamp[c] \in Nat /\ stamp[c] <= now + Skew[c] /\ now \in Nat
        /\ Skew[c] \in Nat /\ Skew' = Skew
    BY <1>1, NumbersAssumption DEF StampInv, SemaphoreType, RuntimeType, Date
  <2>2. stamp'[c] <= now + Skew[c]
    BY <1>2, <2>1 DEF Date
  <2>3. stamp'[c] \in Nat
    BY <1>1 DEF SemaphoreType
  <2> QED
    BY <1>1, <2>1, <2>2, <2>3 DEF Date
<1> QED
  BY <1>1, <1>3 DEF StampInv

\* A holder is swept out only when it has expired by the clock of some client.
THEOREM EvictedAfterExpiry == Spec => NoEarlyEviction
<1> DEFINE Late ==
        \A c \in Call :
            lease[c] # 0 /\ lease'[c] = 0 /\ pc[c] \notin {"releasing", "leaving"}
                => \E d \in Call : Date(d) >= lease[c]
<1>1. Init => StampInv
  <2> SUFFICES ASSUME Init PROVE StampInv
    OBVIOUS
  <2>1. \A c \in Call : stamp[c] = 0 /\ Date(c) \in Nat
    BY InitType, QueueTimes DEF Init, SemaphoreType
  <2> QED
    BY <2>1, InitType DEF StampInv
<1>2. StampInv /\ [Next]_semaphoreVars => [Late]_semaphoreVars
  <2> SUFFICES ASSUME StampInv, [Next]_semaphoreVars,
                      NEW c \in Call, lease[c] # 0, lease'[c] = 0, pc[c] # "releasing"
               PROVE  \E d \in Call : Date(d) >= lease[c]
    OBVIOUS
  <2>0. /\ lease \in [Call -> Nat] /\ stamp \in [Call -> Nat] /\ sent \in [Call -> Nat]
        /\ Ttl \in Nat \ {0} /\ \A d \in Call : HandleOf[d] = "zset" /\ Date(d) \in Nat
    BY SemaphoreAssumption, NumbersAssumption, QueueTimes
    DEF StampInv, SemaphoreType, RuntimeType
  <2>1. LeasesStep
    BY StepLeases DEF StampInv, SemaphoreType
  <2>2. ~\E d \in Call : LeaseRenewed(d) \/ LeaseDropped(d)
    BY <2>0 DEF LeaseRenewed, LeaseDropped
  <2>3. PICK d \in Call : Swept(d) \/ SweptFor(d)
    BY <2>1, <2>2 DEF LeasesStep
  <2>4. c \in Expired(Owners, stamp[d])
    BY <2>0, <2>3 DEF Swept, SweptFor
  <2>5. lease[c] <= stamp[d] /\ stamp[d] <= Date(d)
    BY <2>4 DEF Expired, StampInv
  <2> QED
    BY <2>0, <2>5
<1> QED
  BY <1>1, <1>2, StampsKept, PTL DEF Spec, NoEarlyEviction

-----------------------------------------------------------------------------
(* The line: who waits keeps its place, and the front is served in order,  *)
(* when the clients' clocks agree.                                         *)

\* A step is one of the queue, or it leaves the entries alone; only an admitted
\* call gets its turn.
LEMMA LineSteps ==
    ASSUME SemaphoreType, [Next]_semaphoreVars
    PROVE  /\ \/ \E c \in Call : QueueStep(c)
              \/ \E c : LineLeftAlone(c) /\ deadline' \in [Call -> Nat]
           /\ \A c \in Call : pc[c] = "scanned" /\ pc'[c] \in TurnPlace => Admitted(c)
<1>0. /\ RuntimeType(SemaphorePlace) /\ QueueInv /\ pc \in [Call -> SemaphorePlace]
      /\ deadline \in [Call -> Nat] /\ Ticketed = Call
  BY SemaphoreAssumption DEF SemaphoreType, RuntimeType, QueueInv, QueueType
<1> DEFINE Turns == \A c \in Call : pc[c] = "scanned" /\ pc'[c] \in TurnPlace => Admitted(c)
<1>1. ASSUME NEW c \in Call, QueueStep(c) PROVE Turns
  BY <1>0, <1>1, QueuePlaces DEF QueueGoes, QueuePlace, TurnPlace
<1>2. ASSUME NEW c \in Call, RuntimeStep(c), UNCHANGED queueVars
      PROVE  LineLeftAlone(c) /\ deadline' \in [Call -> Nat] /\ Turns
  <2>1. now' = now /\ \A d \in Call : pc'[d] = pc[d] \/ pc'[d] \in AfterGrant
    BY <1>0, <1>2, RuntimeLeases, RuntimePlaces
  <2> QED
    BY <1>0, <1>2, <2>1
    DEF LineLeftAlone, Elsewhere, AfterGrant, QueuePlace, TurnPlace, queueVars
<1>3. ASSUME NEW c \in Call, Ask(c)
      PROVE  LineLeftAlone(c) /\ deadline' \in [Call -> Nat] /\ Turns
  <2>1. /\ Admitted(c) /\ pc[c] = "scanned" /\ pc' = [pc EXCEPT ![c] = "asking"] /\ now' = now
        /\ scan' = [scan EXCEPT ![c] = NoScan]
        /\ UNCHANGED <<tickets, ticket, queue, deadline, ahead>>
    BY <1>3 DEF Ask, Admitted, Goto, Works, clock
  <2>2. \A d \in Call : Elsewhere(d)
    BY <1>0, <2>1 DEF Elsewhere, InLine, Waiting, TurnPlace
  <2>3. pc'[c] \notin Waiting /\ \A d \in Call \ {c} : pc'[d] = pc[d]
    BY <1>0, <2>1 DEF Waiting
  <2>4. Turns
    BY <2>1, <2>3 DEF TurnPlace
  <2> QED
    BY <1>0, <2>1, <2>2, <2>3, <2>4 DEF LineLeftAlone
<1>4. ASSUME NEW c \in Call, Acquire(c) \/ AcquireFull(c) \/ AcquireFault(c)
      PROVE  LineLeftAlone(c) /\ deadline' \in [Call -> Nat] /\ Turns
  <2>1. /\ pc[c] = "asking" /\ now' = now /\ UNCHANGED queueVars
        /\ \E p \in {"granted", "polling", "leaving"} : pc' = [pc EXCEPT ![c] = p]
    BY <1>4 DEF Acquire, AcquireFull, AcquireFault, Goto, Works, Fault, clock
  <2>2. \A d \in Call : Elsewhere(d)
    BY <1>0, <2>1 DEF Elsewhere, InLine, Waiting, TurnPlace, QueuePlace
  <2> QED
    BY <1>0, <2>1, <2>2 DEF LineLeftAlone, TurnPlace, queueVars
<1>5. CASE UNCHANGED <<queueVars, pc>> /\ now' \in {now, now + 1}
  <2>1. LineLeftAlone(0) /\ deadline' \in [Call -> Nat]
    BY <1>0, <1>5 DEF LineLeftAlone, Elsewhere, queueVars
  <2> QED
    BY <1>5, <2>1 DEF TurnPlace
<1>6. CASE TimePasses
  BY <1>5, <1>6 DEF TimePasses, Tick
<1>7. CASE UNCHANGED semaphoreVars
  BY <1>5, <1>7 DEF semaphoreVars, runtimeVars, clock
<1> QED
  BY <1>1, <1>2, <1>3, <1>4, <1>6, <1>7 DEF Next, SemaphoreStep, Terminated, TimePasses

LineInv == SemaphoreType /\ PlaceInv

\* Places are there from the start and are kept.
LEMMA LineInvariant == ASSUME EqualClocks PROVE Spec => []LineInv
<1>1. Init => LineInv
  BY InitType, PlaceStarts DEF Init, LineInv, SemaphoreType
<1>2. LineInv /\ [Next]_semaphoreVars => LineInv'
  <2> SUFFICES ASSUME LineInv, [Next]_semaphoreVars PROVE LineInv'
    OBVIOUS
  <2>1. SemaphoreType /\ SemaphoreType' /\ RuntimeType(SemaphorePlace) /\ QueueInv /\ PlaceInv
    BY StepTyped DEF LineInv, SemaphoreType
  <2>2. PlaceInv'
    BY <2>1, LineSteps, PlaceKept, PlaceLeftAlone
  <2> QED
    BY <2>1, <2>2 DEF LineInv
<1> QED
  BY <1>1, <1>2, PTL DEF Spec

\* Nobody sweeps the entry of a waiter that has time left by clocks that agree,
\* and a waiter swept with all the others is back before it sleeps.
THEOREM PlacesAreKept == ASSUME EqualClocks PROVE Spec => []WaiterKeepsItsPlace
<1>1. LineInv => WaiterKeepsItsPlace
  BY DEF LineInv, PlaceInv, WaiterKeepsItsPlace, InLine
<1> QED
  BY <1>1, LineInvariant, PTL

\* With one page for the whole queue, a call that gets its turn finds fewer than
\* its limit of those that were before it still in the queue with time left.
THEOREM FirstServed ==
    ASSUME EqualClocks, WholeQueue
    PROVE  Spec => FirstComeFirstServed
<1> DEFINE Served == \A c \in Call :
                pc[c] = "scanned" /\ pc'[c] \in TurnPlace
                    => Cardinality({d \in ahead[c] \cap queue : deadline[d] >= Date(c)}) < Limit[c]
<1>1. Init => FrontInv
  BY FrontStarts DEF Init
<1>2. LineInv /\ FrontInv /\ [Next]_semaphoreVars => FrontInv'
  <2> SUFFICES ASSUME LineInv, FrontInv, [Next]_semaphoreVars PROVE FrontInv'
    OBVIOUS
  <2>1. SemaphoreType /\ RuntimeType(SemaphorePlace) /\ QueueInv /\ PlaceInv
    BY DEF LineInv, SemaphoreType
  <2> QED
    BY <2>1, LineSteps, FrontKept, FrontLeftAlone
<1>3. LineInv /\ FrontInv /\ [Next]_semaphoreVars => [Served]_<<runtimeVars, queueVars>>
  <2> SUFFICES ASSUME LineInv, FrontInv, [Next]_semaphoreVars,
                      NEW c \in Call, pc[c] = "scanned", pc'[c] \in TurnPlace
               PROVE  Cardinality(StillAhead(c)) < Limit[c]
    BY DEF StillAhead
  <2>1. SemaphoreType /\ QueueInv /\ PlaceInv
    BY DEF LineInv, SemaphoreType
  <2> QED
    BY <2>1, LineSteps, FrontServes
<1> QED
  BY <1>1, <1>2, <1>3, LineInvariant, PTL DEF Spec, FirstComeFirstServed

=============================================================================
