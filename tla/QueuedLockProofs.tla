--------------------------- MODULE QueuedLockProofs ---------------------------
(* Theorems about QueuedLock, and so about TracedQueue, which only listens,  *)
(* for every instance of their constants: calls that queue for a lock next   *)
(* to calls that take it without, and the spans of those that are traced.    *)
EXTENDS TracedQueue, RedlockMutexProofs, TicketQueueProofs, SequenceTheorems, FunctionTheorems

QueuedPlace == RuntimePlace \cup QueuePlace \cup {"acquiring", "owning"}
QueuedInv == MutexType(QueuedPlace) /\ QueueInv /\ Ordered

\* A step is one of the mutex, which leaves the queue alone, or one of the queue,
\* which leaves the locks alone.
QueueActs(c) == UNCHANGED attempts /\ QueueStep(c)
MutexActs == MutexStep /\ UNCHANGED queueVars

\* Every step is one of the two, or takes the call at the front to redlock.
LEMMA QueuedSteps ==
    [QueuedNext]_queuedVars => MutexActs \/ \E c \in Call : QueueActs(c) \/ Admit(c)
<1> SUFFICES ASSUME [QueuedNext]_queuedVars
             PROVE  MutexActs \/ \E c \in Call : QueueActs(c) \/ Admit(c)
  OBVIOUS
<1>1. ASSUME NEW c \in Call, QueuedStep(c) PROVE MutexActs \/ QueueActs(c) \/ Admit(c)
  BY <1>1 DEF QueuedStep, MutexActs, MutexStep, QueueActs
<1>2. CASE Tick(QueuedReady) /\ UNCHANGED <<attempts, queueVars>>
  BY <1>2 DEF Tick, MutexActs, MutexStep, TimePasses
<1>3. CASE UNCHANGED queuedVars
  BY <1>3 DEF queuedVars, MutexActs, MutexStep
<1> QED
  BY <1>1, <1>2, <1>3 DEF QueuedNext, Terminated, queuedVars

\* A call of the mutex goes nowhere in the queue.
LEMMA MutexGoes ==
    ASSUME NEW P, RuntimeType(P), MutexStep, NEW d \in Call
    PROVE  Elsewhere(d) /\ (pc'[d] \in QueuePlace \cup {"idle"} => pc'[d] = pc[d])
<1> USE DEF RuntimeType, Elsewhere, QueuePlace, TurnPlace, Goto, Exit
<1>1. ASSUME NEW c \in Call, Start(c)
      PROVE  Elsewhere(d) /\ (pc'[d] \in QueuePlace \cup {"idle"} => pc'[d] = pc[d])
  BY <1>1 DEF Start
<1>2. ASSUME NEW c \in Call, AcquireStep(c)
      PROVE  Elsewhere(d) /\ (pc'[d] \in QueuePlace \cup {"idle"} => pc'[d] = pc[d])
  BY <1>2 DEF AcquireStep, Grant, Retry, AttemptFault, Deny, DenyFault
<1>3. ASSUME NEW c \in Call, ManualStep(c)
      PROVE  Elsewhere(d) /\ (pc'[d] \in QueuePlace \cup {"idle"} => pc'[d] = pc[d])
  <2>1. CASE TryReturns(c) \/ TokenReturns(c) \/ TokenFault(c)
    BY <2>1 DEF TryReturns, TokenReturns, TokenFault
  <2>2. CASE UserExtends(c) \/ UserExtendFails(c) \/ UserReleases(c) \/ Crash(c)
    BY <2>2 DEF UserExtends, UserExtendFails, UserReleases, Crash
  <2> QED
    BY <1>3, <2>1, <2>2 DEF ManualStep
<1>4. ASSUME NEW c \in Call, RuntimeStep(c)
      PROVE  Elsewhere(d) /\ (pc'[d] \in QueuePlace \cup {"idle"} => pc'[d] = pc[d])
  BY <1>4, RuntimePlaces DEF AfterGrant
<1>5. CASE TimePasses \/ UNCHANGED mutexVars
  BY <1>5 DEF TimePasses, mutexVars, runtimeVars
<1> QED
  BY <1>1, <1>2, <1>3, <1>4, <1>5 DEF MutexStep, CallStep

\* Types, tickets and the order of the acquisitions, step by step.
LEMMA QueuedKept ==
    ASSUME QueuedInv, [QueuedNext]_queuedVars
    PROVE  QueuedInv' /\ LocksStep
<1>0. /\ MutexType(QueuedPlace) /\ RuntimeType(QueuedPlace) /\ QueueInv /\ Ordered
      /\ attempts \in [Call -> 0 .. RetryCount]
  BY DEF QueuedInv, MutexType
<1>1. CASE MutexActs
  <2>1. MutexType(QueuedPlace)' /\ LocksStep
    BY <1>0, <1>1, StepType, StepLocks DEF MutexActs, MutexPlace, QueuedPlace
  <2>2. \A d \in Call : Elsewhere(d)
    BY <1>0, <1>1, MutexGoes DEF MutexActs
  <2>3. QueueInv'
    <3>1. deadline' \in [Call -> Nat] /\ UNCHANGED <<tickets, ticket, queue, ahead, scan>>
      BY <1>0, <1>1 DEF MutexActs, queueVars, QueueInv, QueueType
    <3>2. CASE Call = {}
      BY <1>0, <1>1, <3>1, <3>2 DEF QueueInv, QueueType, QueueFinite, TicketsDrawn, HasEntry
    <3>3. CASE \E c \in Call : TRUE
      BY <1>0, <2>2, <3>1, <3>3, QueueLeftAlone
    <3> QED
      BY <3>2, <3>3
  <2>4. Ordered'
    BY <1>0, <2>1, OrderKept DEF MutexType
  <2> QED
    BY <2>1, <2>3, <2>4 DEF QueuedInv
<1>2. ASSUME NEW c \in Call, QueueActs(c) PROVE QueuedInv' /\ LocksStep
  <2>1. QueuePlace \cup {"leaving", "done"} \subseteq QueuedPlace /\ HandleOf[c] # "writer"
    BY MutexAssumption DEF QueuedPlace, RuntimePlace
  <2>2. RuntimeType(QueuedPlace)' /\ QueueInv'
    BY <1>0, <1>2, <2>1, QueueRuntimeTyped, QueueKept DEF QueueActs
  <2>3. LocksStep
    BY <1>2, QueueLeases DEF QueueActs, LocksStep
  <2>4. Ordered'
    BY <1>0, <2>2, <2>3, OrderKept
  <2> QED
    BY <1>0, <1>2, <2>2, <2>3, <2>4 DEF QueuedInv, MutexType, QueueActs
<1>3. ASSUME NEW c \in Call, Admit(c) PROVE QueuedInv' /\ LocksStep
  <2>1. RuntimeType(QueuedPlace)' /\ LocksStep
    BY <1>0, <1>3 DEF Admit, RuntimeType, QueuedPlace, QueueRest, clock, holds, fences, timers,
       results, Works, Goto, LocksStep
  <2>2. QueueInv'
    <3>1. c \in Ticketed /\ pc[c] \in InLine
      BY <1>0, <1>3 DEF Admit, Admitted, QueueInv, TicketsDrawn, QueuePlace, InLine, Waiting
    <3>2. \A d \in Call : Elsewhere(d)
      BY <1>0, <1>3, <3>1 DEF Admit, RuntimeType, Goto, Elsewhere, TurnPlace
    <3>3. deadline' \in [Call -> Nat]
      BY <1>0, <1>3 DEF Admit, QueueInv, QueueType
    <3> QED
      BY <1>0, <1>3, <3>2, <3>3, QueueLeftAlone DEF Admit
  <2>3. Ordered'
    BY <1>0, <2>1, OrderKept
  <2> QED
    BY <1>0, <1>3, <2>1, <2>2, <2>3 DEF QueuedInv, MutexType, Admit
<1> QED
  BY <1>1, <1>2, <1>3, QueuedSteps

\* So they are in every reachable state.
LEMMA QueuedInvariant == QueuedSpec => []QueuedInv
<1>1. QueuedInit => QueuedInv
  <2> SUFFICES ASSUME QueuedInit PROVE QueuedInv
    OBVIOUS
  <2>1. RuntimeInit /\ QueueInit /\ attempts = [c \in Call |-> 0]
    BY DEF QueuedInit, Init
  <2>2. MutexType(QueuedPlace)
    BY <2>1, SetsAssumption, MutexAssumption
    DEF RuntimeInit, MutexType, RuntimeType, QueuedPlace, RuntimePlace, Outcome
  <2>3. Ordered
    BY <2>1 DEF RuntimeInit, Ordered, Superseded, Held
  <2> QED
    BY <2>1, <2>2, <2>3, QueueStarts DEF QueuedInv
<1>2. QueuedInv /\ [QueuedNext]_queuedVars => QueuedInv'
  BY QueuedKept
<1> QED
  BY <1>1, <1>2, PTL DEF QueuedSpec

\* Every variable keeps its type, with a plain call and a queued one side by side.
THEOREM QueuedTypeCorrect == QueuedSpec => []QueuedType
<1>1. QueuedInv => QueuedType
  BY DEF QueuedInv, MutexType, QueueInv, QueuedType, QueuedPlace
<1> QED
  BY <1>1, QueuedInvariant, PTL

\* Queuing decides whose turn it is and takes nothing from the mutex: two calls
\* never hold a common resource, queued or not.
THEOREM QueuedExclusion == QueuedSpec => []MutualExclusion
<1>1. QueuedInv => MutualExclusion
  BY OrderExcludes DEF QueuedInv, MutexType
<1> QED
  BY <1>1, QueuedInvariant, PTL

-----------------------------------------------------------------------------
(* Refinement of the abstract admission.                                   *)

TryingOrQueued == QueuePlace \cup {"idle", "acquiring"}

\* A call that stops trying never tries again.
LEMMA QueuedTries ==
    ASSUME QueuedInv, [QueuedNext]_queuedVars, NEW d \in Call, pc'[d] \in TryingOrQueued
    PROVE  pc[d] \in TryingOrQueued
<1>0. RuntimeType(QueuedPlace) /\ pc \in [Call -> QueuedPlace]
  BY DEF QueuedInv, MutexType, RuntimeType
<1>1. CASE MutexActs
  <2>1. PlacesStep /\ (pc'[d] \in QueuePlace \cup {"idle"} => pc'[d] = pc[d])
    BY <1>0, <1>1, StepPlaces, MutexGoes DEF MutexActs
  <2> QED
    BY <2>1 DEF PlacesStep, Trying, TryingOrQueued
<1>2. ASSUME NEW c \in Call, QueueActs(c) PROVE pc[d] \in TryingOrQueued
  <2>1. QueueGoes(c) /\ pc' = [pc EXCEPT ![c] = pc'[c]]
    BY <1>0, <1>2, QueuePlaces DEF QueueActs
  <2> QED
    BY <1>0, <2>1 DEF QueueGoes, TryingOrQueued, QueuePlace
<1>3. ASSUME NEW c \in Call, Admit(c) PROVE pc[d] \in TryingOrQueued
  BY <1>0, <1>3 DEF Admit, Admitted, Goto, TryingOrQueued, QueuePlace
<1> QED
  BY <1>1, <1>2, <1>3, QueuedSteps

\* Queued and plain calls together implement the abstract admission: holders share
\* no resource, and nobody holds again who has been refused or has released.
THEOREM QueuedRefinement == QueuedSpec => QueuedImplementsAdmission
<1> DEFINE holding == {c \in Call : Held(c)}
           shut == {c \in Call : pc[c] \notin TryingOrQueued}
<1>1. QueuedInit => AbstractQueued!Init
  BY DEF QueuedInit, Init, RuntimeInit, AbstractQueued!Init, Held
<1>2. QueuedInv /\ [QueuedNext]_queuedVars => [AbstractQueued!Next]_<<holding, shut>>
  <2> SUFFICES ASSUME QueuedInv, [QueuedNext]_queuedVars
               PROVE  AbstractQueued!Next
    BY DEF TryingOrQueued
  <2>1. AdmissionStep
    BY QueuedKept, StepAdmits DEF QueuedInv, MutexType
  <2>2. shut \subseteq shut'
    BY QueuedTries
  <2>3. AbstractQueued!Leave \/ AbstractQueued!Admit
    BY <2>1 DEF AdmissionStep, AbstractQueued!Leave, AbstractQueued!Admit
  <2> QED
    BY <2>2, <2>3 DEF AbstractQueued!Next, TryingOrQueued
<1> QED
  BY <1>1, <1>2, QueuedInvariant, PTL
  DEF QueuedSpec, QueuedImplementsAdmission, AbstractQueued!Spec, TryingOrQueued

\* Listening changes nothing of it: a traced service still implements the
\* admission.
THEOREM TracedRefinement == TracedSpec => QueuedImplementsAdmission
<1>1. TracedSpec => QueuedSpec
  <2>1. TracedInit => QueuedInit
    BY DEF TracedInit
  <2>2. [TracedNext]_tracedVars => [QueuedNext]_queuedVars
    BY DEF TracedNext, tracedVars
  <2> QED
    BY <2>1, <2>2, PTL DEF TracedSpec, QueuedSpec
<1> QED
  BY <1>1, QueuedRefinement

-----------------------------------------------------------------------------
(* The line, when the clients' clocks agree.                               *)

\* A step is one of the queue, or it leaves the entries alone; only an admitted
\* call gets its turn.
LEMMA QueuedLineSteps ==
    ASSUME QueuedInv, [QueuedNext]_queuedVars
    PROVE  /\ \/ \E c \in Call : QueueStep(c)
              \/ \E c : LineLeftAlone(c) /\ deadline' \in [Call -> Nat]
           /\ \A c \in Call : pc[c] = "scanned" /\ pc'[c] \in TurnPlace => Admitted(c)
<1>0. /\ MutexType(QueuedPlace) /\ RuntimeType(QueuedPlace) /\ QueueInv
      /\ pc \in [Call -> QueuedPlace] /\ deadline \in [Call -> Nat]
  BY DEF QueuedInv, MutexType, RuntimeType, QueueInv, QueueType
<1> DEFINE Turns == \A c \in Call : pc[c] = "scanned" /\ pc'[c] \in TurnPlace => Admitted(c)
<1>1. ASSUME NEW c \in Call, QueueStep(c) PROVE Turns
  BY <1>0, <1>1, QueuePlaces DEF QueueGoes, QueuePlace, TurnPlace
<1>2. CASE MutexActs
  <2>1. MutexStep /\ UNCHANGED queueVars /\ now' \in {now, now + 1}
    BY <1>0, <1>2, StepLocks DEF MutexActs, MutexPlace, QueuedPlace, LocksStep
  <2>2. \A d \in Call : Elsewhere(d)
    BY <1>0, <2>1, MutexGoes
  <2>3. LineLeftAlone(0) /\ deadline' \in [Call -> Nat]
    BY <1>0, <2>1, <2>2 DEF LineLeftAlone, queueVars
  <2>4. Turns
    <3>1. \A c \in Call : pc'[c] \in QueuedPlace
      BY QueuedKept DEF QueuedInv, MutexType, RuntimeType
    <3>2. \A c \in Call : pc'[c] = "acquiring" => pc[c] \in Trying
      BY <1>0, <2>1, StepPlaces DEF PlacesStep, Trying
    <3> QED
      BY <3>1, <3>2 DEF TurnPlace, Trying, QueuedPlace, RuntimePlace, QueuePlace
  <2> QED
    BY <2>3, <2>4
<1>3. ASSUME NEW c \in Call, Admit(c)
      PROVE  LineLeftAlone(c) /\ deadline' \in [Call -> Nat] /\ Turns
  <2>1. /\ Admitted(c) /\ pc[c] = "scanned" /\ pc' = [pc EXCEPT ![c] = "acquiring"]
        /\ now' = now /\ scan' = [scan EXCEPT ![c] = NoScan]
        /\ UNCHANGED <<tickets, ticket, queue, deadline, ahead>>
    BY <1>3 DEF Admit, Admitted, Goto, Works, clock
  <2>2. c \in Ticketed
    BY <1>0, <2>1 DEF QueueInv, TicketsDrawn, QueuePlace
  <2>3. \A d \in Call : Elsewhere(d)
    BY <1>0, <2>1, <2>2 DEF Elsewhere, InLine, Waiting, TurnPlace
  <2>4. pc'[c] \notin Waiting /\ \A d \in Call \ {c} : pc'[d] = pc[d]
    BY <1>0, <2>1 DEF Waiting
  <2>5. Turns
    BY <2>1, <2>4 DEF TurnPlace
  <2> QED
    BY <1>0, <2>1, <2>3, <2>4, <2>5 DEF LineLeftAlone
<1> QED
  BY <1>1, <1>2, <1>3, QueuedSteps DEF QueueActs

QueuedLineInv == QueuedInv /\ PlaceInv

\* Places are there from the start and are kept.
LEMMA QueuedLineInvariant == ASSUME EqualClocks PROVE QueuedSpec => []QueuedLineInv
<1>1. QueuedInit /\ QueuedInv => PlaceInv
  BY PlaceStarts DEF QueuedInit, Init, QueuedInv, MutexType
<1>2. QueuedInv /\ PlaceInv /\ [QueuedNext]_queuedVars => PlaceInv'
  <2> SUFFICES ASSUME QueuedInv, PlaceInv, [QueuedNext]_queuedVars PROVE PlaceInv'
    OBVIOUS
  <2>1. RuntimeType(QueuedPlace) /\ QueueInv
    BY DEF QueuedInv, MutexType
  <2> QED
    BY <2>1, QueuedLineSteps, PlaceKept, PlaceLeftAlone
<1>3. QueuedLineInv <=> QueuedInv /\ PlaceInv
  BY DEF QueuedLineInv
<1> QED
  BY <1>1, <1>2, <1>3, QueuedInvariant, PTL DEF QueuedSpec

\* A queued call that waits with time left has its entry in the queue.
THEOREM QueuedPlacesAreKept == ASSUME EqualClocks PROVE QueuedSpec => []WaiterKeepsItsPlace
<1>1. QueuedLineInv => WaiterKeepsItsPlace
  BY DEF QueuedLineInv, PlaceInv, WaiterKeepsItsPlace, InLine
<1> QED
  BY <1>1, QueuedLineInvariant, PTL

\* What a queue of more than one page refutes holds as long as the queue is one
\* page: a call that gets its turn has overtaken nobody who has time left.
THEOREM QueuedFirstServed ==
    ASSUME EqualClocks, WholeQueue
    PROVE  QueuedSpec => FirstComeFirstServed
<1> DEFINE Served == \A c \in Call :
                pc[c] = "scanned" /\ pc'[c] \in TurnPlace
                    => Cardinality({d \in ahead[c] \cap queue : deadline[d] >= Date(c)}) < Limit[c]
<1>1. QueuedInit => FrontInv
  BY FrontStarts DEF QueuedInit, Init
<1>2. QueuedLineInv /\ FrontInv /\ [QueuedNext]_queuedVars => FrontInv'
  <2> SUFFICES ASSUME QueuedLineInv, FrontInv, [QueuedNext]_queuedVars PROVE FrontInv'
    OBVIOUS
  <2>1. QueuedInv /\ RuntimeType(QueuedPlace) /\ QueueInv /\ PlaceInv
    BY DEF QueuedLineInv, QueuedInv, MutexType
  <2> QED
    BY <2>1, QueuedLineSteps, FrontKept, FrontLeftAlone
<1>3. QueuedLineInv /\ FrontInv /\ [QueuedNext]_queuedVars => [Served]_<<runtimeVars, queueVars>>
  <2> SUFFICES ASSUME QueuedLineInv, FrontInv, [QueuedNext]_queuedVars,
                      NEW c \in Call, pc[c] = "scanned", pc'[c] \in TurnPlace
               PROVE  Cardinality(StillAhead(c)) < Limit[c]
    BY DEF StillAhead
  <2>1. QueuedInv /\ QueueInv /\ PlaceInv
    BY DEF QueuedLineInv, QueuedInv
  <2> QED
    BY <2>1, QueuedLineSteps, FrontServes
<1> QED
  BY <1>1, <1>2, <1>3, QueuedLineInvariant, PTL DEF QueuedSpec, FirstComeFirstServed

-----------------------------------------------------------------------------
(* What the calls tell.  An event of a span belongs to one place of a call, *)
(* and takes the call on to the next stage.                                 *)

SpanMark == Mark \cup {"queued"}
Ran == Running \cup {"releasing"}
Over == {"leaving", "done", "crashed", "owning"}
Plain == {"extended", "extend_failed"}   \* events that end no span and start none

\* A step that tells nothing of a span: the call stays at its stage, starts
\* without queuing, or is over by a death or a rejected command.
Quiet(c) ==
    \/ c \in Manual
    \/ pc[c] \in Early /\ pc'[c] \in Early
    \/ pc[c] \in Announced /\ pc'[c] \in Announced
    \/ pc[c] \in Over /\ pc'[c] \in Over
    \/ pc[c] = "idle" /\ pc'[c] = "acquiring" /\ c \notin Ticketed
    \/ pc'[c] \in Over /\ (faults' # faults \/ c \in Crashable)
    \/ pc[c] \in Ran /\ pc'[c] \in Ran

\* c goes on and tells E.
Tells(c, E) ==
    \/ E \subseteq Plain /\ Quiet(c)
    \/ /\ c \notin Manual
       /\ \/ /\ E = {"queued"} /\ pc[c] = "enqueuing"
             /\ pc'[c] = "polling" \/ (pc'[c] = "done" /\ outcome'[c] = "error")
          \/ E = {"acquired"} /\ pc[c] = "granted" /\ pc'[c] = "fencing"
          \/ /\ E = {"acquired", "failed"} /\ "acquired" \in ThrowsOn
             /\ pc[c] = "granted" /\ pc'[c] \in Over
          \/ E = {"failed"} /\ pc[c] \in {"polling", "acquiring"} /\ pc'[c] \in Over
          \/ /\ E = {"released"} \/ E = {"release_failed"}
             /\ pc[c] = "releasing" /\ pc'[c] \in Over
          \/ /\ E = {"released", "release_failed"} /\ "released" \in ThrowsOn
             /\ pc[c] = "releasing" /\ pc'[c] \in Over

TellStep(c) ==
    /\ pc' = [pc EXCEPT ![c] = pc'[c]] /\ pc'[c] \in QueuedPlace
    /\ \E E \in SUBSET Event : Emit(c, E) /\ Tells(c, E)

\* The calls that say nothing.
LEMMA QuietTells ==
    ASSUME MutexType(QueuedPlace), NEW c \in Call, NEW p \in QueuedPlace,
           pc' = [pc EXCEPT ![c] = p], emitted' = emitted, Quiet(c)
    PROVE  TellStep(c)
<1>1. pc'[c] = p /\ emitted' = [emitted EXCEPT ![c] = @ \cup {}]
  BY DEF MutexType, RuntimeType
<1>2. {} \in SUBSET Event /\ Tells(c, {})
  BY DEF Tells
<1> QED
  BY <1>1, <1>2 DEF TellStep, Emit

\* The calls that run.
LEMMA RuntimeTells ==
    ASSUME MutexType(QueuedPlace), NEW c \in Call \ Manual, RuntimeStep(c)
    PROVE  TellStep(c)
<1>0. /\ pc \in [Call -> QueuedPlace] /\ emitted \in [Call -> SUBSET Event]
      /\ pc[c] \in QueuedPlace /\ Over \subseteq QueuedPlace /\ Ran \subseteq QueuedPlace
  BY DEF MutexType, RuntimeType, Over, Ran, Running, QueuedPlace, RuntimePlace
<1> DEFINE Tell(E) == Emit(c, E) /\ Tells(c, E)
<1>1. ASSUME NEW E \in SUBSET Event, NEW p \in QueuedPlace, pc' = [pc EXCEPT ![c] = p], Tell(E)
      PROVE  TellStep(c)
  BY <1>0, <1>1 DEF TellStep
<1> HIDE DEF Tell
<1>2. CASE Begin(c)
  <2>1. pc' = [pc EXCEPT ![c] = "fencing"] /\ Tell({"acquired"})
    BY <1>0, <1>2 DEF Begin, Goto, Tell, Tells
  <2> QED
    BY <1>1, <2>1 DEF QueuedPlace, RuntimePlace, Event
<1>3. CASE BeginThrows(c)
  <2>1. PICK p \in Over : pc' = [pc EXCEPT ![c] = p]
    BY <1>3 DEF BeginThrows, Exit, Goto, Over
  <2>2. Tell({"acquired", "failed"})
    BY <1>0, <1>3, <2>1 DEF BeginThrows, Tell, Tells
  <2> QED
    BY <1>0, <1>1, <2>1, <2>2 DEF Event
<1>4. CASE IncrFence(c) \/ PexpireFence(c) \/ CallbackEnds(c) \/ FenceFault(c)
  <2>1. /\ pc[c] \in Ran /\ emitted' = emitted
        /\ \E p \in Ran : pc' = [pc EXCEPT ![c] = p]
    BY <1>4 DEF IncrFence, PexpireFence, CallbackEnds, FenceFault, TokenLost, Goto, Ran, Running,
       results
  <2> QED
    BY <1>0, <2>1, QuietTells DEF Quiet
<1>5. CASE Release(c) \/ ReleaseFault(c)
  <2>1. PICK p \in Over : pc' = [pc EXCEPT ![c] = p]
    BY <1>5 DEF Release, ReleaseFault, Exit, Goto, Over
  <2>2. \/ Tell({"released"}) \/ Tell({"release_failed"}) \/ Tell({"released", "release_failed"})
    BY <1>0, <1>5, <2>1 DEF Release, ReleaseFault, Tell, Tells
  <2> QED
    BY <1>0, <1>1, <2>1, <2>2 DEF Event
<1>6. CASE ExtendFire(c) \/ ExtendLands(c) \/ ExtendRefused(c) \/ ExtendFault(c)
  <2>1. pc' = pc /\ (emitted' = emitted \/ \E E \in SUBSET Plain : Emit(c, E))
    BY <1>6 DEF ExtendFire, ExtendLands, ExtendRefused, ExtendFault, ExtensionLost, Plain, results
  <2>2. pc' = [pc EXCEPT ![c] = pc[c]]
    BY <1>0, <2>1
  <2>3. Quiet(c)
    BY <1>0, <2>1 DEF Quiet, QueuedPlace, RuntimePlace, QueuePlace, Early, Announced, Waiting, Over,
       Ran, Running
  <2>4. \A E \in SUBSET Plain : E \in SUBSET Event /\ (Emit(c, E) => Tell(E))
    BY <2>3 DEF Tell, Tells, Plain, Event
  <2> QED
    BY <1>0, <1>1, <2>1, <2>2, <2>3, <2>4, QuietTells
<1>7. CASE Crash(c)
  <2>1. c \in Crashable /\ pc' = [pc EXCEPT ![c] = "crashed"] /\ emitted' = emitted
    BY <1>7 DEF Crash, Goto, results
  <2> QED
    BY <1>0, <2>1, QuietTells DEF Quiet, Over
<1> QED
  BY <1>2, <1>3, <1>4, <1>5, <1>6, <1>7 DEF RuntimeStep

\* The calls of redlock, those of the caller included.
LEMMA MutexTells ==
    ASSUME MutexType(QueuedPlace), NEW c \in Call, CallStep(c)
    PROVE  TellStep(c)
<1>0. /\ pc \in [Call -> QueuedPlace] /\ emitted \in [Call -> SUBSET Event]
      /\ pc[c] \in QueuedPlace /\ Over \subseteq QueuedPlace /\ Announced \subseteq QueuedPlace
  BY DEF MutexType, RuntimeType, Over, Announced, Waiting, QueuedPlace, RuntimePlace, QueuePlace
<1>1. CASE Start(c) \/ Grant(c) \/ Retry(c) \/ AttemptFault(c)
  <2>1. /\ emitted' = emitted
        /\ \/ /\ pc[c] = "idle" /\ c \notin Ticketed
              /\ pc' = [pc EXCEPT ![c] = "acquiring"]
           \/ pc[c] = "acquiring" /\ \E p \in Announced : pc' = [pc EXCEPT ![c] = p]
    BY <1>0, <1>1 DEF Start, Grant, Retry, AttemptFault, Attempting, Goto, results, Announced
  <2> QED
    BY <1>0, <2>1, QuietTells DEF Quiet, Announced
<1>2. CASE Deny(c) \/ DenyFault(c)
  <2>1. /\ emitted' = IF c \in Manual THEN emitted ELSE [emitted EXCEPT ![c] = @ \cup {"failed"}]
        /\ pc[c] = "acquiring" /\ \E p \in Over : pc' = [pc EXCEPT ![c] = p]
    BY <1>2 DEF Deny, DenyFault, Report, Attempting, Emit, Exit, Goto, Over
  <2>2. PICK p \in Over : pc' = [pc EXCEPT ![c] = p]
    BY <2>1
  <2>3. CASE c \in Manual
    BY <1>0, <2>1, <2>2, <2>3, QuietTells DEF Quiet
  <2>4. CASE c \notin Manual
    <3>1. pc'[c] = p /\ {"failed"} \in SUBSET Event /\ Emit(c, {"failed"}) /\ Tells(c, {"failed"})
      BY <1>0, <2>1, <2>2, <2>4 DEF Emit, Tells, Event
    <3> QED
      BY <1>0, <2>2, <3>1 DEF TellStep
  <2> QED
    BY <2>3, <2>4
<1>3. CASE ManualStep(c)
  <2>1. CASE TryReturns(c) \/ TokenReturns(c) \/ TokenFault(c)
    <3>1. emitted' = emitted /\ \E p \in QueuedPlace : pc' = [pc EXCEPT ![c] = p]
      BY <2>1 DEF TryReturns, TokenReturns, TokenFault, Goto, QueuedPlace, RuntimePlace
    <3> QED
      BY <1>3, <3>1, QuietTells DEF Quiet, ManualStep
  <2>2. CASE UserExtends(c)
    <3>1. pc' = [pc EXCEPT ![c] = pc[c]] /\ pc'[c] = pc[c] /\ Emit(c, {"extended"})
      BY <1>0, <2>2 DEF UserExtends
    <3>2. {"extended"} \in SUBSET Event /\ Tells(c, {"extended"})
      BY <1>3 DEF Tells, Quiet, ManualStep, Plain, Event
    <3> QED
      BY <1>0, <3>1, <3>2 DEF TellStep
  <2>3. CASE UserExtendFails(c) \/ UserReleases(c) \/ Crash(c)
    <3>1. emitted' = emitted /\ \E p \in QueuedPlace : pc' = [pc EXCEPT ![c] = p]
      <4>1. pc' = pc => pc' = [pc EXCEPT ![c] = pc[c]]
        BY <1>0
      <4> QED
        BY <1>0, <2>3, <4>1 DEF UserExtendFails, UserReleases, Crash, Goto, QueuedPlace,
           RuntimePlace, results
    <3> QED
      BY <1>3, <3>1, QuietTells DEF Quiet, ManualStep
  <2> QED
    BY <1>3, <2>1, <2>2, <2>3 DEF ManualStep
<1>4. CASE c \notin Manual /\ RuntimeStep(c)
  BY <1>4, RuntimeTells
<1> QED
  BY <1>1, <1>2, <1>3, <1>4 DEF CallStep, AcquireStep

\* The calls that queue.
LEMMA QueueTells ==
    ASSUME MutexType(QueuedPlace), QueueInv, NEW c \in Call, QueueStep(c)
    PROVE  TellStep(c)
<1>0. /\ pc \in [Call -> QueuedPlace] /\ emitted \in [Call -> SUBSET Event]
      /\ faults \in Nat /\ outcome \in [Call -> Outcome]
      /\ pc[c] \in QueuePlace => c \notin Manual
      /\ Over \subseteq QueuedPlace /\ Early \subseteq QueuedPlace /\ Announced \subseteq QueuedPlace
  BY QueuedAssumption DEF MutexType, RuntimeType, QueueInv, TicketsDrawn, Over, Early, Announced,
     Waiting, QueuedPlace, RuntimePlace, QueuePlace
<1>1. CASE Join(c) \/ DrawTicket(c)
  <2>1. pc[c] \in Early /\ emitted' = emitted /\ \E p \in Early : pc' = [pc EXCEPT ![c] = p]
    BY <1>1 DEF Join, DrawTicket, Goto, results, Early
  <2> QED
    BY <1>0, <2>1, QuietTells DEF Quiet
<1>2. CASE Enqueue(c) \/ (EnterFault(c) /\ ~UNCHANGED emitted)
  <2>1. /\ pc[c] = "enqueuing" /\ Emit(c, {"queued"})
        /\ \/ pc' = [pc EXCEPT ![c] = "polling"]
           \/ pc' = [pc EXCEPT ![c] = "done"] /\ outcome'[c] = "error"
    BY <1>0, <1>2 DEF Enqueue, EnterFault, Goto, Settle
  <2>2. {"queued"} \in SUBSET Event /\ Tells(c, {"queued"})
    BY <1>0, <2>1 DEF Tells, Event, QueuePlace
  <2>3. pc' = [pc EXCEPT ![c] = pc'[c]] /\ pc'[c] \in QueuedPlace
    BY <1>0, <2>1 DEF QueuedPlace, RuntimePlace, QueuePlace
  <2> QED
    BY <2>1, <2>2, <2>3 DEF TellStep
<1>3. CASE (EnterFault(c) /\ UNCHANGED emitted) \/ PollFault(c)
  <2>1. emitted' = emitted /\ \E p \in Over : pc' = [pc EXCEPT ![c] = p]
    BY <1>3 DEF EnterFault, PollFault, Goto, Over
  <2>2. CASE Fault
    <3>1. faults' # faults
      BY <1>0, <2>2 DEF Fault
    <3> QED
      BY <1>0, <2>1, <3>1, QuietTells DEF Quiet
  <2>3. CASE ~Fault
    <3>1. pc[c] = "enqueuing" /\ Emit(c, {"queued"}) /\ pc' = [pc EXCEPT ![c] = "done"]
          /\ outcome'[c] = "error"
      BY <1>0, <1>3, <2>3 DEF EnterFault, PollFault, Goto, Settle
    <3>2. {"queued"} \in SUBSET Event /\ Tells(c, {"queued"}) /\ pc'[c] = "done"
      BY <1>0, <3>1 DEF Tells, Event, QueuePlace
    <3> QED
      BY <1>0, <3>1, <3>2 DEF TellStep, Over
  <2> QED
    BY <2>2, <2>3
<1>4. CASE PollTimesOut(c)
  <2>1. c \notin Manual /\ pc[c] = "polling"
    BY <1>0, <1>4 DEF PollTimesOut, Polling, QueuePlace
  <2>2. pc' = [pc EXCEPT ![c] = "leaving"] /\ Emit(c, {"failed"}) /\ pc'[c] = "leaving"
    BY <1>0, <1>4 DEF PollTimesOut, Goto
  <2>3. {"failed"} \in SUBSET Event /\ Tells(c, {"failed"})
    BY <2>1, <2>2 DEF Tells, Event, Over
  <2> QED
    BY <1>0, <2>2, <2>3 DEF TellStep, Over
<1>5. CASE Poll(c) \/ FetchPage(c) \/ Evict(c) \/ SleepOn(c) \/ ReEnter(c)
  <2>1. pc[c] \in Announced /\ emitted' = emitted /\ \E p \in Announced : pc' = [pc EXCEPT ![c] = p]
    BY <1>5 DEF Poll, Polling, FetchPage, Evict, Continue, SleepOn, ReEnter, BackToPolling, Goto,
       results, Announced, Waiting
  <2> QED
    BY <1>0, <2>1, QuietTells DEF Quiet
<1>6. CASE Leave(c) \/ LeaveFault(c)
  <2>1. pc[c] = "leaving" /\ pc' = [pc EXCEPT ![c] = "done"] /\ emitted' = emitted
    BY <1>6, MutexAssumption DEF Leave, LeaveFault, Goto, results
  <2> QED
    BY <1>0, <2>1, QuietTells DEF Quiet, Over
<1> QED
  BY <1>1, <1>2, <1>3, <1>4, <1>5, <1>6 DEF QueueStep

\* A step is one call's, or nobody goes anywhere.
LEMMA QueuedTells ==
    ASSUME QueuedInv, [QueuedNext]_queuedVars
    PROVE  (\E c \in Call : TellStep(c)) \/ UNCHANGED <<pc, emitted>>
<1>0. MutexType(QueuedPlace) /\ QueueInv
  BY DEF QueuedInv
<1>1. CASE MutexActs
  <2>1. CASE \E c \in Call : CallStep(c)
    BY <1>0, <2>1, MutexTells
  <2>2. CASE TimePasses \/ UNCHANGED mutexVars
    BY <2>2 DEF TimePasses, mutexVars, runtimeVars, results
  <2> QED
    BY <1>1, <2>1, <2>2 DEF MutexActs, MutexStep
<1>2. ASSUME NEW c \in Call, QueueActs(c) PROVE TellStep(c)
  BY <1>0, <1>2, QueueTells DEF QueueActs
<1>3. ASSUME NEW c \in Call, Admit(c) PROVE TellStep(c)
  <2>1. /\ pc[c] \in Announced /\ pc' = [pc EXCEPT ![c] = "acquiring"] /\ pc'[c] \in Announced
        /\ emitted' = emitted
    BY <1>0, <1>3 DEF Admit, Admitted, Goto, MutexType, RuntimeType, results, Announced, Waiting
  <2> QED
    BY <1>0, <2>1, QuietTells DEF Quiet, QueuedPlace
<1> QED
  BY <1>1, <1>2, <1>3, QueuedSteps

\* What a call has told of its span, by its stage.
TellInv ==
    \A c \in Call \ Manual :
        /\ pc[c] \in Early => emitted[c] \cap SpanMark = {}
        /\ pc[c] \in Announced => Marks(c) = {}
        /\ pc[c] \in Ran => Marks(c) = {"acquired"}

\* Every step keeps a call's events in line with its stage.
LEMMA TellKept ==
    ASSUME MutexType(QueuedPlace), TellInv, NEW c \in Call, TellStep(c)
    PROVE  TellInv'
<1>0. pc \in [Call -> QueuedPlace] /\ emitted \in [Call -> SUBSET Event]
  BY DEF MutexType, RuntimeType
<1>1. PICK E \in SUBSET Event : Emit(c, E) /\ Tells(c, E)
  BY DEF TellStep
<1>2. /\ \A d \in Call \ {c} : pc'[d] = pc[d] /\ emitted'[d] = emitted[d]
      /\ emitted'[c] = emitted[c] \cup E
  BY <1>0, <1>1 DEF TellStep, Emit
<1> SUFFICES ASSUME c \notin Manual
             PROVE  /\ pc'[c] \in Early => emitted'[c] \cap SpanMark = {}
                    /\ pc'[c] \in Announced => Marks(c)' = {}
                    /\ pc'[c] \in Ran => Marks(c)' = {"acquired"}
  BY <1>2 DEF TellInv, Marks
<1>3. /\ pc[c] \in Early => emitted[c] \cap SpanMark = {}
      /\ pc[c] \in Announced => Marks(c) = {}
      /\ pc[c] \in Ran => Marks(c) = {"acquired"}
  BY DEF TellInv
<1>4. CASE E \subseteq Plain /\ Quiet(c)
  <2>1. Marks(c)' = Marks(c) /\ emitted'[c] \cap SpanMark = emitted[c] \cap SpanMark
    BY <1>2, <1>4 DEF Marks, Mark, SpanMark, Plain
  <2>2. /\ pc'[c] \in Early => pc[c] \in Early
        /\ pc'[c] \in Ran => pc[c] \in Ran
        /\ pc'[c] \in Announced => pc[c] \in Announced \/ pc[c] \in Early
    BY <1>4 DEF Quiet, Early, Announced, Waiting, Ran, Running, Over
  <2>3. pc[c] \in Early => Marks(c) = {}
    BY <1>3 DEF Marks, SpanMark
  <2> QED
    BY <1>3, <2>1, <2>2, <2>3
<1>5. CASE E = {"queued"}
  BY <1>1, <1>2, <1>3, <1>5 DEF Tells, Plain, Marks, Mark, SpanMark, Early, Announced, Waiting, Ran, Running
<1>6. CASE E = {"acquired"}
  BY <1>1, <1>2, <1>3, <1>6 DEF Tells, Plain, Marks, Mark, Early, Announced, Waiting, Ran, Running
<1>7. CASE ~(E \subseteq Plain) /\ E # {"queued"} /\ E # {"acquired"}
  <2>1. pc'[c] \in Over
    BY <1>1, <1>7 DEF Tells
  <2> QED
    BY <2>1 DEF Over, Early, Announced, Waiting, Ran, Running
<1> QED
  BY <1>1, <1>4, <1>5, <1>6, <1>7 DEF Tells, Plain

\* What is new of a call: all it tells, unless that concerns no span.
LEMMA NewsTold ==
    ASSUME MutexType(QueuedPlace), TellInv, NEW c \in Call, NEW E \in SUBSET Event,
           Emit(c, E), Tells(c, E)
    PROVE  /\ \A d \in Call \ {c} : News(d) = {}
           /\ IF E \subseteq Plain THEN News(c) \subseteq Plain ELSE News(c) = E
<1>1. /\ \A d \in Call \ {c} : News(d) = {}
      /\ News(c) = E \ emitted[c]
  BY DEF MutexType, RuntimeType, Emit, News
<1>2. CASE ~(E \subseteq Plain)
  <2>1. c \notin Manual /\ c \in Call \ Manual
    BY <1>2 DEF Tells
  <2>2. /\ pc[c] = "enqueuing" => emitted[c] \cap SpanMark = {}
        /\ pc[c] \in {"granted", "polling", "acquiring"} => Marks(c) = {}
        /\ pc[c] = "releasing" => Marks(c) = {"acquired"}
    BY <2>1 DEF TellInv, Early, Announced, Waiting, Ran
  <2>3. E \cap emitted[c] = {}
    BY <1>2, <2>2 DEF Tells, Marks, Mark, SpanMark
  <2> QED
    BY <1>1, <1>2, <2>3
<1> QED
  BY <1>1, <1>2

-----------------------------------------------------------------------------
(* Sequences of spans.                                                      *)

SpanType == [by : Local, acquired : BOOLEAN]
SpansTyped == open \in [Label -> Seq(SpanType)]
AcquiredAt(s) == {i \in 1 .. Len(s) : s[i].acquired}
WaitingAt(s) == {i \in 1 .. Len(s) : ~s[i].acquired}

\* A nonempty set of positions has a first one.
LEMMA FirstOf ==
    ASSUME NEW I \in SUBSET Nat, I # {}
    PROVE  Min(I) \in I /\ \A i \in I : Min(I) <= i
<1>1. PICK k \in I : \A i \in I : ~(<<i, k>> \in OpToRel(<, Nat))
  BY WFMin, NatLessThanWellFounded
<1>2. \A i \in I : ~(i < k)
  BY <1>1 DEF OpToRel
<1>3. \A i \in I : k <= i
  BY <1>2
<1> QED
  BY <1>3 DEF Min

\* The listeners take the oldest span of the kind they look for.
LEMMA Selects ==
    ASSUME NEW s \in Seq(SpanType), NEW e, NEW I \in SUBSET Nat,
           \/ e = "failed" /\ I = WaitingAt(s)
           \/ e \in {"released", "release_failed"} /\ I = AcquiredAt(s)
    PROVE  /\ ToPop(s, e) = IF I = {} THEN 0 ELSE Min(I)
           /\ e = "failed" => TakeQueued(s) = ToPop(s, e)
<1>1. CASE e = "failed"
  BY <1>1 DEF ToPop, TakeQueued, SelectInSeq, Waits, WaitingAt
<1>2. CASE e \in {"released", "release_failed"}
  BY <1>2 DEF ToPop, SelectInSeq, Acquired, AcquiredAt
<1> QED
  BY <1>1, <1>2

\* Taking a span out moves the later ones up.
LEMMA RemovedAt ==
    ASSUME NEW S, NEW s \in Seq(S), NEW k \in 1 .. Len(s)
    PROVE  /\ RemoveAt(s, k) \in Seq(S)
           /\ Len(RemoveAt(s, k)) = Len(s) - 1
           /\ \A i \in 1 .. Len(s) - 1 : RemoveAt(s, k)[i] = IF i < k THEN s[i] ELSE s[i + 1]
<1>1. /\ \A i \in 1 .. Len(s) : s[i] \in S
      /\ Len(s) \in Nat /\ k \in Int /\ k - 1 \in Int /\ k + 1 \in Int
  BY ElementOfSeq, LenProperties
<1> DEFINE front == SubSeq(s, 1, k - 1)
           back == SubSeq(s, k + 1, Len(s))
<1>2. /\ front \in Seq(S) /\ Len(front) = k - 1
      /\ \A i \in 1 .. k - 1 : front[i] = s[i]
  <2>1. \A i \in 1 .. k - 1 : s[i] \in S
    BY <1>1
  <2> QED
    BY <1>1, <2>1, SubSeqProperties
<1>3. /\ back \in Seq(S) /\ Len(back) = Len(s) - k
      /\ \A i \in 1 .. Len(s) - k : back[i] = s[k + i]
  <2>1. \A i \in k + 1 .. Len(s) : s[i] \in S
    BY <1>1
  <2>2. /\ back \in Seq(S)
        /\ Len(back) = IF k + 1 <= Len(s) THEN Len(s) - (k + 1) + 1 ELSE 0
        /\ \A i \in 1 .. Len(s) - (k + 1) + 1 : back[i] = s[(k + 1) + i - 1]
    BY <1>1, <2>1, SubSeqProperties
  <2> QED
    BY <1>1, <2>2
<1>4. /\ front \o back \in Seq(S)
      /\ Len(front \o back) = Len(front) + Len(back)
      /\ \A i \in 1 .. Len(front) + Len(back) :
            (front \o back)[i] = IF i <= Len(front) THEN front[i] ELSE back[i - Len(front)]
  BY <1>2, <1>3, ConcatProperties
<1>5. RemoveAt(s, k) = front \o back
  BY DEF RemoveAt
<1> HIDE DEF front, back
<1>6. Len(front) + Len(back) = Len(s) - 1
  BY <1>1, <1>2, <1>3
<1>7. ASSUME NEW i \in 1 .. Len(s) - 1
      PROVE  (front \o back)[i] = IF i < k THEN s[i] ELSE s[i + 1]
  <2>1. CASE i < k
    BY <1>1, <1>2, <1>4, <1>6, <1>7, <2>1
  <2>2. CASE i >= k
    <3>1. i - (k - 1) \in 1 .. Len(s) - k /\ k + (i - (k - 1)) = i + 1
      BY <1>1, <1>7, <2>2
    <3>2. (front \o back)[i] = back[i - (k - 1)]
      BY <1>1, <1>2, <1>4, <1>6, <1>7, <2>2
    <3> QED
      BY <1>1, <1>3, <1>7, <2>2, <3>1, <3>2
  <2>3. i < k \/ i >= k
    BY <1>1, <1>7
  <2> QED
    BY <2>1, <2>2, <2>3
<1> QED
  BY <1>4, <1>5, <1>6, <1>7

\* The positions behind one that is taken out move up, and stay as many.
LEMMA Shifted ==
    ASSUME NEW n \in Nat, NEW k \in 1 .. n, NEW I \in SUBSET (1 .. n)
    PROVE  Cardinality({j \in 1 .. n - 1 : (IF j < k THEN j ELSE j + 1) \in I})
               = Cardinality(I \ {k})
<1> DEFINE J == {j \in 1 .. n - 1 : (IF j < k THEN j ELSE j + 1) \in I}
           f == [j \in J |-> IF j < k THEN j ELSE j + 1]
<1>1. IsFiniteSet(J)
  <2>1. IsFiniteSet(1 .. n - 1)
    BY FS_Interval
  <2> QED
    BY <2>1, FS_Subset
<1>2. f \in Bijection(J, I \ {k})
  <2>1. f \in [J -> I \ {k}]
    OBVIOUS
  <2>2. \A i, j \in J : f[i] = f[j] => i = j
    OBVIOUS
  <2>3. \A i \in I \ {k} : \E j \in J : f[j] = i
    <3> SUFFICES ASSUME NEW i \in I \ {k} PROVE \E j \in J : f[j] = i
      OBVIOUS
    <3>1. CASE i < k
      <4>1. i \in J /\ f[i] = i
        BY <3>1
      <4> QED
        BY <4>1
    <3>2. CASE i > k
      <4>1. i - 1 \in J /\ f[i - 1] = i
        BY <3>2
      <4> QED
        BY <4>1
    <3> QED
      BY <3>1, <3>2
  <2> QED
    BY <2>1, <2>2, <2>3, Fun_IsBij
<1>3. ExistsBijection(J, I \ {k})
  BY <1>2 DEF ExistsBijection
<1> QED
  BY <1>1, <1>3, FS_Bijection

\* Every span is of one kind, and there are finitely many.
LEMMA Kinds ==
    ASSUME NEW s \in Seq(SpanType)
    PROVE  /\ AcquiredAt(s) \in SUBSET Nat /\ IsFiniteSet(AcquiredAt(s))
           /\ WaitingAt(s) \in SUBSET Nat /\ IsFiniteSet(WaitingAt(s))
           /\ Cardinality(AcquiredAt(s)) \in Nat /\ Cardinality(WaitingAt(s)) \in Nat
           /\ Cardinality(AcquiredAt(s)) + Cardinality(WaitingAt(s)) = Len(s)
<1>0. Len(s) \in Nat
  OBVIOUS
<1>1. IsFiniteSet(1 .. Len(s)) /\ Cardinality(1 .. Len(s)) = Len(s)
  BY <1>0, FS_Interval
<1>2. AcquiredAt(s) \in SUBSET (1 .. Len(s)) /\ WaitingAt(s) \in SUBSET (1 .. Len(s))
  BY DEF AcquiredAt, WaitingAt
<1>3. IsFiniteSet(AcquiredAt(s)) /\ IsFiniteSet(WaitingAt(s))
  BY <1>1, <1>2, FS_Subset
<1>4. Cardinality(AcquiredAt(s)) \in Nat /\ Cardinality(WaitingAt(s)) \in Nat
  BY <1>3, FS_CardinalityType
<1>5. AcquiredAt(s) \cup WaitingAt(s) = 1 .. Len(s) /\ AcquiredAt(s) \cap WaitingAt(s) = {}
  BY DEF AcquiredAt, WaitingAt
<1>6. Cardinality(1 .. Len(s)) = Cardinality(AcquiredAt(s)) + Cardinality(WaitingAt(s)) - Cardinality({})
  BY <1>3, <1>5, FS_Union
<1> QED
  BY <1>0, <1>1, <1>2, <1>3, <1>4, <1>6, FS_EmptySet

\* A span more, of its own kind.
LEMMA CountPushed ==
    ASSUME NEW s \in Seq(SpanType), NEW x \in SpanType
    PROVE  /\ Append(s, x) \in Seq(SpanType)
           /\ Cardinality(AcquiredAt(Append(s, x)))
                = Cardinality(AcquiredAt(s)) + (IF x.acquired THEN 1 ELSE 0)
           /\ Cardinality(WaitingAt(Append(s, x)))
                = Cardinality(WaitingAt(s)) + (IF x.acquired THEN 0 ELSE 1)
<1> DEFINE t == Append(s, x)
           n == Len(s) + 1
<1>1. /\ t \in Seq(SpanType) /\ Len(t) = n /\ Len(s) \in Nat /\ t[n] = x
      /\ \A i \in 1 .. Len(s) : t[i] = s[i]
  BY AppendProperties, LenProperties
<1> HIDE DEF t
<1>2. n \notin AcquiredAt(s) /\ n \notin WaitingAt(s)
  BY <1>1 DEF AcquiredAt, WaitingAt
<1>3. /\ AcquiredAt(t) = IF x.acquired THEN AcquiredAt(s) \cup {n} ELSE AcquiredAt(s)
      /\ WaitingAt(t) = IF x.acquired THEN WaitingAt(s) ELSE WaitingAt(s) \cup {n}
  <2>1. 1 .. Len(t) = 1 .. Len(s) \cup {n}
    BY <1>1
  <2> QED
    BY <1>1, <2>1 DEF AcquiredAt, WaitingAt
<1>4. Cardinality(AcquiredAt(s) \cup {n}) = Cardinality(AcquiredAt(s)) + 1
  BY <1>2, Kinds, FS_AddElement
<1>5. Cardinality(WaitingAt(s) \cup {n}) = Cardinality(WaitingAt(s)) + 1
  BY <1>2, Kinds, FS_AddElement
<1>6. t = Append(s, x)
  BY DEF t
<1>7. /\ Cardinality(AcquiredAt(t)) = Cardinality(AcquiredAt(s)) + (IF x.acquired THEN 1 ELSE 0)
      /\ Cardinality(WaitingAt(t)) = Cardinality(WaitingAt(s)) + (IF x.acquired THEN 0 ELSE 1)
  <2>1. CASE x.acquired
    BY <1>3, <1>4, <2>1, Kinds
  <2>2. CASE ~x.acquired
    BY <1>3, <1>5, <2>2, Kinds
  <2> QED
    BY <2>1, <2>2
<1> QED
  BY <1>1, <1>6, <1>7

\* A waiting span becomes an acquired one.
LEMMA CountMarked ==
    ASSUME NEW s \in Seq(SpanType), NEW k \in WaitingAt(s)
    PROVE  LET t == [s EXCEPT ![k].acquired = TRUE] IN
           /\ t \in Seq(SpanType)
           /\ Len(t) = Len(s)
           /\ \A i \in 1 .. Len(s) : t[i] = IF i = k THEN [s[k] EXCEPT !.acquired = TRUE] ELSE s[i]
           /\ Cardinality(AcquiredAt(t)) = Cardinality(AcquiredAt(s)) + 1
           /\ Cardinality(WaitingAt(t)) = Cardinality(WaitingAt(s)) - 1
<1> DEFINE x == [s[k] EXCEPT !.acquired = TRUE]
           t == [s EXCEPT ![k] = x]
<1>1. k \in 1 .. Len(s) /\ s[k] \in SpanType /\ x \in SpanType /\ x.acquired
  <2>1. k \in 1 .. Len(s)
    BY DEF WaitingAt
  <2>2. s[k] \in SpanType
    BY <2>1, ElementOfSeq
  <2> QED
    BY <2>1, <2>2 DEF SpanType
<1>2. /\ t \in Seq(SpanType) /\ Len(t) = Len(s)
      /\ \A i \in 1 .. Len(s) : t[i] = IF i = k THEN x ELSE s[i]
  BY <1>1, ExceptSeq
<1>3. t = [s EXCEPT ![k].acquired = TRUE]
  OBVIOUS
<1> HIDE DEF t
<1>4. k \notin AcquiredAt(s) /\ AcquiredAt(t) = AcquiredAt(s) \cup {k}
      /\ WaitingAt(t) = WaitingAt(s) \ {k}
  <2> HIDE DEF x
  <2> QED
    BY <1>1, <1>2 DEF AcquiredAt, WaitingAt
<1>5. Cardinality(AcquiredAt(t)) = Cardinality(AcquiredAt(s)) + 1
  BY <1>4, Kinds, FS_AddElement
<1>6. Cardinality(WaitingAt(t)) = Cardinality(WaitingAt(s)) - 1
  BY <1>4, Kinds, FS_RemoveElement
<1> QED
  BY <1>2, <1>3, <1>5, <1>6

\* A span less, of its own kind.
LEMMA CountTaken ==
    ASSUME NEW s \in Seq(SpanType), NEW k \in 1 .. Len(s)
    PROVE  /\ RemoveAt(s, k) \in Seq(SpanType)
           /\ Cardinality(AcquiredAt(RemoveAt(s, k)))
                = Cardinality(AcquiredAt(s)) - (IF k \in AcquiredAt(s) THEN 1 ELSE 0)
           /\ Cardinality(WaitingAt(RemoveAt(s, k)))
                = Cardinality(WaitingAt(s)) - (IF k \in WaitingAt(s) THEN 1 ELSE 0)
<1> DEFINE t == RemoveAt(s, k)
           n == Len(s)
           Up(I) == {j \in 1 .. n - 1 : (IF j < k THEN j ELSE j + 1) \in I}
<1>1. /\ t \in Seq(SpanType) /\ Len(t) = n - 1 /\ n \in Nat /\ k \in 1 .. n
      /\ \A i \in 1 .. n - 1 : t[i] = IF i < k THEN s[i] ELSE s[i + 1]
  BY RemovedAt, LenProperties
<1> HIDE DEF t
<1>2. AcquiredAt(t) = Up(AcquiredAt(s)) /\ WaitingAt(t) = Up(WaitingAt(s))
  BY <1>1 DEF AcquiredAt, WaitingAt
<1>3. AcquiredAt(s) \in SUBSET (1 .. n) /\ WaitingAt(s) \in SUBSET (1 .. n)
  BY DEF AcquiredAt, WaitingAt
<1>4. /\ Cardinality(AcquiredAt(t)) = Cardinality(AcquiredAt(s) \ {k})
      /\ Cardinality(WaitingAt(t)) = Cardinality(WaitingAt(s) \ {k})
  BY <1>1, <1>2, <1>3, Shifted
<1>5. ASSUME NEW I \in {AcquiredAt(s), WaitingAt(s)}
      PROVE  Cardinality(I \ {k}) = Cardinality(I) - (IF k \in I THEN 1 ELSE 0)
  <2>1. IsFiniteSet(I) /\ Cardinality(I) \in Nat
    BY Kinds
  <2>2. Cardinality(I \ {k}) = IF k \in I THEN Cardinality(I) - 1 ELSE Cardinality(I)
    BY <2>1, FS_RemoveElement
  <2> QED
    BY <2>1, <2>2
<1> QED
  BY <1>1, <1>4, <1>5 DEF t

-----------------------------------------------------------------------------
(* Counting: as many acquired spans as calls between ACQUIRED and the end   *)
(* of their release, and no more waiting ones than calls that wait.         *)

LessOne(n) == IF n = 0 THEN 0 ELSE n - 1

\* What an event does to the numbers of spans.
LEMMA CountsAfter ==
    ASSUME NEW s \in Seq(SpanType), NEW c \in Local, NEW e \in SpanMark
    PROVE  LET t == SpansAfter(s, c, e)
               a == Cardinality(AcquiredAt(s))
               w == Cardinality(WaitingAt(s))
           IN  /\ t \in Seq(SpanType)
               /\ Cardinality(AcquiredAt(t)) =
                    IF e = "acquired" THEN a + 1
                    ELSE IF e \in {"released", "release_failed"} THEN LessOne(a) ELSE a
               /\ Cardinality(WaitingAt(t)) =
                    IF e = "queued" THEN w + 1
                    ELSE IF e \in {"acquired", "failed"} THEN LessOne(w) ELSE w
<1> DEFINE a == Cardinality(AcquiredAt(s))
           w == Cardinality(WaitingAt(s))
           x == [by |-> c, acquired |-> FALSE]
           y == [by |-> c, acquired |-> TRUE]
<1>1. /\ AcquiredAt(s) \in SUBSET Nat /\ WaitingAt(s) \in SUBSET Nat /\ a \in Nat /\ w \in Nat
      /\ IsFiniteSet(AcquiredAt(s)) /\ IsFiniteSet(WaitingAt(s))
  BY Kinds
<1>2. (a = 0 <=> AcquiredAt(s) = {}) /\ (w = 0 <=> WaitingAt(s) = {})
  BY <1>1, FS_EmptySet
<1>3. ASSUME NEW I \in {AcquiredAt(s), WaitingAt(s)}, I # {}
      PROVE  Min(I) \in I /\ Min(I) \in 1 .. Len(s) /\ Min(I) # 0
  BY <1>1, <1>3, FirstOf DEF AcquiredAt, WaitingAt
<1>4. AcquiredAt(s) \cap WaitingAt(s) = {}
  BY DEF AcquiredAt, WaitingAt
<1>5. x \in SpanType /\ y \in SpanType /\ ~x.acquired /\ y.acquired
  BY DEF SpanType
<1> HIDE DEF x, y
<1>6. CASE e = "queued"
  <2>1. SpansAfter(s, c, e) = Append(s, x)
    BY <1>6 DEF SpansAfter, x
  <2>2. /\ Append(s, x) \in Seq(SpanType)
        /\ Cardinality(AcquiredAt(Append(s, x))) = a + 0
        /\ Cardinality(WaitingAt(Append(s, x))) = w + 1
    BY <1>5, CountPushed
  <2> HIDE DEF a, w
  <2>3. a + 0 = a
    BY <1>1
  <2> QED
    BY <1>6, <2>1, <2>2, <2>3 DEF a, w
<1>7. CASE e = "acquired"
  <2>0. TakeQueued(s) = ToPop(s, "failed") /\ ToPop(s, "failed") = IF WaitingAt(s) = {} THEN 0 ELSE Min(WaitingAt(s))
    BY <1>1, Selects
  <2>1. CASE WaitingAt(s) = {}
    <3>1. SpansAfter(s, c, e) = Append(s, y)
      BY <1>7, <2>0, <2>1 DEF SpansAfter, y
    <3>2. /\ Append(s, y) \in Seq(SpanType)
          /\ Cardinality(AcquiredAt(Append(s, y))) = a + 1
          /\ Cardinality(WaitingAt(Append(s, y))) = w + 0
      BY <1>5, CountPushed
    <3>3. w + 0 = LessOne(w)
      BY <1>1, <1>2, <2>1 DEF LessOne
    <3> QED
      BY <1>7, <3>1, <3>2, <3>3
  <2>2. CASE WaitingAt(s) # {}
    <3>1. SpansAfter(s, c, e) = [s EXCEPT ![Min(WaitingAt(s))].acquired = TRUE]
      BY <1>3, <1>7, <2>0, <2>2 DEF SpansAfter
    <3>2. Min(WaitingAt(s)) \in WaitingAt(s) /\ w - 1 = LessOne(w)
      BY <1>1, <1>2, <1>3, <2>2 DEF LessOne
    <3>3. /\ SpansAfter(s, c, e) \in Seq(SpanType)
          /\ Cardinality(AcquiredAt(SpansAfter(s, c, e))) = a + 1
          /\ Cardinality(WaitingAt(SpansAfter(s, c, e))) = w - 1
      BY <3>1, <3>2, CountMarked
    <3> QED
      BY <1>7, <3>2, <3>3
  <2> QED
    BY <2>1, <2>2
<1>8. ASSUME NEW I \in {AcquiredAt(s), WaitingAt(s)},
             ToPop(s, e) = IF I = {} THEN 0 ELSE Min(I), e \notin {"queued", "acquired"}
      PROVE  /\ SpansAfter(s, c, e) \in Seq(SpanType)
             /\ Cardinality(AcquiredAt(SpansAfter(s, c, e))) = IF I = AcquiredAt(s) THEN LessOne(a) ELSE a
             /\ Cardinality(WaitingAt(SpansAfter(s, c, e))) = IF I = WaitingAt(s) THEN LessOne(w) ELSE w
  <2>1. CASE I = {}
    <3>1. SpansAfter(s, c, e) = s
      BY <1>8, <2>1 DEF SpansAfter
    <3> QED
      BY <1>1, <1>2, <2>1, <3>1 DEF LessOne
  <2>2. CASE I # {}
    <3>1. SpansAfter(s, c, e) = RemoveAt(s, Min(I))
      BY <1>3, <1>8, <2>2 DEF SpansAfter
    <3>2. Min(I) \in I /\ Min(I) \in 1 .. Len(s)
      BY <1>3, <2>2
    <3>3. /\ Min(I) \in AcquiredAt(s) <=> I = AcquiredAt(s)
          /\ Min(I) \in WaitingAt(s) <=> I = WaitingAt(s)
      BY <1>4, <2>2, <3>2
    <3>4. /\ I = AcquiredAt(s) => a # 0
          /\ I = WaitingAt(s) => w # 0
      BY <1>2, <2>2
    <3>5. /\ Cardinality(AcquiredAt(RemoveAt(s, Min(I)))) = a - (IF I = AcquiredAt(s) THEN 1 ELSE 0)
          /\ Cardinality(WaitingAt(RemoveAt(s, Min(I)))) = w - (IF I = WaitingAt(s) THEN 1 ELSE 0)
          /\ RemoveAt(s, Min(I)) \in Seq(SpanType)
      BY <3>2, <3>3, CountTaken
    <3> HIDE DEF a, w
    <3> QED
      BY <1>1, <3>1, <3>4, <3>5 DEF LessOne, a, w
  <2> QED
    BY <2>1, <2>2
<1>9. CASE e = "failed"
  <2>1. ToPop(s, e) = IF WaitingAt(s) = {} THEN 0 ELSE Min(WaitingAt(s))
    BY <1>1, <1>9, Selects
  <2>2. AcquiredAt(s) = WaitingAt(s) => a = 0
    BY <1>2, <1>4
  <2> QED
    BY <1>8, <1>9, <2>1, <2>2 DEF LessOne
<1>10. CASE e \in {"released", "release_failed"}
  <2>1. ToPop(s, e) = IF AcquiredAt(s) = {} THEN 0 ELSE Min(AcquiredAt(s))
    BY <1>1, <1>10, Selects
  <2>2. AcquiredAt(s) = WaitingAt(s) => w = 0
    BY <1>2, <1>4
  <2> QED
    BY <1>8, <1>10, <2>1, <2>2 DEF LessOne
<1> QED
  BY <1>6, <1>7, <1>9, <1>10 DEF SpanMark, Mark

\* The listeners, for what the calls tell: nothing, or a single event.
LEMMA ListenNone == \A s, c : Listened(s, c, {}) = s /\ Ended(s, {}) = {}
<1> SUFFICES ASSUME NEW s, NEW c PROVE Listened(s, c, {}) = s /\ Ended(s, {}) = {}
  OBVIOUS
<1>1. {x \in {} : ToPop(s, x) # 0} = {}
  OBVIOUS
<1> QED
  BY <1>1 DEF Listened, Ended

\* A single event is one application of SpansAfter, and ends the span it pops.
LEMMA ListenOne ==
    \A s, c, e : /\ Listened(s, c, {e}) = SpansAfter(s, c, e)
                 /\ ToPop(s, e) = 0 => Ended(s, {e}) = {}
                 /\ ToPop(s, e) # 0 => Ended(s, {e}) = {s[ToPop(s, e)].by}
<1> SUFFICES ASSUME NEW s, NEW c, NEW e
             PROVE  /\ Listened(s, c, {e}) = SpansAfter(s, c, e)
                    /\ ToPop(s, e) = 0 => Ended(s, {e}) = {}
                    /\ ToPop(s, e) # 0 => Ended(s, {e}) = {s[ToPop(s, e)].by}
  OBVIOUS
<1>1. (CHOOSE x \in {e} : TRUE) = e /\ {e} # {}
  OBVIOUS
<1>2. {x \in {e} : ToPop(s, x) # 0} = IF ToPop(s, e) = 0 THEN {} ELSE {e}
  OBVIOUS
<1> QED
  BY <1>1, <1>2 DEF Listened, Ended

\* What a call told: its label's spans after the listeners have heard it, and the
\* calls whose spans they have ended.
SpansHeard(c, E) ==
    Listened(Listened(open[Keys[c]], c, E \ InCatch), c, E \cap InCatch)
EndedBy(c, E) ==
    Ended(open[Keys[c]], E \ InCatch)
        \cup Ended(Listened(open[Keys[c]], c, E \ InCatch), E \cap InCatch)

\* A single event is heard once; one that concerns no span changes none.
LEMMA HeardEvents ==
    ASSUME NEW c, NEW E, NEW s, s = open[Keys[c]]
    PROVE  /\ E \subseteq Plain => SpansHeard(c, E) = s /\ EndedBy(c, E) = {}
           /\ \A e \in SpanMark : E = {e} =>
                /\ SpansHeard(c, E) = SpansAfter(s, c, e)
                /\ EndedBy(c, E) = IF ToPop(s, e) = 0 THEN {} ELSE {s[ToPop(s, e)].by}
<1>3. E \subseteq Plain => \A e \in SpanMark : E # {e}
  BY DEF Plain, SpanMark, Mark
<1>1. CASE E \subseteq Plain
  <2>1. E \ InCatch \in {{}, {"extended"}} /\ E \cap InCatch \in {{}, {"extend_failed"}}
    BY <1>1 DEF Plain, InCatch
  <2>2. \A e \in Plain : SpansAfter(s, c, e) = s /\ ToPop(s, e) = 0
    BY DEF SpansAfter, ToPop, Plain
  <2>3. \A e \in Plain : Listened(s, c, {e}) = s /\ Ended(s, {e}) = {}
    <3> SUFFICES ASSUME NEW e \in Plain PROVE Listened(s, c, {e}) = s /\ Ended(s, {e}) = {}
      OBVIOUS
    <3>1. SpansAfter(s, c, e) = s /\ ToPop(s, e) = 0
      BY <2>2
    <3>2. /\ Listened(s, c, {e}) = SpansAfter(s, c, e)
          /\ ToPop(s, e) = 0 => Ended(s, {e}) = {}
      BY ListenOne
    <3> QED
      BY <3>1, <3>2
  <2>4. Listened(s, c, {}) = s /\ Ended(s, {}) = {}
    BY ListenNone
  <2>5. \A D \in {{}, {"extended"}, {"extend_failed"}} : Listened(s, c, D) = s /\ Ended(s, D) = {}
    BY <2>3, <2>4 DEF Plain
  <2> QED
    BY <1>1, <1>3, <2>1, <2>5 DEF SpansHeard, EndedBy
<1>2. ASSUME NEW e \in SpanMark, E = {e}
      PROVE  /\ SpansHeard(c, E) = SpansAfter(s, c, e)
             /\ EndedBy(c, E) = IF ToPop(s, e) = 0 THEN {} ELSE {s[ToPop(s, e)].by}
  <2>1. \/ E \ InCatch = {e} /\ E \cap InCatch = {}
        \/ E \ InCatch = {} /\ E \cap InCatch = {e}
    BY <1>2
  <2>2. Listened(s, c, {}) = s /\ Ended(s, {}) = {}
    BY ListenNone
  <2>5. /\ Listened(s, c, {e}) = SpansAfter(s, c, e)
        /\ ToPop(s, e) = 0 => Ended(s, {e}) = {}
        /\ ToPop(s, e) # 0 => Ended(s, {e}) = {s[ToPop(s, e)].by}
    BY ListenOne
  <2>3. CASE E \ InCatch = {e} /\ E \cap InCatch = {}
    <3>1. Listened(SpansAfter(s, c, e), c, {}) = SpansAfter(s, c, e) /\ Ended(SpansAfter(s, c, e), {}) = {}
      BY ListenNone
    <3> QED
      BY <2>2, <2>3, <2>5, <3>1 DEF SpansHeard, EndedBy
  <2>4. CASE E \ InCatch = {} /\ E \cap InCatch = {e}
    BY <2>2, <2>4, <2>5 DEF SpansHeard, EndedBy
  <2> QED
    BY <2>1, <2>3, <2>4
<1> QED
  BY <1>1, <1>2, <1>3

\* So the spans change as the one call says that told something.
LEMMA TracedHears ==
    ASSUME MutexType(QueuedPlace), TellInv, TracedNext, open \in [Label -> Seq(SpanType)],
           NEW c \in Call, NEW E \in SUBSET Event, Emit(c, E), Tells(c, E)
    PROVE  /\ open' = IF c \in Local THEN [open EXCEPT ![Keys[c]] = SpansHeard(c, E)] ELSE open
           /\ crossed' = IF c \in Local
                         THEN crossed \cup {<<c, d>> : d \in EndedBy(c, E) \ {c}} ELSE crossed
<1>1. /\ \A d \in Call \ {c} : News(d) = {}
      /\ IF E \subseteq Plain THEN News(c) \subseteq Plain ELSE News(c) = E
  BY NewsTold
<1>2. Keys[c] \in Label /\ [open EXCEPT ![Keys[c]] = open[Keys[c]]] = open /\ Local \subseteq Call
  BY TracingAssumption DEF Label
<1>3. \/ \E d \in Local : News(d) # {} /\ Heard(d)
      \/ (\A d \in Local : News(d) = {}) /\ Silent
  BY DEF TracedNext
<1>4. CASE \E d \in Local : News(d) # {} /\ Heard(d)
  <2>1. c \in Local /\ Heard(c)
    BY <1>1, <1>2, <1>4
  <2>2. /\ open' = [open EXCEPT ![Keys[c]] = SpansHeard(c, News(c))]
        /\ crossed' = crossed \cup {<<c, d>> : d \in EndedBy(c, News(c)) \ {c}}
    BY <2>1 DEF Heard, SpansHeard, EndedBy
  <2>3. SpansHeard(c, News(c)) = SpansHeard(c, E) /\ EndedBy(c, News(c)) = EndedBy(c, E)
    <3>1. CASE E \subseteq Plain
      <4>1. News(c) \subseteq Plain
        BY <1>1, <3>1
      <4>2. \A D : D \subseteq Plain => SpansHeard(c, D) = open[Keys[c]] /\ EndedBy(c, D) = {}
        BY HeardEvents
      <4> QED
        BY <3>1, <4>1, <4>2
    <3>2. CASE ~(E \subseteq Plain)
      BY <1>1, <3>2
    <3> QED
      BY <3>1, <3>2
  <2> QED
    BY <2>1, <2>2, <2>3
<1>5. CASE (\A d \in Local : News(d) = {}) /\ Silent
  <2>1. CASE c \notin Local
    BY <1>5, <2>1 DEF Silent
  <2>2. CASE c \in Local
    <3>1. E \subseteq Plain
      BY <1>1, <1>5, <2>2
    <3>2. SpansHeard(c, E) = open[Keys[c]] /\ EndedBy(c, E) = {}
      BY <3>1, HeardEvents
    <3>3. crossed \cup {<<c, d>> : d \in EndedBy(c, E) \ {c}} = crossed
      BY <3>2
    <3> QED
      BY <1>2, <1>5, <2>2, <3>2, <3>3 DEF Silent
  <2> QED
    BY <2>1, <2>2
<1> QED
  BY <1>3, <1>4, <1>5

\* The calls of a label that are between ACQUIRED and the end of their release,
\* and those that have only told that they queue.
HoldersOf(l) == {c \in Call : InProgress(c, l) /\ "acquired" \in emitted[c]}
WaitersOf(l) == {c \in Call : InProgress(c, l) /\ "acquired" \notin emitted[c]}

CountInv ==
    /\ open \in [Label -> Seq(SpanType)]
    /\ \A l \in Label :
        /\ IsFiniteSet(HoldersOf(l)) /\ IsFiniteSet(WaitersOf(l))
        /\ Cardinality(AcquiredAt(open[l])) = Cardinality(HoldersOf(l))
        /\ Cardinality(WaitingAt(open[l])) <= Cardinality(WaitersOf(l))

\* What an event does to the calls in progress.
LEMMA ProgressAfter ==
    ASSUME MutexType(QueuedPlace), TellInv, NEW c \in Call, NEW e \in SpanMark,
           Emit(c, {e}), Tells(c, {e}), NEW l \in Label
    PROVE  LET h == HoldersOf(l)
               w == WaitersOf(l)
           IN  IF c \in Local /\ Keys[c] = l
               THEN /\ e = "queued" => c \notin h \cup w /\ HoldersOf(l)' = h /\ WaitersOf(l)' = w \cup {c}
                    /\ e = "acquired" => c \notin h /\ HoldersOf(l)' = h \cup {c} /\ WaitersOf(l)' = w \ {c}
                    /\ e = "failed" => HoldersOf(l)' = h /\ WaitersOf(l)' = w \ {c}
                    /\ e \in {"released", "release_failed"} =>
                         c \in h /\ HoldersOf(l)' = h \ {c} /\ WaitersOf(l)' = w
               ELSE HoldersOf(l)' = h /\ WaitersOf(l)' = w
<1>1. /\ \A d \in Call \ {c} : emitted'[d] = emitted[d]
      /\ emitted'[c] = emitted[c] \cup {e}
  BY DEF MutexType, RuntimeType, Emit
<1>2. \A d \in Call \ {c} : /\ InProgress(d, l)' <=> InProgress(d, l)
                            /\ "acquired" \in emitted'[d] <=> "acquired" \in emitted[d]
  BY <1>1 DEF InProgress
<1>3. ~(c \in Local /\ Keys[c] = l) => ~InProgress(c, l) /\ ~InProgress(c, l)'
  BY DEF InProgress
<1>4. c \in Call \ Manual /\ ~({e} \subseteq Plain)
  BY DEF Tells, SpanMark, Mark, Plain
<1>5. /\ e = "queued" => emitted[c] \cap SpanMark = {}
      /\ e \in {"acquired", "failed"} => Marks(c) = {}
      /\ e \in {"released", "release_failed"} => Marks(c) = {"acquired"}
  <2>1. /\ pc[c] = "enqueuing" => emitted[c] \cap SpanMark = {}
        /\ pc[c] \in {"granted", "polling", "acquiring"} => Marks(c) = {}
        /\ pc[c] = "releasing" => Marks(c) = {"acquired"}
    BY <1>4 DEF TellInv, Early, Announced, Waiting, Ran
  <2>2. /\ e = "queued" => pc[c] = "enqueuing"
        /\ e \in {"acquired", "failed"} => pc[c] \in {"granted", "polling", "acquiring"}
        /\ e \in {"released", "release_failed"} => pc[c] = "releasing"
    BY <1>4 DEF Tells
  <2> QED
    BY <2>1, <2>2
<1>6. ASSUME c \in Local, Keys[c] = l
      PROVE  /\ e = "queued" => /\ ~InProgress(c, l) /\ InProgress(c, l)'
                                /\ "acquired" \notin emitted'[c]
             /\ e = "acquired" => /\ "acquired" \notin emitted[c] /\ InProgress(c, l)'
                                  /\ "acquired" \in emitted'[c]
             /\ e = "failed" => "acquired" \notin emitted[c] /\ ~InProgress(c, l)'
             /\ e \in {"released", "release_failed"} =>
                  /\ InProgress(c, l) /\ "acquired" \in emitted[c] /\ ~InProgress(c, l)'
  BY <1>1, <1>5, <1>6 DEF InProgress, Marks, Mark, SpanMark
<1> QED
  BY <1>2, <1>3, <1>6 DEF HoldersOf, WaitersOf

\* Every step keeps the counts, if the listeners of ACQUIRED and RELEASED do not
\* throw: one that throws makes two events of one call.
LEMMA CountKept ==
    ASSUME MutexType(QueuedPlace), TellInv, CountInv, TracedNext, NEW c \in Call, TellStep(c),
           ThrowsOn \cap {"acquired", "released"} = {}
    PROVE  CountInv'
<1>1. PICK E \in SUBSET Event : Emit(c, E) /\ Tells(c, E)
  BY DEF TellStep
<1>2. open' = IF c \in Local THEN [open EXCEPT ![Keys[c]] = SpansHeard(c, E)] ELSE open
  BY <1>1, TracedHears DEF CountInv
<1>3. Keys[c] \in Label /\ open[Keys[c]] \in Seq(SpanType) /\ UNCHANGED Label
  BY DEF Label, CountInv
<1>4. E \subseteq Plain \/ \E e \in SpanMark : E = {e}
  BY <1>1 DEF Tells, SpanMark, Mark
<1>5. CASE E \subseteq Plain
  <2>1. open' = open
    <3>1. SpansHeard(c, E) = open[Keys[c]]
      BY <1>5, HeardEvents
    <3> QED
      BY <1>2, <1>3, <3>1 DEF CountInv
  <2>2. \A d \in Call, e \in SpanMark : e \in emitted'[d] <=> e \in emitted[d]
    BY <1>1, <1>5 DEF MutexType, RuntimeType, Emit, Plain, SpanMark, Mark
  <2>3. \A l : HoldersOf(l)' = HoldersOf(l) /\ WaitersOf(l)' = WaitersOf(l)
    <3>1. \A l : \A d \in Call : InProgress(d, l)' <=> InProgress(d, l)
      BY <2>2 DEF InProgress, SpanMark, Mark
    <3> QED
      BY <2>2, <3>1 DEF HoldersOf, WaitersOf, SpanMark, Mark
  <2> QED
    BY <1>3, <2>1, <2>3 DEF CountInv
<1>6. ASSUME NEW e \in SpanMark, E = {e} PROVE CountInv'
  <2>1. open' = IF c \in Local THEN [open EXCEPT ![Keys[c]] = SpansAfter(open[Keys[c]], c, e)] ELSE open
    <3>1. SpansHeard(c, E) = SpansAfter(open[Keys[c]], c, e)
      BY <1>6, HeardEvents
    <3> QED
      BY <1>2, <3>1
  <2>2. ASSUME NEW l \in Label
        PROVE  /\ open'[l] \in Seq(SpanType)
               /\ IsFiniteSet(HoldersOf(l))' /\ IsFiniteSet(WaitersOf(l))'
               /\ Cardinality(AcquiredAt(open'[l])) = Cardinality(HoldersOf(l)')
               /\ Cardinality(WaitingAt(open'[l])) <= Cardinality(WaitersOf(l)')
    <3> DEFINE h == HoldersOf(l)
               w == WaitersOf(l)
               s == open[l]
               t == SpansAfter(s, c, e)
    <3>1. /\ s \in Seq(SpanType) /\ IsFiniteSet(h) /\ IsFiniteSet(w)
          /\ Cardinality(AcquiredAt(s)) = Cardinality(h)
          /\ Cardinality(WaitingAt(s)) <= Cardinality(w)
      BY <2>2 DEF CountInv
    <3>2. CASE ~(c \in Local /\ Keys[c] = l)
      <4>1. open'[l] = s
        BY <2>1, <2>2, <3>2 DEF CountInv
      <4>2. HoldersOf(l)' = h /\ WaitersOf(l)' = w
        BY <1>1, <1>6, <3>2, ProgressAfter
      <4> QED
        BY <3>1, <4>1, <4>2
    <3>3. CASE c \in Local /\ Keys[c] = l
      <4>1. open'[l] = t
        BY <2>1, <3>3 DEF CountInv
      <4>2. /\ e = "queued" => c \notin h \cup w /\ HoldersOf(l)' = h /\ WaitersOf(l)' = w \cup {c}
            /\ e = "acquired" => c \notin h /\ HoldersOf(l)' = h \cup {c} /\ WaitersOf(l)' = w \ {c}
            /\ e = "failed" => HoldersOf(l)' = h /\ WaitersOf(l)' = w \ {c}
            /\ e \in {"released", "release_failed"} =>
                 c \in h /\ HoldersOf(l)' = h \ {c} /\ WaitersOf(l)' = w
        BY <1>1, <1>6, <3>3, ProgressAfter
      <4> DEFINE a == Cardinality(AcquiredAt(s))
                 b == Cardinality(WaitingAt(s))
      <4>3. /\ t \in Seq(SpanType)
            /\ Cardinality(AcquiredAt(t)) =
                 IF e = "acquired" THEN a + 1
                 ELSE IF e \in {"released", "release_failed"} THEN LessOne(a) ELSE a
            /\ Cardinality(WaitingAt(t)) =
                 IF e = "queued" THEN b + 1
                 ELSE IF e \in {"acquired", "failed"} THEN LessOne(b) ELSE b
        BY <3>1, <3>3, CountsAfter
      <4>4. a \in Nat /\ b \in Nat /\ Cardinality(h) \in Nat /\ Cardinality(w) \in Nat
        BY <3>1, Kinds, FS_CardinalityType
      <4>5. /\ IsFiniteSet(w \cup {c}) /\ IsFiniteSet(w \ {c}) /\ IsFiniteSet(h \cup {c}) /\ IsFiniteSet(h \ {c})
            /\ c \notin w => Cardinality(w \cup {c}) = Cardinality(w) + 1
            /\ c \notin h => Cardinality(h \cup {c}) = Cardinality(h) + 1
            /\ c \in h => Cardinality(h \ {c}) = Cardinality(h) - 1
            /\ Cardinality(w \ {c}) \in Nat
            /\ Cardinality(w \ {c}) \in {Cardinality(w), Cardinality(w) - 1}
        BY <3>1, FS_AddElement, FS_RemoveElement, FS_CardinalityType
      <4>6. c \in h => Cardinality(h) # 0
        BY <3>1, FS_EmptySet
      <4>7. LessOne(b) <= Cardinality(w \ {c})
        BY <3>1, <4>4, <4>5 DEF LessOne
      <4> HIDE DEF a, b, h, w, s, t
      <4>8. CASE e = "queued"
        <5>1. HoldersOf(l)' = h /\ WaitersOf(l)' = w \cup {c} /\ Cardinality(w \cup {c}) = Cardinality(w) + 1
          BY <4>2, <4>5, <4>8
        <5>2. Cardinality(AcquiredAt(t)) = a /\ Cardinality(WaitingAt(t)) = b + 1
          BY <4>3, <4>8
        <5>3. b <= Cardinality(w) => b + 1 <= Cardinality(w) + 1
          BY <4>4
        <5> QED
          BY <3>1, <4>1, <4>3, <4>5, <5>1, <5>2, <5>3 DEF a, b
      <4>9. CASE e = "acquired"
        BY <3>1, <4>1, <4>2, <4>3, <4>4, <4>5, <4>7, <4>9 DEF a, b
      <4>10. CASE e = "failed"
        BY <3>1, <4>1, <4>2, <4>3, <4>4, <4>5, <4>7, <4>10 DEF a, b
      <4>11. CASE e \in {"released", "release_failed"}
        BY <3>1, <4>1, <4>2, <4>3, <4>4, <4>5, <4>6, <4>11 DEF a, b, LessOne
      <4> QED
        BY <4>8, <4>9, <4>10, <4>11 DEF SpanMark, Mark
    <3> QED
      BY <3>2, <3>3
  <2>3. open' \in [Label -> Seq(SpanType)]
    <3>1. \A l \in Label : open'[l] \in Seq(SpanType)
      BY <2>2
    <3> QED
      BY <2>1, <3>1 DEF CountInv
  <2> QED
    BY <1>3, <2>2, <2>3 DEF CountInv
<1> QED
  BY <1>4, <1>5, <1>6

\* Before anything happens nothing is told and no span is open.
LEMMA TracedStarts == TracedInit => TellInv /\ CountInv
<1> SUFFICES ASSUME TracedInit PROVE TellInv /\ CountInv
  OBVIOUS
<1>1. /\ pc = [c \in Call |-> "idle"] /\ emitted = [c \in Call |-> {}]
      /\ open = [l \in Label |-> << >>]
  BY DEF TracedInit, QueuedInit, Init, RuntimeInit
<1>2. TellInv
  BY <1>1 DEF TellInv, Early, Announced, Waiting, Ran, Running
<1>3. \A l : HoldersOf(l) = {} /\ WaitersOf(l) = {}
  BY <1>1 DEF HoldersOf, WaitersOf, InProgress
<1>4. << >> \in Seq(SpanType) /\ AcquiredAt(<< >>) = {} /\ WaitingAt(<< >>) = {}
  BY DEF AcquiredAt, WaitingAt
<1>5. IsFiniteSet({}) /\ Cardinality({}) = 0
  BY FS_EmptySet
<1>6. open \in [Label -> Seq(SpanType)] /\ \A l \in Label : open[l] = << >>
  BY <1>1, <1>4
<1>7. Cardinality({}) <= Cardinality({})
  BY <1>5
<1>8. ASSUME NEW l \in Label
      PROVE  /\ IsFiniteSet(HoldersOf(l)) /\ IsFiniteSet(WaitersOf(l))
             /\ Cardinality(AcquiredAt(open[l])) = Cardinality(HoldersOf(l))
             /\ Cardinality(WaitingAt(open[l])) <= Cardinality(WaitersOf(l))
  <2>1. /\ HoldersOf(l) = {} /\ WaitersOf(l) = {}
        /\ AcquiredAt(open[l]) = {} /\ WaitingAt(open[l]) = {}
    BY <1>3, <1>4, <1>6
  <2> QED
    BY <1>5, <1>7, <2>1
<1> QED
  BY <1>2, <1>6, <1>8 DEF CountInv

\* A traced step is one call's that tells something, or nothing is told.
LEMMA TracedSteps ==
    ASSUME QueuedInv, [TracedNext]_tracedVars
    PROVE  \/ TracedNext /\ \E c \in Call : TellStep(c)
           \/ UNCHANGED <<pc, emitted, open, crossed>>
<1>1. CASE UNCHANGED tracedVars
  BY <1>1 DEF tracedVars, queuedVars, mutexVars, runtimeVars, results
<1>2. CASE TracedNext
  <2>1. (\E c \in Call : TellStep(c)) \/ UNCHANGED <<pc, emitted>>
    BY <1>2, QueuedTells DEF TracedNext
  <2>2. CASE UNCHANGED <<pc, emitted>>
    <3>1. \A d \in Call : News(d) = {}
      BY <2>2 DEF News
    <3>2. UNCHANGED <<open, crossed>>
      BY <1>2, <3>1, TracingAssumption DEF TracedNext, Silent
    <3> QED
      BY <2>2, <3>2
  <2> QED
    BY <1>2, <2>1, <2>2
<1> QED
  BY <1>1, <1>2

\* A traced service is a queued one.
LEMMA TracedIsQueued == TracedSpec => []QueuedInv
<1>1. TracedInit => QueuedInit
  BY DEF TracedInit
<1>2. [TracedNext]_tracedVars => [QueuedNext]_queuedVars
  BY DEF TracedNext, tracedVars
<1>3. TracedSpec => QueuedSpec
  BY <1>1, <1>2, PTL DEF TracedSpec, QueuedSpec
<1> QED
  BY <1>3, QueuedInvariant, PTL

\* However the tracing mixes up the calls, there are as many acquired spans as
\* calls between ACQUIRED and the end of their release, and no span outlives its
\* label's calls unless one ended without an event: unless listeners of ACQUIRED
\* or RELEASED throw, when one call tells two ends.
THEOREM SpansMatch ==
    ASSUME ThrowsOn \cap {"acquired", "released"} = {}
    PROVE  TracedSpec => []SpansMatchCalls
<1> DEFINE Inv == TellInv /\ CountInv
<1>1. TracedInit => Inv
  BY TracedStarts
<1>2. QueuedInv /\ Inv /\ [TracedNext]_tracedVars => Inv'
  <2> SUFFICES ASSUME QueuedInv, TellInv, CountInv, [TracedNext]_tracedVars
               PROVE  TellInv' /\ CountInv'
    OBVIOUS
  <2>1. MutexType(QueuedPlace)
    BY DEF QueuedInv
  <2>2. CASE TracedNext /\ \E c \in Call : TellStep(c)
    BY <2>1, <2>2, TellKept, CountKept
  <2>3. CASE UNCHANGED <<pc, emitted, open, crossed>>
    <3>1. TellInv'
      BY <2>3 DEF TellInv, Marks
    <3>2. CountInv'
      BY <2>3 DEF CountInv, HoldersOf, WaitersOf, InProgress, Label
    <3> QED
      BY <3>1, <3>2
  <2> QED
    BY <2>2, <2>3, TracedSteps
<1>3. CountInv => SpansMatchCalls
  <2> SUFFICES ASSUME CountInv, NEW l \in Label
               PROVE  LET busy == {c \in Call : InProgress(c, l)} IN
                      /\ Cardinality({i \in DOMAIN open[l] : open[l][i].acquired})
                            = Cardinality({c \in busy : "acquired" \in emitted[c]})
                      /\ Len(open[l]) <= Cardinality(busy)
    BY DEF SpansMatchCalls
  <2> DEFINE busy == {c \in Call : InProgress(c, l)}
  <2>1. /\ open[l] \in Seq(SpanType) /\ IsFiniteSet(HoldersOf(l)) /\ IsFiniteSet(WaitersOf(l))
        /\ Cardinality(AcquiredAt(open[l])) = Cardinality(HoldersOf(l))
        /\ Cardinality(WaitingAt(open[l])) <= Cardinality(WaitersOf(l))
    BY DEF CountInv
  <2>2. {i \in DOMAIN open[l] : open[l][i].acquired} = AcquiredAt(open[l])
    <3>1. DOMAIN open[l] = 1 .. Len(open[l])
      BY <2>1
    <3> QED
      BY <3>1 DEF AcquiredAt
  <2>3. {c \in busy : "acquired" \in emitted[c]} = HoldersOf(l)
    BY DEF HoldersOf
  <2>4. busy = HoldersOf(l) \cup WaitersOf(l) /\ HoldersOf(l) \cap WaitersOf(l) = {}
    BY DEF HoldersOf, WaitersOf
  <2>5. Cardinality(busy) = Cardinality(HoldersOf(l)) + Cardinality(WaitersOf(l)) - Cardinality({})
    BY <2>1, <2>4, FS_Union
  <2>6. Cardinality({}) = 0 /\ Cardinality(HoldersOf(l)) \in Nat /\ Cardinality(WaitersOf(l)) \in Nat
    BY <2>1, FS_EmptySet, FS_CardinalityType
  <2>7. /\ Cardinality(WaitingAt(open[l])) \in Nat
        /\ Cardinality(AcquiredAt(open[l])) + Cardinality(WaitingAt(open[l])) = Len(open[l])
    BY <2>1, Kinds
  <2> HIDE DEF busy
  <2>8. Len(open[l]) <= Cardinality(busy)
    BY <2>1, <2>5, <2>6, <2>7
  <2> QED
    BY <2>1, <2>2, <2>3, <2>8 DEF busy
<1> QED
  BY <1>1, <1>2, <1>3, TracedIsQueued, PTL DEF TracedSpec

-----------------------------------------------------------------------------
(* Pairing: while nothing disturbs it, every span belongs to a call at the  *)
(* stage the span says, the waiting ones stand in the order of the tickets, *)
(* and only one call of a label holds its lock.  So the oldest span of the  *)
(* kind a listener looks for is that of the call that told the event.       *)

WellMeant(x, l) ==
    /\ x.by \in Ticketed /\ Keys[x.by] = l
    /\ IF x.acquired THEN pc[x.by] \in Ran ELSE pc[x.by] \in Announced

Paired(l) ==
    /\ \A i \in 1 .. Len(open[l]) : WellMeant(open[l][i], l)
    /\ \A i, j \in 1 .. Len(open[l]) : open[l][i].by = open[l][j].by => i = j
    /\ \A i, j \in WaitingAt(open[l]) : i < j => ticket[open[l][i].by] < ticket[open[l][j].by]
    /\ \A i \in WaitingAt(open[l]), d \in Local :
          pc[d] = "enqueuing" => ticket[open[l][i].by] < ticket[d]

HasSpan(c) ==
    /\ c \in Ticketed /\ pc[c] \in Announced =>
          \E i \in WaitingAt(open[Keys[c]]) : open[Keys[c]][i].by = c
    /\ c \notin Manual /\ pc[c] \in Ran =>
          \E i \in AcquiredAt(open[Keys[c]]) : open[Keys[c]][i].by = c

PairInv ==
    ~disturbed => /\ crossed = {}
                  /\ \A l \in Label : Paired(l)
                  /\ \A c \in Local : HasSpan(c)

\* A call gets its ticket, the largest so far, on its way to enqueuing.
TicketsMove ==
    \A d \in Call :
        \/ ticket'[d] = ticket[d] /\ (pc'[d] = "enqueuing" => pc[d] = "enqueuing")
        \/ pc[d] = "joining" /\ pc'[d] = "enqueuing" /\ ticket'[d] = tickets + 1

\* Nobody else's ticket changes, whatever a step is of.
LEMMA QueuedTicketsMove ==
    ASSUME QueuedInv, [QueuedNext]_queuedVars
    PROVE  TicketsMove
<1>0. MutexType(QueuedPlace) /\ RuntimeType(QueuedPlace) /\ QueueInv /\ pc \in [Call -> QueuedPlace]
  BY DEF QueuedInv, MutexType, RuntimeType
<1>1. CASE MutexActs
  <2>1. \A d \in Call : pc'[d] \in QueuePlace \cup {"idle"} => pc'[d] = pc[d]
    BY <1>0, <1>1, MutexGoes DEF MutexActs
  <2> QED
    BY <1>1, <2>1 DEF MutexActs, queueVars, TicketsMove, QueuePlace
<1>2. ASSUME NEW c \in Call, QueueActs(c) PROVE TicketsMove
  <2>1. QueueMove(c) /\ QueueEdge(c)
    BY <1>0, <1>2, QueueMoves, QueueEdges DEF QueueActs
  <2>2. \A d \in Call \ {c} : pc'[d] = pc[d] /\ ticket'[d] = ticket[d]
    BY <2>1 DEF QueueMove
  <2>3. /\ pc'[c] \in Early => pc[c] \in Early
        /\ \/ ticket' = ticket /\ (pc'[c] \in Entered => pc[c] \in Entered)
           \/ pc[c] = "joining" /\ pc'[c] = "enqueuing" /\ ticket'[c] = tickets + 1
    BY <2>1 DEF QueueMove, QueueEdge
  <2>4. pc'[c] = "enqueuing" /\ ticket' = ticket => pc[c] = "enqueuing" \/ pc[c] = "joining"
    BY <2>3 DEF Early, Entered, InLine, Waiting, TurnPlace
  <2>5. \/ ticket'[c] = ticket[c] /\ (pc'[c] = "enqueuing" => pc[c] = "enqueuing")
        \/ pc[c] = "joining" /\ pc'[c] = "enqueuing" /\ ticket'[c] = tickets + 1
    BY <2>3 DEF Early, Entered, InLine, Waiting, TurnPlace
  <2> QED
    BY <2>2, <2>5 DEF TicketsMove
<1>3. ASSUME NEW c \in Call, Admit(c) PROVE TicketsMove
  BY <1>0, <1>3 DEF Admit, Goto, TicketsMove
<1> QED
  BY <1>1, <1>2, <1>3, QueuedSteps

\* Another call's span is still there.
StillThere(s, t, c) == \A i \in 1 .. Len(s) : s[i].by # c => \E j \in 1 .. Len(t) : t[j] = s[i]

\* The spans t are what is left of s, in the same order (the i-th was the f[i]-th), some
\* no longer waiting, and each says the stage its call gets to.
Left(s, t, f) ==
    /\ f \in [1 .. Len(t) -> 1 .. Len(s)]
    /\ \A i, j \in 1 .. Len(t) : i < j => f[i] < f[j]
    /\ \A i \in 1 .. Len(t) :
        /\ t[i].by = s[f[i]].by
        /\ s[f[i]].acquired => t[i].acquired
        /\ IF t[i].acquired THEN pc'[t[i].by] \in Ran ELSE pc'[t[i].by] \in Announced

\* A label of which some spans are taken out, or go from waiting to acquired, stays
\* paired.
LEMMA PairedOn ==
    ASSUME QueuedInv, SpansTyped, TicketsMove, NEW l \in Label, Paired(l),
           NEW t \in Seq(SpanType), open'[l] = t, NEW f, Left(open[l], t, f)
    PROVE  Paired(l)'
<1> DEFINE s == open[l]
<1> USE DEF Left
<1>1. /\ ticket \in [Call -> Nat] /\ tickets \in Nat /\ \A c \in Call : ticket[c] <= tickets
      /\ Local \subseteq Call
  BY TracingAssumption DEF QueuedInv, QueueInv, QueueType, TicketsDrawn
<1>2. /\ s \in Seq(SpanType) /\ Len(s) \in Nat /\ Len(t) \in Nat
      /\ \A i \in 1 .. Len(s) : s[i].by \in Call
  <2>1. s \in Seq(SpanType)
    BY DEF SpansTyped
  <2>2. \A i \in 1 .. Len(s) : s[i] \in SpanType
    BY <2>1, ElementOfSeq
  <2> QED
    BY <1>1, <2>1, <2>2, LenProperties DEF SpanType
<1>3. \A i \in 1 .. Len(s) : ticket'[s[i].by] = ticket[s[i].by]
  <2> SUFFICES ASSUME NEW i \in 1 .. Len(s) PROVE ticket'[s[i].by] = ticket[s[i].by]
    OBVIOUS
  <2>1. pc[s[i].by] # "joining"
    BY DEF Paired, WellMeant, Ran, Running, Announced, Waiting
  <2> QED
    BY <1>2, <2>1 DEF TicketsMove
<1>4. \A i \in 1 .. Len(t) : /\ f[i] \in 1 .. Len(s) /\ t[i].by = s[f[i]].by
                             /\ t[i].by \in Ticketed /\ Keys[t[i].by] = l
                             /\ ticket'[t[i].by] = ticket[s[f[i]].by]
                             /\ i \in WaitingAt(t) => f[i] \in WaitingAt(s)
  <2> SUFFICES ASSUME NEW i \in 1 .. Len(t)
               PROVE  /\ f[i] \in 1 .. Len(s) /\ t[i].by = s[f[i]].by
                      /\ t[i].by \in Ticketed /\ Keys[t[i].by] = l
                      /\ ticket'[t[i].by] = ticket[s[f[i]].by]
                      /\ i \in WaitingAt(t) => f[i] \in WaitingAt(s)
    OBVIOUS
  <2>1. f[i] \in 1 .. Len(s) /\ t[i].by = s[f[i]].by /\ (s[f[i]].acquired => t[i].acquired)
    OBVIOUS
  <2>2. s[f[i]].by \in Ticketed /\ Keys[s[f[i]].by] = l
    BY <2>1 DEF Paired, WellMeant
  <2> QED
    BY <1>3, <2>1, <2>2 DEF WaitingAt
<1>5. \A i \in WaitingAt(t) : i \in 1 .. Len(t)
  BY DEF WaitingAt
<1>6. ASSUME NEW i \in 1 .. Len(t), NEW j \in 1 .. Len(t), t[i].by = t[j].by PROVE i = j
  <2>1. f[i] = f[j]
    <3>1. f[i] \in 1 .. Len(s) /\ f[j] \in 1 .. Len(s) /\ s[f[i]].by = s[f[j]].by
      BY <1>4, <1>6
    <3> QED
      BY <3>1 DEF Paired
  <2>2. i < j \/ j < i \/ i = j
    BY <1>2
  <2>3. f[i] \in Nat /\ f[j] \in Nat /\ ~(f[i] < f[j]) /\ ~(f[j] < f[i])
    BY <1>2, <1>4, <2>1
  <2> QED
    BY <2>2, <2>3
<1>7. ASSUME NEW i \in WaitingAt(t), NEW j \in WaitingAt(t), i < j
      PROVE  ticket'[t[i].by] < ticket'[t[j].by]
  <2>1. i \in 1 .. Len(t) /\ j \in 1 .. Len(t) /\ f[i] < f[j]
    BY <1>5, <1>7
  <2>2. ticket[s[f[i]].by] < ticket[s[f[j]].by]
    BY <1>4, <2>1 DEF Paired
  <2> QED
    BY <1>4, <2>1, <2>2
<1>8. ASSUME NEW i \in WaitingAt(t), NEW d \in Local, pc'[d] = "enqueuing"
      PROVE  ticket'[t[i].by] < ticket'[d]
  <2>1. i \in 1 .. Len(t) /\ f[i] \in WaitingAt(s)
    BY <1>4, <1>5
  <2>2. CASE pc[d] = "enqueuing" /\ ticket'[d] = ticket[d]
    BY <1>4, <2>1, <2>2 DEF Paired
  <2>3. CASE ticket'[d] = tickets + 1
    BY <1>1, <1>2, <1>4, <2>1, <2>3
  <2> QED
    BY <1>1, <1>8, <2>2, <2>3 DEF TicketsMove
<1> QED
  BY <1>4, <1>6, <1>7, <1>8 DEF Paired, WellMeant

\* A call that gets in line pushes its span behind those of all that are in line
\* before it: its ticket is the largest.
LEMMA PairedPushed ==
    ASSUME QueuedInv, SpansTyped, TicketsMove, NEW c \in Local, NEW l \in Label, Paired(l),
           c \in Ticketed, Keys[c] = l, pc[c] = "enqueuing", pc' = [pc EXCEPT ![c] = "polling"],
           Pipelined(c), open'[l] = Append(open[l], [by |-> c, acquired |-> FALSE])
    PROVE  Paired(l)' /\ StillThere(open[l], open'[l], c) /\ HasSpan(c)'
<1> DEFINE s == open[l]
           n == Len(s) + 1
           x == [by |-> c, acquired |-> FALSE]
           MeantThen(y) == /\ y.by \in Ticketed /\ Keys[y.by] = l
                           /\ IF y.acquired THEN pc'[y.by] \in Ran ELSE pc'[y.by] \in Announced
<1>1. /\ ticket \in [Call -> Nat] /\ pc \in [Call -> QueuedPlace] /\ Local \subseteq Call
      /\ \A d, e \in Call : ticket[d] = ticket[e] /\ ticket[d] # 0 => d = e
      /\ ticket[c] # 0
  BY TracingAssumption
  DEF QueuedInv, QueueInv, QueueType, TicketsDrawn, Entered, MutexType, RuntimeType
<1>2. /\ s \in Seq(SpanType) /\ Len(s) \in Nat /\ \A i \in 1 .. Len(s) : s[i] \in SpanType
  <2>1. s \in Seq(SpanType)
    BY DEF SpansTyped
  <2> QED
    BY <2>1, ElementOfSeq, LenProperties
<1>3. Len(open'[l]) = n /\ open'[l][n] = x /\ \A i \in 1 .. Len(s) : open'[l][i] = s[i]
  BY <1>2, AppendProperties DEF x
<1>4. \A i \in 1 .. Len(s) : s[i].by \in Local /\ s[i].by # c
  BY <1>2 DEF SpanType, Paired, WellMeant, Ran, Running, Announced, Waiting
<1>5. /\ pc'[c] = "polling" /\ \A d \in Call \ {c} : pc'[d] = pc[d]
      /\ \A d \in Call : ticket'[d] = ticket[d]
  BY <1>1 DEF TicketsMove
<1>6. 1 .. n = 1 .. Len(s) \cup {n} /\ n \notin 1 .. Len(s) /\ \A i \in 1 .. n : ~(n < i)
  BY <1>2
<1> HIDE DEF n, x
<1>7. x.by = c /\ ~x.acquired
  BY DEF x
<1>8. WaitingAt(open'[l]) = WaitingAt(s) \cup {n} /\ \A i \in WaitingAt(s) : i \in 1 .. Len(s)
  <2>1. \A i \in 1 .. n : ~open'[l][i].acquired <=> i \in WaitingAt(s) \/ i = n
    BY <1>3, <1>6, <1>7 DEF WaitingAt
  <2> QED
    BY <1>3, <1>6, <2>1 DEF WaitingAt
<1>9. \A i \in 1 .. n : MeantThen(open'[l][i])
  <2>1. MeantThen(x)
    BY <1>5, <1>7 DEF Announced, Waiting
  <2>2. ASSUME NEW i \in 1 .. Len(s) PROVE MeantThen(s[i])
    <3>1. WellMeant(s[i], l)
      BY DEF Paired
    <3>2. pc'[s[i].by] = pc[s[i].by]
      BY <1>1, <1>4, <1>5
    <3> QED
      BY <3>1, <3>2 DEF WellMeant
  <2> HIDE DEF MeantThen
  <2> QED
    BY <1>3, <1>6, <2>1, <2>2
<1>10. \A i, j \in 1 .. n : open'[l][i].by = open'[l][j].by => i = j
  <2>1. \A i, j \in 1 .. Len(s) : s[i].by = s[j].by => i = j
    BY DEF Paired
  <2> QED
    BY <1>3, <1>4, <1>6, <1>7, <2>1
<1>11. \A i \in WaitingAt(s) : ticket[s[i].by] < ticket[c]
  BY DEF Paired
<1>12. ASSUME NEW i \in WaitingAt(open'[l]), NEW j \in WaitingAt(open'[l]), i < j
       PROVE  ticket'[open'[l][i].by] < ticket'[open'[l][j].by]
  <2>1. i # n /\ i \in WaitingAt(s)
    BY <1>6, <1>8, <1>12
  <2>2. CASE j = n
    BY <1>1, <1>3, <1>4, <1>5, <1>7, <1>8, <1>11, <2>1, <2>2
  <2>3. CASE j \in WaitingAt(s)
    <3>1. ticket[s[i].by] < ticket[s[j].by]
      BY <1>12, <2>1, <2>3 DEF Paired
    <3> QED
      BY <1>1, <1>3, <1>4, <1>5, <1>8, <2>1, <2>3, <3>1
  <2> QED
    BY <1>8, <2>2, <2>3
<1>13. ASSUME NEW i \in WaitingAt(open'[l]), NEW d \in Local, pc'[d] = "enqueuing"
       PROVE  ticket'[open'[l][i].by] < ticket'[d]
  <2>1. d # c /\ pc[d] = "enqueuing" /\ d \in Call
    BY <1>1, <1>5, <1>13
  <2>2. ticket[c] < ticket[d]
    <3>1. ticket[c] <= ticket[d]
      BY <2>1 DEF Pipelined
    <3>2. ticket[c] # ticket[d]
      BY <1>1, <2>1
    <3> QED
      BY <1>1, <2>1, <3>1, <3>2
  <2>3. CASE i = n
    BY <1>1, <1>3, <1>5, <1>7, <2>1, <2>2, <2>3
  <2>4. CASE i \in WaitingAt(s)
    <3>1. ticket[s[i].by] < ticket[d]
      BY <2>1, <2>4 DEF Paired
    <3> QED
      BY <1>1, <1>3, <1>4, <1>5, <1>8, <2>1, <2>4, <3>1
  <2> QED
    BY <1>8, <2>3, <2>4
<1>14. Paired(l)'
  BY <1>3, <1>9, <1>10, <1>12, <1>13 DEF Paired, WellMeant
<1>15. StillThere(s, open'[l], c)
  BY <1>3, <1>6 DEF StillThere
<1>16. HasSpan(c)'
  BY <1>3, <1>5, <1>7, <1>8 DEF HasSpan, Ran, Running
<1> QED
  BY <1>14, <1>15, <1>16

\* A label whose oldest span that waits is that of a call that waits itself, and
\* has the smallest ticket.
LEMMA FirstIsOwn ==
    ASSUME SpansTyped, NEW c \in Local, NEW l \in Label, Keys[c] = l, Paired(l), HasSpan(c),
           c \in Ticketed, pc[c] \in Announced, ticket \in [Call -> Nat],
           \A d \in Local : pc[d] \in Announced => ~(ticket[d] < ticket[c])
    PROVE  /\ WaitingAt(open[l]) # {} /\ WaitingAt(open[l]) \in SUBSET Nat
           /\ Min(WaitingAt(open[l])) \in WaitingAt(open[l])
           /\ open[l][Min(WaitingAt(open[l]))].by = c
<1> DEFINE s == open[l]
           m == Min(WaitingAt(s))
<1>1. s \in Seq(SpanType) /\ WaitingAt(s) \in SUBSET Nat /\ \A i \in 1 .. Len(s) : s[i].by \in Local
  <2>1. s \in Seq(SpanType)
    BY DEF SpansTyped
  <2>2. \A i \in 1 .. Len(s) : s[i] \in SpanType
    BY <2>1, ElementOfSeq
  <2> QED
    BY <2>1, <2>2, Kinds DEF SpanType
<1>2. PICK k \in WaitingAt(s) : s[k].by = c
  BY DEF HasSpan
<1>3. m \in WaitingAt(s) /\ m <= k
  BY <1>1, <1>2, FirstOf
<1> HIDE DEF m
<1>4. s[m].by \in Local /\ pc[s[m].by] \in Announced
  BY <1>1, <1>3 DEF WaitingAt, Paired, WellMeant
<1>5. ~(m < k)
  <2>1. m < k => ticket[s[m].by] < ticket[s[k].by]
    BY <1>2, <1>3 DEF Paired
  <2> QED
    BY <1>2, <1>4, <2>1
<1>6. m = k
  BY <1>1, <1>2, <1>3, <1>5
<1> QED
  BY <1>1, <1>2, <1>6 DEF m

\* A call that runs with the lock has the only acquired span of its label.
LEMMA OnlyHolder ==
    ASSUME SpansTyped, NEW c \in Local, NEW l \in Label, Keys[c] = l, Paired(l), HasSpan(c),
           c \notin Manual, pc[c] \in Ran, MutualExclusion,
           \A d \in Local : pc[d] \in Ran => Held(d)
    PROVE  \E k \in 1 .. Len(open[l]) :
               /\ AcquiredAt(open[l]) = {k} /\ open[l][k].by = c /\ Min({k}) = k
<1> DEFINE s == open[l]
<1>1. s \in Seq(SpanType) /\ AcquiredAt(s) \in SUBSET Nat /\ \A i \in 1 .. Len(s) : s[i].by \in Local
  <2>1. s \in Seq(SpanType)
    BY DEF SpansTyped
  <2>2. \A i \in 1 .. Len(s) : s[i] \in SpanType
    BY <2>1, ElementOfSeq
  <2> QED
    BY <2>1, <2>2, Kinds DEF SpanType
<1>2. PICK k \in AcquiredAt(s) : s[k].by = c
  BY DEF HasSpan
<1>3. ASSUME NEW i \in AcquiredAt(s) PROVE i = k
  <2>1. i \in 1 .. Len(s) /\ k \in 1 .. Len(s)
    BY <1>2 DEF AcquiredAt
  <2>2. s[i].by \in Local /\ Keys[s[i].by] = l /\ pc[s[i].by] \in Ran
    BY <1>1, <2>1 DEF AcquiredAt, Paired, WellMeant
  <2>3. Held(s[i].by) /\ Held(c)
    BY <2>2
  <2>4. s[i].by = c
    BY <2>2, <2>3, TracingAssumption, SetsAssumption DEF MutualExclusion, Conflict
  <2> QED
    BY <1>2, <2>1, <2>4 DEF Paired
<1>4. AcquiredAt(s) = {k} /\ k \in 1 .. Len(s)
  BY <1>2, <1>3 DEF AcquiredAt
<1>5. Min({k}) = k
  <2>1. {k} \in SUBSET Nat /\ {k} # {}
    BY <1>1, <1>4
  <2>2. Min({k}) \in {k}
    BY <2>1, FirstOf
  <2> QED
    BY <2>2
<1> QED
  BY <1>2, <1>4, <1>5

\* A call that stays where it is keeps its span if that is still there.
LEMMA OthersHave ==
    ASSUME NEW c, NEW d \in Local, d # c, HasSpan(d), pc'[d] = pc[d],
           StillThere(open[Keys[d]], open'[Keys[d]], c)
    PROVE  HasSpan(d)'
<1> DEFINE s == open[Keys[d]]
           t == open'[Keys[d]]
<1>1. ASSUME NEW i \in WaitingAt(s), s[i].by = d
      PROVE  \E j \in WaitingAt(t) : t[j].by = d
  BY <1>1 DEF StillThere, WaitingAt
<1>2. ASSUME NEW i \in AcquiredAt(s), s[i].by = d
      PROVE  \E j \in AcquiredAt(t) : t[j].by = d
  BY <1>2 DEF StillThere, AcquiredAt
<1> QED
  BY <1>1, <1>2 DEF HasSpan

\* A call that acquires turns its own span into an acquired one.
LEMMA PairedMarked ==
    ASSUME QueuedInv, SpansTyped, TicketsMove, NEW c \in Local, NEW l \in Label, Keys[c] = l,
           Paired(l), NEW k \in WaitingAt(open[l]), open[l][k].by = c,
           pc'[c] \in Ran, \A d \in Call \ {c} : pc'[d] = pc[d],
           open'[l] = [open[l] EXCEPT ![k].acquired = TRUE]
    PROVE  Paired(l)' /\ StillThere(open[l], open'[l], c) /\ HasSpan(c)'
<1> DEFINE s == open[l]
           t == [s EXCEPT ![k].acquired = TRUE]
           f == [i \in 1 .. Len(s) |-> i]
<1>1. /\ s \in Seq(SpanType) /\ \A i \in 1 .. Len(s) : s[i] \in SpanType
      /\ Len(s) \in Nat /\ Local \subseteq Call
  <2>1. s \in Seq(SpanType)
    BY DEF SpansTyped
  <2> QED
    BY <2>1, ElementOfSeq, LenProperties, TracingAssumption
<1>2. /\ t \in Seq(SpanType) /\ Len(t) = Len(s) /\ k \in 1 .. Len(s)
      /\ \A i \in 1 .. Len(s) : t[i] = IF i = k THEN [s[k] EXCEPT !.acquired = TRUE] ELSE s[i]
  BY <1>1, CountMarked DEF WaitingAt
<1> HIDE DEF t
<1>3. t[k].by = c /\ t[k].acquired
  BY <1>1, <1>2 DEF SpanType
<1>4. \A i \in 1 .. Len(s) : i # k => t[i] = s[i] /\ s[i].by # c
  BY <1>2 DEF Paired
<1>5. \A i \in 1 .. Len(t) : /\ t[i].by = s[f[i]].by
                             /\ s[f[i]].acquired => t[i].acquired
                             /\ IF t[i].acquired THEN pc'[t[i].by] \in Ran
                                                 ELSE pc'[t[i].by] \in Announced
  <2> SUFFICES ASSUME NEW i \in 1 .. Len(s)
               PROVE  /\ t[i].by = s[i].by
                      /\ s[i].acquired => t[i].acquired
                      /\ IF t[i].acquired THEN pc'[t[i].by] \in Ran
                                          ELSE pc'[t[i].by] \in Announced
    BY <1>2
  <2>1. CASE i = k
    BY <1>3, <2>1
  <2>2. CASE i # k
    <3>1. s[i].by \in Call \ {c} /\ t[i] = s[i]
      BY <1>1, <1>4, <2>2 DEF SpanType
    <3>2. WellMeant(s[i], l) /\ pc'[s[i].by] = pc[s[i].by]
      BY <3>1 DEF Paired
    <3> QED
      BY <3>1, <3>2 DEF WellMeant
  <2> QED
    BY <2>1, <2>2
<1>6. /\ f \in [1 .. Len(t) -> 1 .. Len(s)]
      /\ \A i, j \in 1 .. Len(t) : i < j => f[i] < f[j]
  BY <1>2
<1>7. open'[l] = t
  BY DEF t
<1> HIDE DEF f
<1>8. Left(s, t, f)
  BY <1>2, <1>5, <1>6 DEF Left
<1>9. Paired(l)'
  BY <1>2, <1>7, <1>8, PairedOn
<1>10. StillThere(s, t, c)
  BY <1>2, <1>4 DEF StillThere
<1>11. HasSpan(c)'
  <2>1. k \in AcquiredAt(t)
    BY <1>2, <1>3 DEF AcquiredAt
  <2>2. pc'[c] \notin Announced
    BY DEF Ran, Running, Announced, Waiting
  <2> QED
    BY <1>3, <1>7, <2>1, <2>2 DEF HasSpan
<1> QED
  BY <1>7, <1>9, <1>10, <1>11

\* A call that ends takes its own span with it.
LEMMA PairedTaken ==
    ASSUME QueuedInv, SpansTyped, TicketsMove, NEW c \in Local, NEW l \in Label, Keys[c] = l,
           Paired(l), NEW k \in 1 .. Len(open[l]), open[l][k].by = c,
           pc'[c] \in Over, \A d \in Call \ {c} : pc'[d] = pc[d],
           open'[l] = RemoveAt(open[l], k)
    PROVE  Paired(l)' /\ StillThere(open[l], open'[l], c) /\ HasSpan(c)'
<1> DEFINE s == open[l]
           t == RemoveAt(s, k)
           f == [i \in 1 .. Len(s) - 1 |-> IF i < k THEN i ELSE i + 1]
<1>1. /\ s \in Seq(SpanType) /\ \A i \in 1 .. Len(s) : s[i] \in SpanType
      /\ Len(s) \in Nat /\ Local \subseteq Call
  <2>1. s \in Seq(SpanType)
    BY DEF SpansTyped
  <2> QED
    BY <2>1, ElementOfSeq, LenProperties, TracingAssumption
<1>2. /\ t \in Seq(SpanType) /\ Len(t) = Len(s) - 1
      /\ \A i \in 1 .. Len(s) - 1 : t[i] = IF i < k THEN s[i] ELSE s[i + 1]
  BY <1>1, RemovedAt
<1> HIDE DEF t
<1>3. /\ f \in [1 .. Len(t) -> 1 .. Len(s)]
      /\ \A i, j \in 1 .. Len(t) : i < j => f[i] < f[j]
      /\ \A i \in 1 .. Len(t) : f[i] # k /\ t[i] = s[f[i]]
  BY <1>1, <1>2
<1>4. \A i \in 1 .. Len(s) : i # k => \E j \in 1 .. Len(t) : t[j] = s[i]
  <2> SUFFICES ASSUME NEW i \in 1 .. Len(s), i # k PROVE \E j \in 1 .. Len(t) : t[j] = s[i]
    OBVIOUS
  <2>1. CASE i < k
    <3>1. i \in 1 .. Len(t) /\ t[i] = s[i]
      BY <1>1, <1>2, <2>1
    <3> QED
      BY <3>1
  <2>2. CASE i > k
    <3>1. i - 1 \in 1 .. Len(t) /\ t[i - 1] = s[i]
      BY <1>1, <1>2, <2>2
    <3> QED
      BY <3>1
  <2> QED
    BY <1>1, <2>1, <2>2
<1> HIDE DEF f
<1>5. ASSUME NEW i \in 1 .. Len(t)
      PROVE  /\ t[i].by = s[f[i]].by
             /\ s[f[i]].acquired => t[i].acquired
             /\ IF t[i].acquired THEN pc'[t[i].by] \in Ran ELSE pc'[t[i].by] \in Announced
  <2>1. f[i] \in 1 .. Len(s) /\ f[i] # k /\ t[i] = s[f[i]]
    BY <1>3
  <2>2. s[f[i]].by # c /\ s[f[i]].by \in Call
    BY <1>1, <2>1 DEF Paired, SpanType
  <2>3. WellMeant(s[f[i]], l) /\ pc'[s[f[i]].by] = pc[s[f[i]].by]
    BY <2>1, <2>2 DEF Paired
  <2> QED
    BY <2>1, <2>3 DEF WellMeant
<1>6. open'[l] = t
  BY DEF t
<1>7. Left(s, t, f)
  BY <1>3, <1>5 DEF Left
<1>8. Paired(l)'
  BY <1>2, <1>6, <1>7, PairedOn
<1>9. StillThere(s, t, c)
  BY <1>4 DEF StillThere
<1>10. HasSpan(c)'
  BY DEF HasSpan, Over, Ran, Running, Announced, Waiting
<1> QED
  BY <1>6, <1>8, <1>9, <1>10

\* Two events, the second because a listener of the first threw, are heard one
\* after the other.
LEMMA HeardTwo ==
    ASSUME NEW c, NEW E, NEW e \in {"acquired", "released"}, NEW x \in InCatch, E = {e, x}
    PROVE  LET s == open[Keys[c]]
               t == SpansAfter(s, c, e)
           IN  /\ SpansHeard(c, E) = SpansAfter(t, c, x)
               /\ EndedBy(c, E) = (IF ToPop(s, e) = 0 THEN {} ELSE {s[ToPop(s, e)].by})
                                     \cup (IF ToPop(t, x) = 0 THEN {} ELSE {t[ToPop(t, x)].by})
<1> DEFINE s == open[Keys[c]]
           t == SpansAfter(s, c, e)
<1>1. E \ InCatch = {e} /\ E \cap InCatch = {x}
  BY DEF InCatch
<1>2. /\ Listened(s, c, {e}) = t
      /\ Ended(s, {e}) = IF ToPop(s, e) = 0 THEN {} ELSE {s[ToPop(s, e)].by}
  BY ListenOne
<1> HIDE DEF t
<1>3. /\ Listened(t, c, {x}) = SpansAfter(t, c, x)
      /\ Ended(t, {x}) = IF ToPop(t, x) = 0 THEN {} ELSE {t[ToPop(t, x)].by}
  BY ListenOne
<1>4. SpansHeard(c, E) = Listened(t, c, {x}) /\ EndedBy(c, E) = Ended(s, {e}) \cup Ended(t, {x})
  BY <1>1, <1>2 DEF SpansHeard, EndedBy
<1> QED
  BY <1>2, <1>3, <1>4 DEF t

\* Whoever throws, the spans keep their type.
LEMMA TypedOn ==
    ASSUME MutexType(QueuedPlace), TellInv, TracedNext, SpansTyped, NEW c \in Call, TellStep(c)
    PROVE  SpansTyped'
<1>1. PICK E \in SUBSET Event : Emit(c, E) /\ Tells(c, E)
  BY DEF TellStep
<1> DEFINE s == open[Keys[c]]
<1>2. /\ open' = IF c \in Local THEN [open EXCEPT ![Keys[c]] = SpansHeard(c, E)] ELSE open
      /\ Keys[c] \in Label /\ s \in Seq(SpanType)
  BY <1>1, TracedHears DEF SpansTyped, Label
<1>3. ASSUME c \in Local PROVE SpansHeard(c, E) \in Seq(SpanType)
  <2>1. \A r \in Seq(SpanType), e \in SpanMark : SpansAfter(r, c, e) \in Seq(SpanType)
    BY <1>3, CountsAfter
  <2>2. CASE E \subseteq Plain
    BY <1>2, <2>2, HeardEvents
  <2>3. ASSUME NEW e \in SpanMark, E = {e} PROVE SpansHeard(c, E) \in Seq(SpanType)
    <3>1. SpansHeard(c, E) = SpansAfter(s, c, e)
      BY <2>3, HeardEvents
    <3> QED
      BY <1>2, <2>1, <3>1
  <2>4. ASSUME NEW e \in {"acquired", "released"}, NEW x \in {"failed", "release_failed"}, E = {e, x}
        PROVE  SpansHeard(c, E) \in Seq(SpanType)
    <3>1. SpansHeard(c, E) = SpansAfter(SpansAfter(s, c, e), c, x)
      BY <2>4, HeardTwo DEF InCatch
    <3>2. e \in SpanMark /\ x \in SpanMark
      BY DEF SpanMark, Mark
    <3> QED
      BY <1>2, <2>1, <3>1, <3>2
  <2> QED
    BY <1>1, <2>2, <2>3, <2>4 DEF Tells, SpanMark, Mark
<1> QED
  BY <1>2, <1>3 DEF SpansTyped, Label

\* A label whose spans stay, and whose calls stay at their stages, stays paired.
LEMMA PairedStill ==
    ASSUME QueuedInv, SpansTyped, TicketsMove, NEW l \in Label, Paired(l), open'[l] = open[l],
           \A i \in 1 .. Len(open[l]) : IF open[l][i].acquired THEN pc'[open[l][i].by] \in Ran
                                                               ELSE pc'[open[l][i].by] \in Announced
    PROVE  Paired(l)'
<1> DEFINE s == open[l]
           f == [i \in 1 .. Len(s) |-> i]
<1>1. s \in Seq(SpanType)
  BY DEF SpansTyped
<1>2. Left(s, s, f)
  BY DEF Left
<1> HIDE DEF f
<1> QED
  BY <1>1, <1>2, PairedOn

\* A step that tells nothing of a span leaves the call at the stage its span says.
LEMMA QuietPairs ==
    ASSUME QueuedInv, SpansTyped, TicketsMove, NEW c \in Local, NEW l \in Label, Keys[c] = l,
           Paired(l), HasSpan(c), Quiet(c), faults' = faults, open'[l] = open[l],
           \A d \in Call \ {c} : pc'[d] = pc[d]
    PROVE  Paired(l)' /\ HasSpan(c)'
<1>1. c \notin Crashable
  BY TracingAssumption
<1>2. /\ c \notin Manual /\ pc[c] \in Ran => pc'[c] \in Ran
      /\ c \notin Manual /\ pc[c] \in Announced => pc'[c] \in Announced
      /\ c \notin Manual /\ pc'[c] \in Ran => pc[c] \in Ran
      /\ c \in Ticketed /\ pc'[c] \in Announced => pc[c] \in Announced
      /\ c \in Ticketed => c \notin Manual
  BY <1>1, QueuedAssumption
  DEF Quiet, Early, Announced, Waiting, Ran, Running, Over
<1>3. ASSUME NEW i \in 1 .. Len(open[l])
      PROVE  IF open[l][i].acquired THEN pc'[open[l][i].by] \in Ran
                                    ELSE pc'[open[l][i].by] \in Announced
  <2>1. WellMeant(open[l][i], l)
    BY DEF Paired
  <2>2. open[l][i].by \in Call
    <3>1. open[l] \in Seq(SpanType)
      BY DEF SpansTyped
    <3>2. open[l][i] \in SpanType
      BY <3>1, ElementOfSeq
    <3> QED
      BY <3>2, TracingAssumption DEF SpanType
  <2>3. CASE open[l][i].by = c
    BY <1>2, <2>1, <2>3 DEF WellMeant
  <2>4. CASE open[l][i].by # c
    BY <2>1, <2>2, <2>4 DEF WellMeant
  <2> QED
    BY <2>3, <2>4
<1>4. Paired(l)'
  BY <1>3, PairedStill
<1>5. HasSpan(c)'
  BY <1>2 DEF HasSpan
<1> QED
  BY <1>4, <1>5

\* While nothing disturbs the calls, what one of them tells ends no span but its own,
\* and its label stays paired.
LEMMA TellPairs ==
    ASSUME QueuedInv, TellInv, SpansTyped, TicketsMove, TracedNext, ~Disturbs,
           NEW c \in Local, NEW l \in Label, Keys[c] = l, Paired(l), HasSpan(c),
           NEW E \in SUBSET Event, Emit(c, E), Tells(c, E), pc' = [pc EXCEPT ![c] = pc'[c]]
    PROVE  /\ Paired(l)' /\ HasSpan(c)' /\ EndedBy(c, E) \subseteq {c}
           /\ open'[l] = open[l] \/ StillThere(open[l], open'[l], c)
<1> DEFINE s == open[l]
<1>1. /\ MutexType(QueuedPlace) /\ MutualExclusion
      /\ pc \in [Call -> QueuedPlace] /\ ticket \in [Call -> Nat] /\ c \in Call
      /\ pc[c] \in QueuePlace => c \in Ticketed
  BY OrderExcludes, TracingAssumption
  DEF QueuedInv, MutexType, RuntimeType, QueueInv, QueueType, TicketsDrawn
<1>2. open'[l] = SpansHeard(c, E) /\ s \in Seq(SpanType)
  BY <1>1, TracedHears DEF SpansTyped
<1>3. IF E \subseteq Plain THEN News(c) \subseteq Plain ELSE News(c) = E
  BY <1>1, NewsTold
<1>4. \A d \in Call \ {c} : pc'[d] = pc[d]
  BY <1>1
<1>5. /\ faults' = faults /\ outcome'[c] # "error" /\ ~({"acquired", "failed"} \subseteq News(c))
      /\ {"acquired", "failed"} \cap News(c) # {} =>
            /\ c \in Ticketed
            /\ \A d \in Local : pc[d] \in Announced => ~(ticket[d] < ticket[c])
      /\ \A d \in Local : pc[d] \in Ran => Held(d)
  BY DEF Disturbs, Ran, Running
<1>6. CASE E \subseteq Plain
  <2>1. SpansHeard(c, E) = s /\ EndedBy(c, E) = {}
    BY <1>6, HeardEvents
  <2>2. Quiet(c)
    BY <1>6 DEF Tells, Plain
  <2> QED
    BY <1>2, <1>4, <1>5, <2>1, <2>2, QuietPairs
<1>7. CASE E = {"queued"}
  <2>1. pc[c] = "enqueuing" /\ pc'[c] = "polling" /\ c \in Ticketed
    BY <1>1, <1>5, <1>7 DEF Tells, Plain, QueuePlace
  <2>2. Pipelined(c)
    BY <1>1, <2>1 DEF TracedNext
  <2>3. SpansHeard(c, E) = SpansAfter(s, c, "queued") /\ EndedBy(c, E) = {}
    <3>1. ToPop(s, "queued") = 0 /\ "queued" \in SpanMark
      BY DEF ToPop, SpanMark
    <3> QED
      BY <1>7, <3>1, HeardEvents
  <2>4. open'[l] = Append(s, [by |-> c, acquired |-> FALSE])
    BY <1>2, <2>3 DEF SpansAfter
  <2> QED
    BY <2>1, <2>2, <2>3, <2>4, PairedPushed
<1>8. ASSUME E = {"acquired"} \/ E = {"failed"}
      PROVE  /\ c \in Ticketed /\ pc[c] \in Announced
             /\ WaitingAt(s) # {} /\ WaitingAt(s) \in SUBSET Nat
             /\ Min(WaitingAt(s)) \in WaitingAt(s) /\ s[Min(WaitingAt(s))].by = c
             /\ Min(WaitingAt(s)) \in 1 .. Len(s) /\ Min(WaitingAt(s)) # 0
  <2>1. pc[c] \in Announced /\ News(c) = E
    BY <1>3, <1>8 DEF Tells, Plain, Announced, Waiting
  <2>2. /\ c \in Ticketed
        /\ \A d \in Local : pc[d] \in Announced => ~(ticket[d] < ticket[c])
    BY <1>5, <1>8, <2>1
  <2>3. /\ WaitingAt(s) # {} /\ WaitingAt(s) \in SUBSET Nat
        /\ Min(WaitingAt(s)) \in WaitingAt(s) /\ s[Min(WaitingAt(s))].by = c
    BY <1>1, <2>1, <2>2, FirstIsOwn
  <2> QED
    BY <2>1, <2>2, <2>3 DEF WaitingAt
<1>9. ToPop(s, "failed") = (IF WaitingAt(s) = {} THEN 0 ELSE Min(WaitingAt(s)))
      /\ TakeQueued(s) = ToPop(s, "failed")
  <2>1. WaitingAt(s) \in SUBSET Nat
    BY <1>2, Kinds
  <2> QED
    BY <1>2, <2>1, Selects
<1>10. CASE E = {"acquired"}
  <2>1. pc'[c] \in Ran
    BY <1>10 DEF Tells, Plain, Ran, Running
  <2>2. SpansHeard(c, E) = SpansAfter(s, c, "acquired") /\ EndedBy(c, E) = {}
    <3>1. ToPop(s, "acquired") = 0 /\ "acquired" \in SpanMark
      BY DEF ToPop, SpanMark, Mark
    <3> QED
      BY <1>10, <3>1, HeardEvents
  <2>3. open'[l] = [s EXCEPT ![Min(WaitingAt(s))].acquired = TRUE]
    BY <1>2, <1>8, <1>9, <1>10, <2>2 DEF SpansAfter
  <2> QED
    BY <1>4, <1>8, <1>10, <2>1, <2>2, <2>3, PairedMarked
<1>11. CASE E = {"failed"}
  <2>1. pc'[c] \in Over
    BY <1>11 DEF Tells, Plain
  <2>2. /\ SpansHeard(c, E) = RemoveAt(s, Min(WaitingAt(s)))
        /\ EndedBy(c, E) = {c}
    <3>1. ToPop(s, "failed") = Min(WaitingAt(s)) /\ ToPop(s, "failed") # 0 /\ "failed" \in SpanMark
      BY <1>8, <1>9, <1>11 DEF SpanMark, Mark
    <3>2. SpansAfter(s, c, "failed") = RemoveAt(s, Min(WaitingAt(s)))
      BY <3>1 DEF SpansAfter
    <3>3. /\ SpansHeard(c, E) = SpansAfter(s, c, "failed")
          /\ EndedBy(c, E) = IF ToPop(s, "failed") = 0 THEN {} ELSE {s[ToPop(s, "failed")].by}
      BY <1>11, <3>1, HeardEvents
    <3> QED
      BY <1>8, <1>11, <3>1, <3>2, <3>3
  <2> QED
    BY <1>2, <1>4, <1>8, <1>11, <2>1, <2>2, PairedTaken
<1>12. CASE E \cap {"released", "release_failed"} # {} /\ ~(E \subseteq Plain)
  <2>1. /\ pc[c] = "releasing" /\ pc'[c] \in Over /\ c \notin Manual /\ pc[c] \in Ran
        /\ \/ \E e \in {"released", "release_failed"} : E = {e}
           \/ E = {"released", "release_failed"}
    BY <1>12 DEF Tells, Ran
  <2>2. PICK k \in 1 .. Len(s) : AcquiredAt(s) = {k} /\ s[k].by = c /\ Min({k}) = k
    <3>1. \A d \in Local : pc[d] \in Ran => Held(d)
      BY <1>5
    <3>2. c \notin Manual /\ pc[c] \in Ran /\ MutualExclusion
      BY <1>1, <2>1
    <3> QED
      BY <3>1, <3>2, OnlyHolder, Zenon
  <2>3. k # 0 /\ AcquiredAt(s) \in SUBSET Nat
    BY <1>2, <2>2, Kinds
  <2>4. ASSUME NEW e \in {"released", "release_failed"}
        PROVE  /\ ToPop(s, e) = k /\ SpansAfter(s, c, e) = RemoveAt(s, k)
               /\ e \in SpanMark
    <3>1. ToPop(s, e) = k
      BY <1>2, <2>2, <2>3, Selects
    <3> QED
      BY <2>3, <3>1 DEF SpansAfter, SpanMark, Mark
  <2>5. SpansHeard(c, E) = RemoveAt(s, k) /\ EndedBy(c, E) = {c}
    <3>1. CASE E = {"released"}
      <4>1. /\ ToPop(s, "released") = k /\ SpansAfter(s, c, "released") = RemoveAt(s, k)
            /\ ToPop(s, "released") # 0 /\ "released" \in SpanMark
        BY <2>3, <2>4
      <4>2. /\ SpansHeard(c, E) = SpansAfter(s, c, "released")
            /\ EndedBy(c, E) = IF ToPop(s, "released") = 0 THEN {} ELSE {s[ToPop(s, "released")].by}
        BY <3>1, <4>1, HeardEvents
      <4> QED
        BY <2>2, <2>3, <4>1, <4>2
    <3>3. CASE E = {"release_failed"}
      <4>1. /\ ToPop(s, "release_failed") = k /\ SpansAfter(s, c, "release_failed") = RemoveAt(s, k)
            /\ ToPop(s, "release_failed") # 0 /\ "release_failed" \in SpanMark
        BY <2>3, <2>4
      <4>2. /\ SpansHeard(c, E) = SpansAfter(s, c, "release_failed")
            /\ EndedBy(c, E) = IF ToPop(s, "release_failed") = 0 THEN {} ELSE {s[ToPop(s, "release_failed")].by}
        BY <3>3, <4>1, HeardEvents
      <4> QED
        BY <2>2, <2>3, <4>1, <4>2
    <3>2. CASE E = {"released", "release_failed"}
      <4> DEFINE t == RemoveAt(s, k)
      <4>1. t \in Seq(SpanType) /\ AcquiredAt(t) = {} /\ AcquiredAt(t) \in SUBSET Nat
        <5>1. /\ t \in Seq(SpanType)
              /\ Cardinality(AcquiredAt(t)) = Cardinality(AcquiredAt(s)) - 1
          BY <1>2, <2>2, CountTaken
        <5>2. Cardinality(AcquiredAt(s)) = 1
          BY <2>2, FS_Singleton
        <5> HIDE DEF t
        <5>3. IsFiniteSet(AcquiredAt(t)) /\ AcquiredAt(t) \in SUBSET Nat
          BY <5>1, Kinds
        <5>4. Cardinality(AcquiredAt(t)) = 0
          BY <5>1, <5>2
        <5> QED
          BY <5>1, <5>3, <5>4, FS_EmptySet
      <4>2. ToPop(t, "release_failed") = 0
        BY <4>1, Selects
      <4>3. SpansAfter(t, c, "release_failed") = t
        BY <4>2 DEF SpansAfter
      <4>4. LET r == SpansAfter(s, c, "released") IN
            /\ SpansHeard(c, E) = SpansAfter(r, c, "release_failed")
            /\ EndedBy(c, E) =
                 (IF ToPop(s, "released") = 0 THEN {} ELSE {s[ToPop(s, "released")].by})
                   \cup (IF ToPop(r, "release_failed") = 0 THEN {} ELSE {r[ToPop(r, "release_failed")].by})
        <5>1. "release_failed" \in InCatch
          BY DEF InCatch
        <5> QED
          BY <3>2, <5>1, HeardTwo
      <4> HIDE DEF t
      <4>5. SpansAfter(s, c, "released") = t /\ ToPop(s, "released") = k
        BY <2>4 DEF t
      <4> QED
        BY <2>2, <2>3, <4>2, <4>3, <4>4, <4>5 DEF t
    <3> QED
      BY <2>1, <3>1, <3>2, <3>3
  <2> QED
    BY <1>2, <1>4, <2>1, <2>2, <2>5, PairedTaken
<1>13. ~(E = {"acquired", "failed"})
  BY <1>3, <1>5 DEF Plain
<1> QED
  BY <1>6, <1>7, <1>10, <1>11, <1>12, <1>13 DEF Tells

\* Every step keeps the pairing, as long as nothing has disturbed it.
LEMMA PairKept ==
    ASSUME QueuedInv, TellInv, SpansTyped, PairInv, TicketsMove, TracedNext,
           NEW c \in Call, TellStep(c)
    PROVE  PairInv'
<1> SUFFICES ASSUME ~disturbed'
             PROVE  /\ crossed' = {}
                    /\ \A l \in Label : Paired(l)'
                    /\ \A d \in Local : HasSpan(d)'
  BY DEF PairInv, Label
<1>1. /\ ~disturbed /\ ~Disturbs /\ crossed = {}
      /\ \A l \in Label : Paired(l)
      /\ \A d \in Local : HasSpan(d)
  BY DEF TracedNext, PairInv
<1>2. PICK E \in SUBSET Event : Emit(c, E) /\ Tells(c, E)
  BY DEF TellStep
<1>3. /\ MutexType(QueuedPlace) /\ pc' = [pc EXCEPT ![c] = pc'[c]]
      /\ \A d \in Call \ {c} : pc'[d] = pc[d]
  BY DEF TellStep, QueuedInv, MutexType, RuntimeType
<1>4. /\ open' = IF c \in Local THEN [open EXCEPT ![Keys[c]] = SpansHeard(c, E)] ELSE open
      /\ crossed' = IF c \in Local
                    THEN crossed \cup {<<c, d>> : d \in EndedBy(c, E) \ {c}} ELSE crossed
  BY <1>2, <1>3, TracedHears DEF SpansTyped
<1>5. Local \subseteq Call /\ \A d \in Call : Keys[d] \in Label
  BY TracingAssumption DEF Label
<1>6. ASSUME NEW l \in Label, c \in Local => Keys[c] # l
      PROVE  open'[l] = open[l] /\ Paired(l)'
  <2>1. open'[l] = open[l] /\ open[l] \in Seq(SpanType)
    BY <1>4, <1>6 DEF SpansTyped
  <2>2. ASSUME NEW i \in 1 .. Len(open[l])
        PROVE  IF open[l][i].acquired THEN pc'[open[l][i].by] \in Ran
                                      ELSE pc'[open[l][i].by] \in Announced
    <3>1. WellMeant(open[l][i], l)
      BY <1>1 DEF Paired
    <3>2. open[l][i] \in SpanType
      BY <2>1, ElementOfSeq
    <3>3. open[l][i].by \in Local /\ Keys[open[l][i].by] = l
      BY <3>1, <3>2 DEF WellMeant, SpanType
    <3>4. pc'[open[l][i].by] = pc[open[l][i].by]
      BY <1>3, <1>5, <1>6, <3>3
    <3> QED
      BY <3>1, <3>4 DEF WellMeant
  <2> QED
    BY <1>1, <2>1, <2>2, PairedStill
<1>7. ASSUME NEW d \in Local, d # c, c \in Local => Keys[c] # Keys[d] PROVE HasSpan(d)'
  <2>1. open'[Keys[d]] = open[Keys[d]] /\ pc'[d] = pc[d]
    BY <1>3, <1>5, <1>6, <1>7
  <2> QED
    BY <1>1, <2>1 DEF HasSpan
<1>8. CASE c \notin Local
  BY <1>1, <1>4, <1>6, <1>7, <1>8
<1>9. CASE c \in Local
  <2> DEFINE l == Keys[c]
  <2>1. l \in Label /\ Paired(l) /\ HasSpan(c)
    BY <1>1, <1>5, <1>9
  <2>2. /\ Paired(l)' /\ HasSpan(c)' /\ EndedBy(c, E) \subseteq {c}
        /\ open'[l] = open[l] \/ StillThere(open[l], open'[l], c)
    BY <1>1, <1>2, <1>3, <1>9, <2>1, TellPairs
  <2>3. crossed' = {}
    BY <1>1, <1>4, <1>9, <2>2
  <2>4. ASSUME NEW m \in Label PROVE Paired(m)'
    BY <1>6, <2>2
  <2>5. ASSUME NEW d \in Local PROVE HasSpan(d)'
    <3>1. CASE d # c /\ Keys[d] = l
      <4>1. HasSpan(d) /\ pc'[d] = pc[d]
        BY <1>1, <1>3, <1>5, <3>1
      <4>2. CASE open'[l] = open[l]
        BY <3>1, <4>1, <4>2 DEF HasSpan
      <4>3. CASE StillThere(open[l], open'[l], c)
        BY <3>1, <4>1, <4>3, OthersHave
      <4> QED
        BY <2>2, <4>2, <4>3
    <3> QED
      BY <1>7, <2>2, <3>1
  <2> QED
    BY <2>3, <2>4, <2>5
<1> QED
  BY <1>8, <1>9

\* While calls stop waiting in queue order, nothing fails and callbacks end in time,
\* every event ends the span its own call started, whatever the listeners of the
\* application throw after it.
THEOREM Pairing == TracedSpec => []ExactInQueueOrder
<1> DEFINE Inv == TellInv /\ SpansTyped /\ PairInv
<1>1. TracedInit => Inv
  <2> SUFFICES ASSUME TracedInit PROVE Inv
    OBVIOUS
  <2>1. /\ pc = [d \in Call |-> "idle"] /\ crossed = {} /\ Local \subseteq Call
        /\ open = [l \in Label |-> << >>]
    BY TracingAssumption DEF TracedInit, QueuedInit, Init, RuntimeInit
  <2>2. TellInv /\ SpansTyped
    BY TracedStarts DEF CountInv, SpansTyped
  <2>3. \A l \in Label : Paired(l)
    BY <2>1 DEF Paired, WaitingAt
  <2>4. \A d \in Local : HasSpan(d)
    BY <2>1 DEF HasSpan, Announced, Waiting, Ran, Running
  <2> QED
    BY <2>1, <2>2, <2>3, <2>4 DEF PairInv
<1>2. QueuedInv /\ Inv /\ [TracedNext]_tracedVars => Inv'
  <2> SUFFICES ASSUME QueuedInv, TellInv, SpansTyped, PairInv, [TracedNext]_tracedVars
               PROVE  TellInv' /\ SpansTyped' /\ PairInv'
    OBVIOUS
  <2>1. MutexType(QueuedPlace)
    BY DEF QueuedInv
  <2>2. TicketsMove
    BY QueuedTicketsMove DEF TracedNext, tracedVars
  <2>3. CASE TracedNext /\ \E c \in Call : TellStep(c)
    BY <2>1, <2>2, <2>3, TellKept, TypedOn, PairKept
  <2>4. CASE UNCHANGED <<pc, emitted, open, crossed>>
    <3>1. TellInv' /\ SpansTyped'
      BY <2>4 DEF TellInv, Marks, SpansTyped, Label
    <3>2. PairInv'
      <4> SUFFICES ASSUME ~disturbed'
                   PROVE  /\ crossed' = {}
                          /\ \A l \in Label : Paired(l)'
                          /\ \A d \in Local : HasSpan(d)'
        BY DEF PairInv, Label
      <4>1. /\ crossed = {}
            /\ \A l \in Label : Paired(l)
            /\ \A d \in Local : HasSpan(d)
        BY DEF TracedNext, tracedVars, PairInv
      <4>2. ASSUME NEW l \in Label PROVE Paired(l)'
        <5>1. open'[l] = open[l] /\ \A i \in 1 .. Len(open[l]) : WellMeant(open[l][i], l)
          BY <2>4, <4>1 DEF Paired
        <5>2. \A i \in 1 .. Len(open[l]) :
                IF open[l][i].acquired THEN pc'[open[l][i].by] \in Ran
                                       ELSE pc'[open[l][i].by] \in Announced
          BY <2>4, <5>1 DEF WellMeant
        <5> QED
          BY <2>2, <4>1, <5>1, <5>2, PairedStill
      <4>3. \A d \in Local : HasSpan(d)'
        BY <2>4, <4>1 DEF HasSpan
      <4> QED
        BY <2>4, <4>1, <4>2, <4>3
    <3> QED
      BY <3>1, <3>2
  <2> QED
    BY <2>3, <2>4, TracedSteps
<1>3. Inv => ExactInQueueOrder
  BY DEF PairInv, ExactInQueueOrder
<1> QED
  BY <1>1, <1>2, <1>3, TracedIsQueued, PTL DEF TracedSpec
===============================================================================
