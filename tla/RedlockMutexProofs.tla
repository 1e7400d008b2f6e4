------------------------- MODULE RedlockMutexProofs -------------------------
(* Theorems about RedlockMutex for every instance of its constants.  The    *)
(* lemmas about single steps leave open which places a call may be in (P),  *)
(* since a mode that queues for the same locks adds its own.                *)
EXTENDS RedlockMutex, FiniteSetTheorems, TLAPS

MutexPlace == RuntimePlace \cup {"acquiring", "owning"}
MutexType(P) == RuntimeType(P) /\ attempts \in [Call -> 0 .. RetryCount]

\* A step of a call, the clock, or nothing.
TimePasses == now' = now + 1 /\ UNCHANGED <<faults, pc, wake, holds, fences, timers, results, attempts>>
MutexStep == (\E c \in Call : CallStep(c)) \/ TimePasses \/ UNCHANGED mutexVars

\* Next in three cases.
LEMMA NextIsStep == [Next]_mutexVars => MutexStep
  BY DEF Next, Tick, Terminated, TimePasses, MutexStep

\* Every variable of RedlockMutex starts with its type.
LEMMA InitType == Init => TypeOK
  BY SetsAssumption, NumbersAssumption, MutexAssumption DEF Init, RuntimeInit, TypeOK, RuntimeType,
     RuntimePlace, Event, Outcome

\* The instants the model computes are natural numbers.
LEMMA TimeType ==
    ASSUME NEW P, RuntimeType(P)
    PROVE  /\ Period \in Nat
           /\ \A n \in Nat : Later(n) \in Nat
           /\ \A c \in Call : Date(c) \in Nat /\ Keys[c] \in Label
           /\ \A l \in Label : NextNumber(l) \in Nat
<1>1. Ttl \div 2 \in Nat
  BY NumbersAssumption
<1> QED
  BY <1>1, SetsAssumption, NumbersAssumption
  DEF RuntimeType, Period, Later, Date, Label, NextNumber

\* One case per action of the specification.
LEMMA StepType ==
    ASSUME NEW P, MutexPlace \subseteq P, MutexType(P), MutexStep
    PROVE  MutexType(P)'
<1>0. /\ Period \in Nat
      /\ \A n \in Nat : Later(n) \in Nat
      /\ \A c \in Call : Date(c) \in Nat /\ Keys[c] \in Label
      /\ \A l \in Label : NextNumber(l) \in Nat
  BY TimeType DEF MutexType
<1> USE <1>0, NumbersAssumption, MutexAssumption
        DEF MutexType, MutexPlace, RuntimeType, RuntimePlace, Event, Outcome, mutexVars, runtimeVars,
            clock, holds, fences, timers, results, Works, Fault, Goto, Exit, Emit, Settle,
            StopTimer
<1>1. ASSUME NEW c \in Call, Start(c) PROVE MutexType(P)'
  BY <1>1 DEF Start
<1>2. ASSUME NEW c \in Call, Grant(c) PROVE MutexType(P)'
  BY <1>2 DEF Grant, Hold
<1>3. ASSUME NEW c \in Call, Retry(c) PROVE MutexType(P)'
  BY <1>3 DEF Retry, Sleep, Attempting
<1>4. ASSUME NEW c \in Call, AttemptFault(c) PROVE MutexType(P)'
  <2>1. /\ attempts' \in [Call -> 0 .. RetryCount] /\ wake' \in [Call -> Nat]
    BY <1>4 DEF AttemptFault, Sleep
  <2>2. /\ lease' \in [Call -> Nat] /\ order' \in [Call -> Nat] /\ grants' \in Nat
    <3>1. CASE UNCHANGED holds
      BY <3>1
    <3>2. CASE Hold(c, now + Ttl)
      BY <3>2 DEF Hold
    <3> QED
      BY <1>4, <3>1, <3>2 DEF AttemptFault
  <2> QED
    BY <1>4, <2>1, <2>2 DEF AttemptFault
<1>5. ASSUME NEW c \in Call, Deny(c) PROVE MutexType(P)'
  <2>1. /\ emitted' \in [Call -> SUBSET Event] /\ outcome' \in [Call -> Outcome]
    BY <1>5 DEF Deny, Report
  <2>2. lease' \in [Call -> Nat]
    <3>1. CASE Withdraw(c)
      BY <3>1 DEF Withdraw
    <3> QED
      BY <1>5, <3>1 DEF Deny
  <2>3. faults' \in Nat /\ now' \in Nat \ {0}
    <3>1. CASE Works
      BY <3>1
    <3> QED
      BY <1>5, <3>1 DEF Deny
  <2>4. attempts' \in [Call -> 0 .. RetryCount] /\ wake' \in [Call -> Nat]
    BY <1>5 DEF Deny
  <2> QED
    BY <1>5, <2>1, <2>2, <2>3, <2>4 DEF Deny
<1>6. ASSUME NEW c \in Call, DenyFault(c) PROVE MutexType(P)'
  <2>1. /\ lease' \in [Call -> Nat] /\ order' \in [Call -> Nat] /\ grants' \in Nat
    <3>1. CASE Withdraw(c) /\ UNCHANGED <<order, grants>>
      BY <3>1 DEF Withdraw
    <3>2. CASE UNCHANGED holds
      BY <3>2
    <3>3. CASE Hold(c, now + Ttl)
      BY <3>3 DEF Hold
    <3> QED
      BY <1>6, <3>1, <3>2, <3>3 DEF DenyFault
  <2>2. /\ emitted' \in [Call -> SUBSET Event] /\ outcome' \in [Call -> Outcome]
    BY <1>6 DEF DenyFault, Report
  <2>3. faults' \in Nat /\ now' \in Nat \ {0}
    BY <1>6 DEF DenyFault
  <2>4. attempts' \in [Call -> 0 .. RetryCount] /\ wake' \in [Call -> Nat]
    BY <1>6 DEF DenyFault
  <2> QED
    BY <1>6, <2>1, <2>2, <2>3, <2>4 DEF DenyFault
<1>7. ASSUME NEW c \in Call, ManualStep(c) PROVE MutexType(P)'
  <2>1. CASE TryReturns(c)
    BY <2>1 DEF TryReturns
  <2>2. CASE TokenReturns(c)
    <3>1. Keys[c] \in Label /\ NextNumber(Keys[c]) \in Nat
      OBVIOUS
    <3>2. /\ fence' \in [Label -> Nat] /\ fenceExp' \in [Label -> Nat]
          /\ token' \in [Call -> Nat] /\ timely' \in [Call -> BOOLEAN]
      <4>1. CASE IssueToken(c)
        BY <3>1, <4>1 DEF IssueToken, Increment, Held
      <4>2. CASE Refresh(Keys[c]) /\ UNCHANGED <<token, timely>>
        BY <3>1, <4>2 DEF Refresh
      <4> QED
        BY <2>2, <4>1, <4>2 DEF TokenReturns
    <3> QED
      BY <2>2, <3>2 DEF TokenReturns
  <2>3. CASE TokenFault(c)
    BY <2>3 DEF TokenFault, TokenLost, Increment, Refresh
  <2>4. CASE UserExtends(c)
    BY <2>4 DEF UserExtends
  <2>5. CASE UserExtendFails(c)
    BY <2>5 DEF UserExtendFails
  <2>6. CASE UserReleases(c)
    BY <2>6 DEF UserReleases
  <2>7. CASE Crash(c) /\ UNCHANGED attempts
    BY <2>7 DEF Crash
  <2> QED BY <1>7, <2>1, <2>2, <2>3, <2>4, <2>5, <2>6, <2>7 DEF ManualStep
<1>8. ASSUME NEW c \in Call, RuntimeStep(c), UNCHANGED attempts PROVE MutexType(P)'
  <2>1. CASE Begin(c)
    BY <1>8, <2>1 DEF Begin
  <2>2. CASE BeginThrows(c)
    BY <1>8, <2>2 DEF BeginThrows
  <2>3. CASE IncrFence(c)
    <3>1. Keys[c] \in Label /\ NextNumber(Keys[c]) \in Nat
      OBVIOUS
    <3>2. /\ fence' \in [Label -> Nat] /\ fenceExp' \in [Label -> Nat]
          /\ token' \in [Call -> Nat] /\ timely' \in [Call -> BOOLEAN]
      BY <2>3, <3>1 DEF IncrFence, IssueToken, Increment, Held
    <3> QED
      BY <1>8, <2>3, <3>2 DEF IncrFence
  <2>4. CASE PexpireFence(c)
    BY <1>8, <2>4 DEF PexpireFence, Refresh
  <2>5. CASE FenceFault(c)
    BY <1>8, <2>5 DEF FenceFault, TokenLost, Increment, Refresh
  <2>6. CASE CallbackEnds(c)
    BY <1>8, <2>6 DEF CallbackEnds
  <2>7. CASE Release(c)
    BY <1>8, <2>7 DEF Release
  <2>8. CASE ReleaseFault(c)
    BY <1>8, <2>8 DEF ReleaseFault
  <2>9. CASE ExtendFire(c)
    BY <1>8, <2>9 DEF ExtendFire
  <2>10. CASE ExtendLands(c)
    <3>1. lease' \in [Call -> Nat] /\ sent' \in [Call -> Nat]
      BY <2>10 DEF ExtendLands, ExtendInFlight, Extended
    <3>2. /\ due' \in [Call -> Nat] /\ aborted' \in [Call -> BOOLEAN]
          /\ emitted' \in [Call -> SUBSET Event]
      <4>1. CASE Emit(c, {"extended"}) /\ UNCHANGED <<due, aborted>>
        BY <4>1
      <4>2. CASE ExtensionLost(c, {"extended", "extend_failed"})
        BY <4>2 DEF ExtensionLost
      <4> QED
        BY <2>10, <4>1, <4>2 DEF ExtendLands
    <3> QED
      BY <1>8, <2>10, <3>1, <3>2 DEF ExtendLands
  <2>11. CASE ExtendRefused(c)
    BY <1>8, <2>11 DEF ExtendRefused, ExtendInFlight, ExtensionLost
  <2>12. CASE ExtendFault(c)
    BY <1>8, <2>12 DEF ExtendFault, ExtendInFlight, Extended, ExtensionLost
  <2>13. CASE Crash(c)
    BY <1>8, <2>13 DEF Crash
  <2> QED
    BY <1>8, <2>1, <2>2, <2>3, <2>4, <2>5, <2>6, <2>7, <2>8, <2>9, <2>10, <2>11, <2>12,
       <2>13 DEF RuntimeStep
<1>9. CASE TimePasses
  BY <1>9 DEF TimePasses
<1>10. CASE UNCHANGED mutexVars
  BY <1>10
<1> QED
  BY <1>1, <1>2, <1>3, <1>4, <1>5, <1>6, <1>7, <1>8, <1>9, <1>10
  DEF MutexStep, CallStep, AcquireStep

\* TypeOK holds in every reachable state.
THEOREM TypeCorrect == Spec => []TypeOK
<1>1. Init => TypeOK
  BY InitType
<1>2. TypeOK /\ [Next]_mutexVars => TypeOK'
  BY StepType, NextIsStep DEF TypeOK, MutexType, MutexPlace
<1> QED
  BY <1>1, <1>2, PTL DEF Spec

-----------------------------------------------------------------------------
(* What any step does to the locks, and where it takes a call.             *)

Acquires(c) == pc[c] = "acquiring" /\ Free(c) /\ Hold(c, now + Ttl)
Renews(c) ==
    /\ Held(c) /\ (sent[c] # 0 \/ pc[c] = "owning")
    /\ lease' = [lease EXCEPT ![c] = now + Ttl] /\ UNCHANGED <<order, grants>>
Drops(c) == lease' = [lease EXCEPT ![c] = 0] /\ UNCHANGED <<order, grants>>

LocksStep ==
    \/ now' = now /\ \E c \in Call : Acquires(c) \/ Renews(c) \/ Drops(c)
    \/ now' \in {now, now + 1} /\ UNCHANGED holds

\* Whoever acts, at most one lock is taken, renewed or dropped.
LEMMA StepLocks ==
    ASSUME NEW P, RuntimeType(P), MutexStep
    PROVE  LocksStep
<1> USE DEF RuntimeType, mutexVars, runtimeVars, clock, holds, Works, Fault
<1>1. ASSUME NEW c \in Call, Grant(c) PROVE LocksStep
  BY <1>1 DEF Grant, Attempting, LocksStep, Acquires
<1>2. ASSUME NEW c \in Call, AttemptFault(c) PROVE LocksStep
  <2>1. CASE UNCHANGED holds
    BY <1>2, <2>1 DEF AttemptFault, LocksStep
  <2>2. CASE Free(c) /\ Hold(c, now + Ttl)
    BY <1>2, <2>2 DEF AttemptFault, Attempting, LocksStep, Acquires
  <2> QED
    BY <1>2, <2>1, <2>2 DEF AttemptFault
<1>3. ASSUME NEW c \in Call, Deny(c) PROVE LocksStep
  <2>1. CASE Withdraw(c)
    BY <1>3, <2>1 DEF Deny, Withdraw, LocksStep, Drops
  <2>2. CASE lease' = lease
    BY <1>3, <2>2 DEF Deny, LocksStep
  <2> QED
    BY <1>3, <2>1, <2>2 DEF Deny
<1>4. ASSUME NEW c \in Call, DenyFault(c) PROVE LocksStep
  <2>1. CASE Withdraw(c) /\ UNCHANGED <<order, grants>>
    BY <1>4, <2>1 DEF DenyFault, Withdraw, LocksStep, Drops
  <2>2. CASE UNCHANGED holds
    BY <1>4, <2>2 DEF DenyFault, LocksStep
  <2>3. CASE Free(c) /\ Hold(c, now + Ttl)
    BY <1>4, <2>3 DEF DenyFault, Attempting, LocksStep, Acquires
  <2> QED
    BY <1>4, <2>1, <2>2, <2>3 DEF DenyFault
<1>5. ASSUME NEW c \in Call, ManualStep(c) PROVE LocksStep
  <2>1. CASE UserExtends(c)
    BY <2>1 DEF UserExtends, LocksStep, Renews
  <2>2. CASE UserExtendFails(c)
    <3>1. CASE lease' = lease
      BY <2>2, <3>1 DEF UserExtendFails, LocksStep
    <3>2. CASE Held(c) /\ lease' = [lease EXCEPT ![c] = now + Ttl]
      BY <2>2, <3>2 DEF UserExtendFails, LocksStep, Renews
    <3> QED
      BY <2>2, <3>1, <3>2 DEF UserExtendFails
  <2>3. CASE UserReleases(c)
    BY <2>3 DEF UserReleases, LocksStep, Drops
  <2>4. CASE TryReturns(c) \/ TokenReturns(c) \/ TokenFault(c) \/ Crash(c)
    BY <2>4 DEF TryReturns, TokenReturns, TokenFault, TokenLost, Crash, LocksStep
  <2> QED
    BY <1>5, <2>1, <2>2, <2>3, <2>4 DEF ManualStep
<1>6. ASSUME NEW c \in Call, RuntimeStep(c) PROVE LocksStep
  <2>1. CASE Release(c)
    BY <2>1 DEF Release, LocksStep, Drops
  <2>2. CASE ReleaseFault(c)
    BY <2>2 DEF ReleaseFault, LocksStep, Drops
  <2>3. CASE ExtendLands(c)
    BY <2>3, MutexAssumption DEF ExtendLands, ExtendInFlight, Renewable, Extended, LocksStep, Renews
  <2>4. CASE ExtendFault(c)
    <3>1. CASE lease' = lease
      BY <2>4, <3>1 DEF ExtendFault, LocksStep
    <3>2. CASE Renewable(c) /\ Extended(c)
      BY <2>4, <3>2, MutexAssumption DEF ExtendFault, ExtendInFlight, Renewable, Extended, LocksStep,
         Renews
    <3> QED
      BY <2>4, <3>1, <3>2 DEF ExtendFault
  <2>5. CASE Begin(c) \/ BeginThrows(c) \/ IncrFence(c) \/ PexpireFence(c) \/ FenceFault(c)
    BY <2>5 DEF Begin, BeginThrows, IncrFence, PexpireFence, FenceFault, TokenLost, LocksStep
  <2>6. CASE CallbackEnds(c) \/ ExtendFire(c) \/ ExtendRefused(c) \/ Crash(c)
    BY <2>6 DEF CallbackEnds, ExtendFire, ExtendRefused, Crash, LocksStep
  <2> QED
    BY <1>6, <2>1, <2>2, <2>3, <2>4, <2>5, <2>6 DEF RuntimeStep
<1>7. ASSUME NEW c \in Call, Start(c) \/ Retry(c) PROVE LocksStep
  BY <1>7 DEF Start, Retry, LocksStep
<1>8. CASE TimePasses
  BY <1>8 DEF TimePasses, LocksStep
<1>9. CASE UNCHANGED mutexVars
  BY <1>9 DEF LocksStep
<1> QED
  BY <1>1, <1>2, <1>3, <1>4, <1>5, <1>6, <1>7, <1>8, <1>9
  DEF MutexStep, CallStep, AcquireStep

Trying == {"idle", "acquiring"}

PlacesStep ==
    \A c \in Call :
        /\ pc'[c] \in Trying => pc[c] \in Trying
        /\ pc'[c] = "granted" => pc[c] = "granted" \/ order'[c] # 0
        /\ pc'[c] = "fencing" => pc[c] \in {"granted", "fencing"}
        /\ pc'[c] = "pexpire" => pc[c] = "pexpire" \/ IdleTtl # 0

\* A call that stops trying never tries again, and is granted its lock only
\* by an acquisition.
LEMMA StepPlaces ==
    ASSUME NEW P, RuntimeType(P), MutexStep
    PROVE  PlacesStep
<1> USE DEF RuntimeType, PlacesStep, Trying, Goto, Exit, mutexVars, runtimeVars
<1>1. ASSUME NEW c \in Call, Grant(c) PROVE PlacesStep
  BY <1>1 DEF Grant, Attempting, Hold
<1>2. ASSUME NEW c \in Call, Start(c) PROVE PlacesStep
  BY <1>2 DEF Start
<1>3. ASSUME NEW c \in Call, Deny(c) \/ DenyFault(c) PROVE PlacesStep
  BY <1>3 DEF Deny, DenyFault, Attempting
<1>4. ASSUME NEW c \in Call, ManualStep(c) PROVE PlacesStep
  <2>1. CASE TryReturns(c)
    BY <2>1 DEF TryReturns
  <2>2. CASE TokenReturns(c)
    BY <2>2 DEF TokenReturns
  <2>3. CASE TokenFault(c) \/ UserReleases(c) \/ Crash(c)
    BY <2>3 DEF TokenFault, UserReleases, Crash
  <2>4. CASE UserExtends(c) \/ UserExtendFails(c)
    BY <2>4 DEF UserExtends, UserExtendFails
  <2> QED
    BY <1>4, <2>1, <2>2, <2>3, <2>4 DEF ManualStep
<1>5. ASSUME NEW c \in Call, RuntimeStep(c) PROVE PlacesStep
  <2>1. CASE Begin(c) \/ BeginThrows(c)
    BY <2>1 DEF Begin, BeginThrows
  <2>2. CASE IncrFence(c) \/ PexpireFence(c) \/ FenceFault(c) \/ CallbackEnds(c)
    BY <2>2 DEF IncrFence, PexpireFence, FenceFault, CallbackEnds
  <2>3. CASE Release(c) \/ ReleaseFault(c) \/ Crash(c)
    BY <2>3 DEF Release, ReleaseFault, Crash
  <2>4. CASE ExtendFire(c) \/ ExtendLands(c) \/ ExtendRefused(c) \/ ExtendFault(c)
    BY <2>4 DEF ExtendFire, ExtendLands, ExtendRefused, ExtendFault
  <2> QED
    BY <1>5, <2>1, <2>2, <2>3, <2>4 DEF RuntimeStep
<1>6. ASSUME NEW c \in Call, Retry(c) \/ AttemptFault(c) PROVE PlacesStep
  BY <1>6 DEF Retry, AttemptFault
<1>7. CASE TimePasses \/ UNCHANGED mutexVars
  BY <1>7 DEF TimePasses
<1> QED
  BY <1>1, <1>2, <1>3, <1>4, <1>5, <1>6, <1>7
  DEF MutexStep, CallStep, AcquireStep

-----------------------------------------------------------------------------
(* Exclusion.  MutualExclusion is not inductive: that a lapsed holder can   *)
(* not come back needs the order of the acquisitions, of which only the     *)
(* latest one of a resource can still be in force.                          *)

Superseded ==
    \A c, d \in Call : Conflict(c, d) /\ order[c] < order[d] => ~Held(c)

Ordered ==
    /\ \A c \in Call : order[c] <= grants /\ (lease[c] # 0 => order[c] # 0)
    /\ \A c, d \in Call : order[c] = order[d] => c = d \/ order[c] = 0
    /\ Superseded
OrderInv == TypeOK /\ Ordered

\* The order of the acquisitions and the leases stay consistent.
LEMMA OrderKept ==
    ASSUME NEW P, RuntimeType(P), RuntimeType(P)', Ordered, LocksStep
    PROVE  Ordered'
<1> USE NumbersAssumption, MutexAssumption DEF Ordered, RuntimeType
<1>1. CASE now' \in {now, now + 1} /\ UNCHANGED holds
  BY <1>1 DEF holds, Superseded, Held, Conflict
<1>2. ASSUME NEW x \in Call, now' = now, Acquires(x) PROVE Ordered'
  <2>1. /\ \A c \in Call : order'[c] <= grants' /\ (lease'[c] # 0 => order'[c] # 0)
        /\ \A c, d \in Call : order'[c] = order'[d] => c = d \/ order'[c] = 0
    BY <1>2 DEF Acquires, Hold
  <2>2. ASSUME NEW c \in Call, NEW d \in Call, Conflict(c, d), order'[c] < order'[d]
        PROVE  ~Held(c)'
    <3>1. CASE c = x
      BY <1>2, <2>1, <2>2, <3>1 DEF Acquires, Hold, Conflict
    <3>2. CASE d = x
      BY <1>2, <2>2, <3>2 DEF Acquires, Hold, Conflict, Free, Held
    <3>3. CASE c # x /\ d # x
      BY <1>2, <2>2, <3>3 DEF Acquires, Hold, Superseded, Held
    <3> QED
      BY <3>1, <3>2, <3>3
  <2> QED
    BY <2>1, <2>2 DEF Superseded, Conflict
<1>3. ASSUME NEW x \in Call, now' = now, Renews(x) \/ Drops(x) PROVE Ordered'
  <2>1. /\ order' = order /\ grants' = grants
        /\ \A c \in Call : Held(c)' => Held(c)
    BY <1>3 DEF Renews, Drops, Held
  <2>2. \A c \in Call : lease'[c] # 0 => order'[c] # 0
    BY <1>3 DEF Renews, Drops, Held
  <2> QED
    BY <2>1, <2>2 DEF Superseded, Conflict
<1> QED
  BY <1>1, <1>2, <1>3 DEF LocksStep

\* The order of the acquisitions is an inductive invariant.
LEMMA OrderInductive ==
    ASSUME OrderInv, [Next]_mutexVars
    PROVE  OrderInv'
<1>1. TypeOK' /\ RuntimeType(MutexPlace) /\ RuntimeType(MutexPlace)'
  BY StepType, NextIsStep DEF OrderInv, TypeOK, MutexType, MutexPlace
<1>2. LocksStep
  BY <1>1, StepLocks, NextIsStep
<1> QED
  BY <1>1, <1>2, OrderKept DEF OrderInv

\* So they are in every reachable state.
LEMMA OrderInvariant == Spec => []OrderInv
<1>1. Init => OrderInv
  BY InitType, NumbersAssumption, SetsAssumption
  DEF Init, RuntimeInit, OrderInv, Ordered, Superseded, Held
<1>2. OrderInv /\ [Next]_mutexVars => OrderInv'
  BY OrderInductive
<1> QED
  BY <1>1, <1>2, PTL DEF Spec

\* Of two holders of a common resource the earlier would be superseded.
LEMMA OrderExcludes ==
    ASSUME NEW P, RuntimeType(P), Ordered
    PROVE  MutualExclusion
<1> SUFFICES ASSUME NEW c \in Call, NEW d \in Call,
                    Conflict(c, d), Held(c), Held(d)
             PROVE  FALSE
  BY DEF MutualExclusion
<1>1. c # d /\ Conflict(d, c) /\ order[c] # 0 /\ order[d] # 0
  BY DEF Conflict, Ordered, Held
<1>2. order[c] < order[d] \/ order[d] < order[c]
  BY <1>1 DEF Ordered, RuntimeType
<1> QED
  BY <1>1, <1>2 DEF Ordered, Superseded

\* Two calls never hold a common resource at the same time.
THEOREM Exclusion == Spec => []MutualExclusion
<1>1. OrderInv => MutualExclusion
  BY OrderExcludes DEF OrderInv, TypeOK
<1> QED
  BY <1>1, OrderInvariant, PTL

-----------------------------------------------------------------------------
(* Refinement of the abstract admission.                                   *)

\* No step adds a holder but the one that acquires, and the holders stay apart.
AdmissionStep ==
    LET holding == {c \in Call : Held(c)} IN
    \/ holding' \subseteq holding
    \/ /\ \A c, d \in holding' : ~Conflict(c, d)
       /\ \A c \in holding' \ holding : pc[c] = "acquiring"

\* Every step either loses holders or admits one that was still trying.
LEMMA StepAdmits ==
    ASSUME NEW P, RuntimeType(P), Ordered, LocksStep
    PROVE  AdmissionStep
<1> DEFINE holding == {c \in Call : Held(c)}
<1> USE NumbersAssumption, MutexAssumption DEF RuntimeType
<1>1. ASSUME NEW x \in Call, now' = now, Acquires(x) PROVE AdmissionStep
  <2>1. MutualExclusion
    BY OrderExcludes
  <2>2. holding' = holding \cup {x} /\ pc[x] = "acquiring"
    BY <1>1 DEF Acquires, Hold, Held
  <2>3. \A c, d \in holding' : ~Conflict(c, d)
    BY <1>1, <2>1, <2>2 DEF Acquires, Free, Conflict, MutualExclusion
  <2> QED
    BY <2>2, <2>3 DEF AdmissionStep, Conflict
<1>2. ASSUME NEW x \in Call, now' = now, Renews(x) \/ Drops(x) PROVE AdmissionStep
  <2>1. \A c \in Call : Held(c)' => Held(c)
    BY <1>2 DEF Renews, Drops, Held
  <2> QED
    BY <2>1 DEF AdmissionStep
<1>3. CASE now' \in {now, now + 1} /\ UNCHANGED holds
  <2>1. \A c \in Call : Held(c)' => Held(c)
    BY <1>3 DEF holds, Held
  <2> QED
    BY <2>1 DEF AdmissionStep
<1> QED
  BY <1>1, <1>2, <1>3 DEF LocksStep

\* Every behaviour of the detailed specification is one of the abstract one.
THEOREM Refinement == Spec => ImplementsAdmission
<1> DEFINE holding == {c \in Call : Held(c)}
           shut == {c \in Call : pc[c] \notin Trying}
<1>1. Init => Abstract!Init
  BY DEF Init, RuntimeInit, Abstract!Init, Held
<1>2. OrderInv /\ [Next]_mutexVars => [Abstract!Next]_<<holding, shut>>
  <2> SUFFICES ASSUME OrderInv, [Next]_mutexVars
               PROVE  Abstract!Next
    BY DEF Trying
  <2>1. RuntimeType(MutexPlace) /\ Ordered /\ MutexStep
    BY NextIsStep DEF OrderInv, TypeOK, MutexPlace
  <2>2. LocksStep /\ PlacesStep
    BY <2>1, StepLocks, StepPlaces
  <2>3. AdmissionStep
    BY <2>1, <2>2, StepAdmits
  <2>4. shut \subseteq shut'
    BY <2>2 DEF PlacesStep
  <2>5. Abstract!Leave \/ Abstract!Admit
    BY <2>3 DEF AdmissionStep, Abstract!Leave, Abstract!Admit, Trying
  <2> QED
    BY <2>4, <2>5 DEF Abstract!Next, Trying
<1> QED
  BY <1>1, <1>2, OrderInvariant, PTL DEF Spec, ImplementsAdmission, Abstract!Spec, Trying

-----------------------------------------------------------------------------
(* Fencing.  With persistent counters, a token issued in time is below the  *)
(* counter for ever after, and a call acquires before it asks for a token.  *)

FenceInv ==
    /\ OrderInv
    /\ \A l \in Label : fenceExp[l] = 0
    /\ \A c \in Call : pc[c] # "pexpire"
    /\ \A c \in Call : token[c] <= fence[Keys[c]]
    /\ \A c \in Call : timely[c] => token[c] # 0
    /\ \A c \in Call : pc[c] \in Trying => token[c] = 0
    /\ \A c \in Call : pc[c] \in {"granted", "fencing"} => order[c] # 0
    /\ FencedHandover

Issues(c) == pc[c] = "fencing" /\ IssueToken(c) /\ UNCHANGED holds

FencesStep ==
    \/ \E c \in Call : Issues(c) /\ pc'[c] \notin Trying
    \/ /\ UNCHANGED <<token, timely>>
       /\ \/ UNCHANGED <<fence, fenceExp>>
          \/ \E l \in Label : Increment(l) \/ (IdleTtl # 0 /\ Refresh(l))

\* A step issues one token, or leaves every token alone.
LEMMA StepFences ==
    ASSUME NEW P, RuntimeType(P), MutexStep, \A c \in Call : pc[c] = "pexpire" => IdleTtl # 0
    PROVE  FencesStep
<1>0. \A c \in Call : Keys[c] \in Label
  BY TimeType
<1> USE DEF RuntimeType, mutexVars, runtimeVars, fences, FencesStep
<1>1. ASSUME NEW c \in Call, IncrFence(c) PROVE FencesStep
  BY <1>1 DEF IncrFence, Issues, Goto, Trying
<1>2. ASSUME NEW c \in Call, PexpireFence(c) PROVE FencesStep
  BY <1>2, <1>0 DEF PexpireFence
<1>3. ASSUME NEW c \in Call, TokenReturns(c) PROVE FencesStep
  <2>1. CASE pc[c] = "fencing"
    BY <1>3, <2>1 DEF TokenReturns, Issues, Goto, Trying
  <2>2. CASE pc[c] = "pexpire"
    BY <1>3, <2>2, <1>0 DEF TokenReturns
  <2> QED
    BY <1>3, <2>1, <2>2 DEF TokenReturns
<1>4. ASSUME NEW c \in Call, TokenLost(c) PROVE FencesStep
  <2>1. CASE UNCHANGED <<fence, fenceExp>>
    BY <1>4, <2>1 DEF TokenLost
  <2>2. CASE Increment(Keys[c])
    BY <1>4, <2>2, <1>0 DEF TokenLost
  <2>3. CASE pc[c] = "pexpire" /\ Refresh(Keys[c])
    BY <1>4, <2>3, <1>0 DEF TokenLost
  <2> QED
    BY <1>4, <2>1, <2>2, <2>3 DEF TokenLost
<1>5. ASSUME NEW c \in Call, ManualStep(c) PROVE FencesStep
  <2>1. CASE TryReturns(c) \/ UserExtends(c) \/ UserExtendFails(c) \/ UserReleases(c) \/ Crash(c)
    BY <2>1 DEF TryReturns, UserExtends, UserExtendFails, UserReleases, Crash
  <2> QED
    BY <1>5, <1>3, <1>4, <2>1 DEF ManualStep, TokenFault
<1>6. ASSUME NEW c \in Call, RuntimeStep(c) PROVE FencesStep
  <2>1. CASE Begin(c) \/ BeginThrows(c) \/ CallbackEnds(c) \/ Release(c) \/ ReleaseFault(c) \/ Crash(c)
    BY <2>1 DEF Begin, BeginThrows, CallbackEnds, Release, ReleaseFault, Crash
  <2>2. CASE ExtendFire(c) \/ ExtendLands(c) \/ ExtendRefused(c) \/ ExtendFault(c)
    BY <2>2 DEF ExtendFire, ExtendLands, ExtendRefused, ExtendFault
  <2> QED
    BY <1>6, <1>1, <1>2, <1>4, <2>1, <2>2 DEF RuntimeStep, FenceFault
<1>7. ASSUME NEW c \in Call, Start(c) \/ AcquireStep(c) PROVE FencesStep
  BY <1>7 DEF Start, AcquireStep, Grant, Retry, AttemptFault, Deny, DenyFault
<1>8. CASE TimePasses \/ UNCHANGED mutexVars
  BY <1>8 DEF TimePasses
<1> QED
  BY <1>5, <1>6, <1>7, <1>8 DEF MutexStep, CallStep

\* A step keeps every token below its counter, and timely ones in order.
LEMMA FenceInductive ==
    ASSUME IdleTtl = 0, FenceInv, [Next]_mutexVars
    PROVE  FenceInv'
<1>0. RuntimeType(MutexPlace) /\ MutexStep
  BY NextIsStep DEF FenceInv, OrderInv, TypeOK, MutexPlace
<1>1. TypeOK /\ OrderInv' /\ LocksStep /\ PlacesStep /\ FencesStep
  BY <1>0, OrderInductive, StepLocks, StepPlaces, StepFences DEF FenceInv, OrderInv
<1>2. TypeOK'
  BY <1>1 DEF OrderInv
<1> USE <1>1, <1>2 DEF TypeOK, RuntimeType
<1>3. \A l \in Label : ~CounterExpired(l) /\ NextNumber(l) = fence[l] + 1
  BY DEF FenceInv, CounterExpired, NextNumber
<1>4. \A c \in Call : Keys[c] \in Label
  BY <1>0, TimeType
<1>5. \A c \in Call : pc'[c] # "pexpire"
  BY DEF FenceInv, PlacesStep
<1>6. \A c \in Call : pc'[c] \in {"granted", "fencing"} => order'[c] # 0
  <2>1. \A c \in Call : order[c] # 0 => order'[c] # 0
    BY DEF LocksStep, Acquires, Renews, Drops, Hold, holds
  <2> QED
    BY <2>1 DEF FenceInv, PlacesStep
<1>7. ASSUME NEW x \in Call, Issues(x), pc'[x] \notin Trying PROVE FenceInv'
  <2>1. /\ fence' = [fence EXCEPT ![Keys[x]] = @ + 1]
        /\ fenceExp' = [fenceExp EXCEPT ![Keys[x]] = @]
        /\ token' = [token EXCEPT ![x] = fence[Keys[x]] + 1]
        /\ timely' = [timely EXCEPT ![x] = Held(x)]
        /\ order' = order
    BY <1>3, <1>4, <1>7 DEF Issues, IssueToken, Increment, holds
  <2>2. /\ \A l \in Label : fenceExp'[l] = 0
        /\ \A c \in Call : token'[c] <= fence'[Keys[c]]
        /\ \A c \in Call : timely'[c] => token'[c] # 0
        /\ \A c \in Call : pc'[c] \in Trying => token'[c] = 0
    BY <1>4, <1>7, <2>1 DEF FenceInv, PlacesStep
  <2>3. FencedHandover'
    <3> SUFFICES ASSUME NEW c \in Call, NEW d \in Call, Keys[c] = Keys[d], timely'[c],
                        order[c] < order[d], token'[d] # 0
                 PROVE  token'[c] < token'[d]
      BY <2>1 DEF FencedHandover
    <3>1. CASE c = x   \* c has been superseded: its token is not timely
      <4>1. order[c] # 0 /\ Conflict(c, d)
        <5>1. order[c] # 0
          BY <1>7, <3>1 DEF Issues, FenceInv
        <5>2. c # d /\ Keys[c] \cap Keys[d] # {}
          BY SetsAssumption
        <5> QED
          BY <5>1, <5>2 DEF Conflict
      <4>2. ~Held(c)
        BY <4>1 DEF FenceInv, OrderInv, Ordered, Superseded
      <4>3. timely'[c] = Held(c)
        BY <2>1, <3>1
      <4> QED
        BY <4>2, <4>3
    <3>2. CASE d = x
      BY <1>4, <2>1, <3>2 DEF FenceInv
    <3>3. CASE c # x /\ d # x
      BY <2>1, <3>3 DEF FenceInv, FencedHandover
    <3> QED
      BY <3>1, <3>2, <3>3
  <2> QED
    BY <1>5, <1>6, <2>2, <2>3 DEF FenceInv
<1>8. ASSUME UNCHANGED <<token, timely>>,
             \/ UNCHANGED <<fence, fenceExp>>
             \/ \E l \in Label : Increment(l)
      PROVE  FenceInv'
  <2>1. \A l \in Label : fence[l] <= fence'[l] /\ fenceExp'[l] = 0
    <3>1. CASE UNCHANGED <<fence, fenceExp>>
      BY <3>1 DEF FenceInv
    <3>2. ASSUME NEW l \in Label, Increment(l)
          PROVE  \A k \in Label : fence[k] <= fence'[k] /\ fenceExp'[k] = 0
      BY <1>3, <3>2 DEF FenceInv, Increment
    <3> QED
      BY <1>8, <3>1, <3>2
  <2>2. /\ \A c \in Call : token'[c] <= fence'[Keys[c]]
        /\ \A c \in Call : timely'[c] => token'[c] # 0
        /\ \A c \in Call : pc'[c] \in Trying => token'[c] = 0
    BY <1>4, <1>8, <2>1 DEF FenceInv, PlacesStep
  <2>3. FencedHandover'
    <3> SUFFICES ASSUME NEW c \in Call, NEW d \in Call, Keys[c] = Keys[d], timely[c],
                        order'[c] < order'[d], token[d] # 0
                 PROVE  token[c] < token[d]
      BY <1>8 DEF FencedHandover
    <3>1. \A e \in Call : token[e] # 0 => order'[e] = order[e]
      BY DEF FenceInv, LocksStep, Acquires, Renews, Drops, Hold, holds, Trying
    <3> QED
      BY <3>1 DEF FenceInv, FencedHandover
  <2> QED
    BY <1>5, <1>6, <2>1, <2>2, <2>3 DEF FenceInv
<1> QED
  BY <1>7, <1>8 DEF FencesStep

\* A token issued in time is below every later one of its label.
THEOREM Fencing == ASSUME IdleTtl = 0 PROVE Spec => []FencedHandover
<1>1. Init => FenceInv
  <2>1. Init => OrderInv
    BY InitType DEF Init, RuntimeInit, OrderInv, Ordered, Superseded, Held
  <2> QED
    BY <2>1, SetsAssumption DEF Init, RuntimeInit, FenceInv, FencedHandover, Label
<1>2. FenceInv /\ [Next]_mutexVars => FenceInv'
  BY FenceInductive
<1>3. FenceInv => FencedHandover
  BY DEF FenceInv
<1> QED
  BY <1>1, <1>2, <1>3, PTL DEF Spec

-----------------------------------------------------------------------------
(* Renewals stop with the call: the interval runs only between ACQUIRED and *)
(* the end of the callback.                                                 *)

Running == {"fencing", "pexpire", "callback"}
TimersIn == \A c \in Call : due[c] # 0 => pc[c] \in Running /\ c \notin Manual
TimerInv == TypeOK /\ TimersIn

TimersStep ==
    \A c \in Call :
        /\ due'[c] # 0 => pc'[c] \in Running /\ c \notin Manual
        /\ sent'[c] # 0 => sent[c] # 0 \/ due[c] # 0

\* A step leaves an interval only in a call that runs, and only an interval
\* sends an extension.
LEMMA StepTimers ==
    ASSUME NEW P, RuntimeType(P), TimersIn, MutexStep
    PROVE  TimersStep
<1> USE DEF RuntimeType, TimersIn, Running, TimersStep, Goto, Exit, timers, StopTimer,
            mutexVars, runtimeVars
<1>1. ASSUME NEW c \in Call, ManualStep(c) PROVE TimersStep
  <2>1. CASE TryReturns(c) \/ TokenReturns(c)
    BY <1>1, <2>1 DEF ManualStep, TryReturns, TokenReturns
  <2>2. CASE TokenFault(c)
    BY <1>1, <2>2 DEF ManualStep, TokenFault
  <2>3. CASE UserExtends(c) \/ UserExtendFails(c) \/ UserReleases(c)
    BY <2>3 DEF UserExtends, UserExtendFails, UserReleases
  <2>4. CASE Crash(c)
    BY <2>4 DEF Crash
  <2> QED
    BY <1>1, <2>1, <2>2, <2>3, <2>4 DEF ManualStep
<1>2. ASSUME NEW c \in Call, c \notin Manual, RuntimeStep(c) PROVE TimersStep
  <2>1. CASE Begin(c)
    BY <1>2, <2>1 DEF Begin
  <2>2. CASE BeginThrows(c) \/ IncrFence(c) \/ PexpireFence(c)
    BY <2>2 DEF BeginThrows, IncrFence, PexpireFence
  <2>3. CASE FenceFault(c) \/ CallbackEnds(c)
    BY <2>3 DEF FenceFault, CallbackEnds
  <2>4. CASE Release(c) \/ ReleaseFault(c)
    BY <2>4 DEF Release, ReleaseFault
  <2>5. CASE ExtendFire(c)
    BY <2>5 DEF ExtendFire
  <2>6. CASE ExtendLands(c)
    <3>1. sent' = [sent EXCEPT ![c] = 0] /\ pc' = pc
      BY <2>6 DEF ExtendLands, ExtendInFlight
    <3>2. CASE due' = due
      BY <3>1, <3>2
    <3>3. CASE due' = [due EXCEPT ![c] = 0]
      BY <3>1, <3>3
    <3> QED
      BY <2>6, <3>2, <3>3 DEF ExtendLands, ExtensionLost
  <2>7. CASE ExtendRefused(c) \/ ExtendFault(c)
    <3>1. sent' = [sent EXCEPT ![c] = 0] /\ pc' = pc /\ due' = [due EXCEPT ![c] = 0]
      BY <2>7 DEF ExtendRefused, ExtendFault, ExtendInFlight, ExtensionLost
    <3> QED
      BY <3>1
  <2>8. CASE Crash(c)
    BY <2>8 DEF Crash
  <2> QED
    BY <1>2, <2>1, <2>2, <2>3, <2>4, <2>5, <2>6, <2>7, <2>8 DEF RuntimeStep
<1>3. ASSUME NEW c \in Call, Start(c) \/ AcquireStep(c) PROVE TimersStep
  BY <1>3 DEF Start, AcquireStep, Attempting, Grant, Retry, AttemptFault, Deny, DenyFault
<1>4. CASE TimePasses \/ UNCHANGED mutexVars
  BY <1>4 DEF TimePasses
<1> QED
  BY <1>1, <1>2, <1>3, <1>4 DEF MutexStep, CallStep

\* Once a call has settled and its last extension is answered, its lock only
\* ages.
THEOREM Quiescence == Spec => NoLateRenewal
<1> DEFINE quiet(c) == Settled(c) /\ sent[c] = 0
           ages(c) == lease'[c] <= lease[c] /\ sent'[c] = 0
<1>1. Init => TimerInv
  BY InitType DEF Init, RuntimeInit, TimerInv, TimersIn
<1>2. ASSUME TimerInv, [Next]_mutexVars
      PROVE  RuntimeType(MutexPlace) /\ TypeOK' /\ MutexStep /\ TimersStep
  BY <1>2, NextIsStep, StepType, StepTimers DEF TimerInv, TypeOK, MutexType, MutexPlace
<1>3. TimerInv /\ [Next]_mutexVars => TimerInv'
  BY <1>2 DEF TimerInv, TimersIn, TimersStep
<1>4. TimerInv /\ [Next]_mutexVars => [\A c \in Call : quiet(c) => ages(c)]_runtimeVars
  <2> SUFFICES ASSUME TimerInv, [Next]_mutexVars, NEW c \in Call, quiet(c)
               PROVE  ages(c)
    OBVIOUS
  <2>1. sent'[c] = 0
    BY <1>2 DEF TimersStep, TimerInv, TimersIn, Running, Settled
  <2>2. LocksStep
    BY <1>2, StepLocks
  <2>3. lease'[c] <= lease[c]
    BY <2>2 DEF LocksStep, Acquires, Renews, Drops, Hold, holds, Settled, TimerInv, TypeOK,
       RuntimeType
  <2> QED
    BY <2>1, <2>3
<1> QED
  BY <1>1, <1>3, <1>4, PTL DEF Spec, NoLateRenewal

-----------------------------------------------------------------------------
(* Reports: what a call has told by the time it is done.                    *)

Trouble == {"failed", "release_failed"}
LeakInv ==
    /\ TypeOK
    /\ \A c \in Call \ Manual :
        pc[c] = "done" => lease[c] = 0 \/ emitted[c] \cap Trouble # {}

ReportsStep ==
    \A c \in Call :
        /\ emitted[c] \subseteq emitted'[c]
        /\ c \notin Manual /\ pc'[c] = "done" =>
            pc[c] = "done" \/ lease'[c] = 0 \/ emitted'[c] \cap Trouble # {}

\* No step takes an event back, and a step that ends a call gives up its lock
\* or reports trouble.
LEMMA StepReports ==
    ASSUME NEW P, RuntimeType(P), MutexStep
    PROVE  ReportsStep
<1> USE DEF RuntimeType, ReportsStep, Trouble, Goto, Exit, Emit, results, mutexVars, runtimeVars
<1>1. ASSUME NEW c \in Call, ManualStep(c) PROVE ReportsStep
  <2>1. CASE TryReturns(c) \/ TokenReturns(c) \/ TokenFault(c)
    BY <1>1, <2>1 DEF ManualStep, TryReturns, TokenReturns, TokenFault
  <2>2. CASE UserExtends(c) \/ UserExtendFails(c) \/ UserReleases(c)
    BY <1>1, <2>2 DEF ManualStep, UserExtends, UserExtendFails, UserReleases
  <2>3. CASE Crash(c)
    BY <2>3 DEF Crash
  <2> QED
    BY <1>1, <2>1, <2>2, <2>3 DEF ManualStep
<1>2. ASSUME NEW c \in Call, RuntimeStep(c) PROVE ReportsStep
  <2>1. CASE Begin(c) \/ IncrFence(c) \/ PexpireFence(c)
    BY <2>1 DEF Begin, IncrFence, PexpireFence
  <2>6. CASE BeginThrows(c)
    BY <2>6 DEF BeginThrows
  <2>2. CASE FenceFault(c) \/ CallbackEnds(c) \/ Crash(c) \/ ExtendFire(c)
    BY <2>2 DEF FenceFault, CallbackEnds, Crash, ExtendFire
  <2>3. CASE Release(c)
    BY <2>3 DEF Release
  <2>4. CASE ReleaseFault(c)
    BY <2>4 DEF ReleaseFault
  <2>5. CASE ExtendLands(c) \/ ExtendRefused(c) \/ ExtendFault(c)
    BY <2>5 DEF ExtendLands, ExtendRefused, ExtendFault, ExtensionLost
  <2> QED
    BY <1>2, <2>1, <2>2, <2>3, <2>4, <2>5, <2>6 DEF RuntimeStep
<1>3. ASSUME NEW c \in Call, Deny(c) \/ DenyFault(c) PROVE ReportsStep
  <2>1. /\ emitted' = IF c \in Manual THEN emitted ELSE [emitted EXCEPT ![c] = @ \cup {"failed"}]
        /\ \A d \in Call \ {c} : pc'[d] = pc[d]
    BY <1>3 DEF Deny, DenyFault, Report
  <2> QED
    BY <2>1
<1>4. ASSUME NEW c \in Call, Start(c) \/ Grant(c) \/ Retry(c) \/ AttemptFault(c) PROVE ReportsStep
  BY <1>4 DEF Start, Grant, Retry, AttemptFault
<1>5. CASE TimePasses \/ UNCHANGED mutexVars
  BY <1>5 DEF TimePasses
<1> QED
  BY <1>1, <1>2, <1>3, <1>4, <1>5 DEF MutexStep, CallStep, AcquireStep

\* A call that is done gets no lock, as extensions renew what is held only.
LEMMA DoneStaysFree ==
    ASSUME NEW P, RuntimeType(P), LocksStep, NEW c \in Call,
           pc[c] # "acquiring", lease[c] = 0
    PROVE  lease'[c] = 0
  BY DEF LocksStep, Acquires, Renews, Drops, Hold, holds, Held, RuntimeType

\* A withLock call that is done has released its lock, or has said that it
\* may not have.
THEOREM Leaks == Spec => []LeakIsReported
<1>1. Init => LeakInv
  BY InitType DEF Init, RuntimeInit, LeakInv
<1>2. LeakInv /\ [Next]_mutexVars => LeakInv'
  <2> SUFFICES ASSUME LeakInv, [Next]_mutexVars PROVE LeakInv'
    OBVIOUS
  <2>1. RuntimeType(MutexPlace) /\ TypeOK' /\ MutexStep
    BY NextIsStep, StepType DEF LeakInv, TypeOK, MutexType, MutexPlace
  <2>2. LocksStep /\ ReportsStep
    BY <2>1, StepLocks, StepReports
  <2>3. ASSUME NEW c \in Call \ Manual, pc'[c] = "done"
        PROVE  lease'[c] = 0 \/ emitted'[c] \cap Trouble # {}
    <3>1. CASE pc[c] = "done"
      BY <2>1, <2>2, <3>1, DoneStaysFree DEF LeakInv, ReportsStep
    <3> QED
      BY <2>2, <2>3, <3>1 DEF ReportsStep
  <2> QED
    BY <2>1, <2>3 DEF LeakInv
<1>3. LeakInv => LeakIsReported
  BY DEF LeakInv, LeakIsReported, Trouble, Held
<1> QED
  BY <1>1, <1>2, <1>3, PTL DEF Spec

-----------------------------------------------------------------------------
(* Verdicts: the events of a call follow its way through the code.          *)

Mark == {"acquired", "failed", "released", "release_failed"}
Verdict == {"failed", "released", "release_failed"}
Marks(c) == emitted[c] \cap Mark
Endings == {{"failed"}, {"acquired", "released"}, {"acquired", "release_failed"}}

StageInv ==
    \A c \in Call \ Manual :
        /\ pc[c] \in {"idle", "acquiring", "granted"} => Marks(c) = {}
        /\ pc[c] \in {"fencing", "pexpire", "callback", "releasing"} => Marks(c) = {"acquired"}
        /\ pc[c] \in {"done", "leaving"} => Marks(c) \in Endings

\* Each step of a call that takes it on emits what belongs to the next stage.
LEMMA StepStages ==
    ASSUME NEW P, RuntimeType(P), MutexStep, StageInv, ThrowsOn \cap {"acquired", "released"} = {}
    PROVE  StageInv'
<1> USE DEF RuntimeType, StageInv, Marks, Mark, Endings, Goto, Exit, Emit, results, mutexVars,
            runtimeVars
<1>1. ASSUME NEW c \in Call, ManualStep(c) PROVE StageInv'
  <2>1. CASE TryReturns(c) \/ TokenReturns(c) \/ TokenFault(c)
    BY <1>1, <2>1 DEF ManualStep, TryReturns, TokenReturns, TokenFault
  <2>2. CASE UserExtends(c) \/ UserExtendFails(c) \/ UserReleases(c)
    BY <1>1, <2>2 DEF ManualStep, UserExtends, UserExtendFails, UserReleases
  <2>3. CASE Crash(c)
    BY <2>3 DEF Crash
  <2> QED
    BY <1>1, <2>1, <2>2, <2>3 DEF ManualStep
<1>2. ASSUME NEW c \in Call \ Manual, RuntimeStep(c) PROVE StageInv'
  <2>1. CASE Begin(c)
    BY <2>1 DEF Begin
  <2>2. CASE BeginThrows(c)
    BY <2>2 DEF BeginThrows
  <2>3. CASE IncrFence(c) \/ PexpireFence(c)
    BY <2>3 DEF IncrFence, PexpireFence
  <2>4. CASE FenceFault(c)
    BY <2>4 DEF FenceFault, TokenLost
  <2>5. CASE CallbackEnds(c) \/ Crash(c) \/ ExtendFire(c)
    BY <2>5 DEF CallbackEnds, Crash, ExtendFire
  <2>6. CASE Release(c)
    BY <2>6 DEF Release
  <2>7. CASE ReleaseFault(c)
    BY <2>7 DEF ReleaseFault
  <2>8. CASE ExtendLands(c) \/ ExtendRefused(c) \/ ExtendFault(c)
    <3>1. /\ pc' = pc
          /\ \E E \in SUBSET {"extended", "extend_failed"} : Emit(c, E)
      BY <2>8 DEF ExtendLands, ExtendRefused, ExtendFault, ExtensionLost
    <3>2. \A d \in Call : Marks(d)' = Marks(d)
      BY <3>1
    <3> QED
      BY <3>1, <3>2
  <2> QED
    BY <1>2, <2>1, <2>2, <2>3, <2>4, <2>5, <2>6, <2>7, <2>8 DEF RuntimeStep
<1>3. ASSUME NEW c \in Call, Deny(c) \/ DenyFault(c) PROVE StageInv'
  <2>1. /\ emitted' = IF c \in Manual THEN emitted ELSE [emitted EXCEPT ![c] = @ \cup {"failed"}]
        /\ pc[c] = "acquiring" /\ Exit(c)
    BY <1>3 DEF Deny, DenyFault, Report, Attempting
  <2> QED
    BY <2>1
<1>4. ASSUME NEW c \in Call, Start(c) \/ Grant(c) \/ Retry(c) \/ AttemptFault(c) PROVE StageInv'
  BY <1>4 DEF Start, Grant, Retry, AttemptFault, Attempting
<1>5. CASE TimePasses \/ UNCHANGED mutexVars
  BY <1>5 DEF TimePasses
<1> QED
  BY <1>1, <1>2, <1>3, <1>4, <1>5 DEF MutexStep, CallStep, AcquireStep

\* If the listeners of ACQUIRED and RELEASED do not throw, a call that is done
\* has told exactly one verdict.
THEOREM Verdicts ==
    ASSUME ThrowsOn \cap {"acquired", "released"} = {}
    PROVE  Spec => []OneVerdict
<1> DEFINE Inv == TypeOK /\ StageInv
<1>1. Init => Inv
  BY InitType DEF Init, RuntimeInit, StageInv, Marks
<1>2. Inv /\ [Next]_mutexVars => Inv'
  <2> SUFFICES ASSUME Inv, [Next]_mutexVars PROVE Inv'
    OBVIOUS
  <2>1. RuntimeType(MutexPlace) /\ TypeOK' /\ MutexStep
    BY NextIsStep, StepType DEF TypeOK, MutexType, MutexPlace
  <2> QED
    BY <2>1, StepStages
<1>3. Inv => OneVerdict
  <2> SUFFICES ASSUME Inv, NEW c \in Call \ Manual, pc[c] = "done"
               PROVE  /\ Cardinality(emitted[c] \cap Verdict) = 1
                      /\ ("acquired" \in emitted[c]) = ("failed" \notin emitted[c])
    BY DEF OneVerdict, Verdict
  <2>1. Marks(c) \in Endings
    BY DEF StageInv
  <2>2. \E v \in Verdict : emitted[c] \cap Verdict = {v}
    BY <2>1 DEF Endings, Marks, Mark, Verdict
  <2>3. Cardinality(emitted[c] \cap Verdict) = 1
    BY <2>2, FS_Singleton
  <2>4. ("acquired" \in emitted[c]) = ("failed" \notin emitted[c])
    BY <2>1 DEF Endings, Marks, Mark
  <2> QED
    BY <2>3, <2>4
<1> QED
  BY <1>1, <1>2, <1>3, PTL DEF Spec

-----------------------------------------------------------------------------
(* null: a try-lock that is told of contention leaves nothing, up to one    *)
(* rejected command, as a lost reply and a lost withdrawal are two.          *)

NullInv ==
    /\ TypeOK
    /\ \A c \in Manual :
        /\ pc[c] \in {"idle", "acquiring"} /\ faults = 0 => lease[c] = 0
        /\ outcome[c] = "null" =>
            pc[c] \in {"done", "leaving", "crashed"} /\ (faults <= 1 => lease[c] = 0)

NullsStep ==
    /\ faults <= faults'
    /\ \A c \in Manual :
        /\ outcome'[c] = "null" =>
            \/ outcome[c] = "null" /\ pc'[c] \in {pc[c], "crashed"}
            \/ /\ pc[c] = "acquiring" /\ pc'[c] \in {"done", "leaving"}
               /\ \/ lease'[c] = 0 \/ faults' = faults + 2
                  \/ lease' = lease /\ faults' = faults + 1
        /\ pc'[c] \in {"idle", "acquiring"} =>
            pc[c] \in {"idle", "acquiring"} /\ (faults' # faults \/ lease'[c] <= lease[c])

\* null is the outcome of a refusal alone, which withdraws what was taken.
LEMMA StepNulls ==
    ASSUME NEW P, RuntimeType(P), MutexStep, NullInv
    PROVE  NullsStep
<1> USE MutexAssumption
    DEF RuntimeType, NullInv, NullsStep, Goto, Exit, Settle, results, holds, mutexVars, runtimeVars,
        clock, Works, Fault
<1>1. ASSUME NEW c \in Call, ManualStep(c) PROVE NullsStep
  <2>1. CASE TryReturns(c)
    BY <1>1, <2>1 DEF ManualStep, TryReturns
  <2>2. CASE TokenReturns(c)
    BY <1>1, <2>2 DEF ManualStep, TokenReturns
  <2>3. CASE TokenFault(c)
    BY <1>1, <2>3 DEF ManualStep, TokenFault, TokenLost
  <2>4. CASE UserExtends(c)
    BY <1>1, <2>4 DEF ManualStep, UserExtends
  <2>5. CASE UserExtendFails(c) \/ UserReleases(c)
    BY <1>1, <2>5 DEF ManualStep, UserExtendFails, UserReleases
  <2>6. CASE Crash(c)
    BY <2>6 DEF Crash
  <2> QED
    BY <1>1, <2>1, <2>2, <2>3, <2>4, <2>5, <2>6 DEF ManualStep
<1>2. ASSUME NEW c \in Call \ Manual, RuntimeStep(c) PROVE NullsStep
  <2>1. /\ faults' \in {faults, faults + 1}
        /\ \A d \in Manual : pc'[d] = pc[d] /\ outcome'[d] = outcome[d] /\ lease'[d] = lease[d]
    <3>1. CASE Begin(c) \/ BeginThrows(c) \/ IncrFence(c) \/ PexpireFence(c)
      BY <1>2, <3>1 DEF Begin, BeginThrows, IncrFence, PexpireFence
    <3>2. CASE FenceFault(c) \/ CallbackEnds(c) \/ Crash(c) \/ ExtendFire(c)
      BY <1>2, <3>2 DEF FenceFault, TokenLost, CallbackEnds, Crash, ExtendFire
    <3>3. CASE Release(c) \/ ReleaseFault(c)
      BY <1>2, <3>3 DEF Release, ReleaseFault
    <3>4. CASE ExtendLands(c) \/ ExtendRefused(c) \/ ExtendFault(c)
      BY <1>2, <3>4 DEF ExtendLands, ExtendRefused, ExtendFault, Extended
    <3> QED
      BY <1>2, <3>1, <3>2, <3>3, <3>4 DEF RuntimeStep
  <2> QED
    BY <2>1
<1>3. ASSUME NEW c \in Call, Deny(c) PROVE NullsStep
  <2>1. /\ outcome' = [outcome EXCEPT ![c] = IF c \in Manual THEN "null" ELSE "refused"]
        /\ pc[c] = "acquiring" /\ Exit(c)
    BY <1>3 DEF Deny, Report, Attempting
  <2>2. \/ faults' = faults /\ lease' = [lease EXCEPT ![c] = 0]
        \/ faults' = faults + 1 /\ lease' = lease
    BY <1>3 DEF Deny, Withdraw
  <2> QED
    BY <2>1, <2>2
<1>4. ASSUME NEW c \in Call, DenyFault(c) PROVE NullsStep
  <2>1. /\ \E o \in {"null", "error", "refused"} :
                outcome' = [outcome EXCEPT ![c] = o] /\ (o = "refused" \/ c \in Manual)
        /\ pc[c] = "acquiring" /\ Exit(c)
        /\ \/ faults' = faults + 1 /\ lease' = [lease EXCEPT ![c] = 0]
           \/ faults' = faults + 2
    BY <1>4 DEF DenyFault, Report, Attempting, Withdraw
  <2> QED
    BY <2>1
<1>5. ASSUME NEW c \in Call, Start(c) \/ Grant(c) \/ Retry(c) PROVE NullsStep
  BY <1>5 DEF Start, Grant, Retry, Attempting, Hold
<1>6. ASSUME NEW c \in Call, AttemptFault(c) PROVE NullsStep
  BY <1>6 DEF AttemptFault, Attempting
<1>7. CASE TimePasses \/ UNCHANGED mutexVars
  BY <1>7 DEF TimePasses
<1> QED
  BY <1>1, <1>2, <1>3, <1>4, <1>5, <1>6, <1>7 DEF MutexStep, CallStep, AcquireStep

\* Whoever was told null has no lock to release, with one fault at most.
THEOREM Nulls == Spec => []NullHoldsNothing
<1>1. Init => NullInv
  BY InitType, MutexAssumption DEF Init, RuntimeInit, NullInv
<1>2. NullInv /\ [Next]_mutexVars => NullInv'
  <2> SUFFICES ASSUME NullInv, [Next]_mutexVars PROVE NullInv'
    OBVIOUS
  <2>1. RuntimeType(MutexPlace) /\ TypeOK' /\ MutexStep
    BY NextIsStep, StepType DEF NullInv, TypeOK, MutexType, MutexPlace
  <2>2. LocksStep /\ NullsStep
    BY <2>1, StepLocks, StepNulls
  <2>3. \A c \in Manual : pc[c] # "acquiring" /\ lease[c] = 0 => lease'[c] = 0
    BY <2>1, <2>2, DoneStaysFree, MutexAssumption
  <2>4. \A c \in Manual : lease[c] \in Nat /\ lease'[c] \in Nat /\ faults \in Nat /\ faults' \in Nat
    BY <2>1, MutexAssumption DEF TypeOK, RuntimeType
  <2> QED
    BY <2>1, <2>2, <2>3, <2>4 DEF NullInv, NullsStep
<1>3. NullInv => NullHoldsNothing
  BY DEF NullInv, NullHoldsNothing, Held
<1> QED
  BY <1>1, <1>2, <1>3, PTL DEF Spec

-----------------------------------------------------------------------------
(* Watch: with replies and timers in time, the interval renews the lock     *)
(* before it lapses, or the signal is aborted.                              *)

WatchInv ==
    /\ now <= MaxTime
    /\ TimersIn
    /\ \A c \in AutoExtend :
        /\ pc[c] = "granted" => lease[c] = now + Ttl
        /\ pc[c] \in Running => due[c] # 0 \/ aborted[c]
        /\ due[c] # 0 =>
            /\ now <= due[c] /\ due[c] <= now + Period /\ now < lease[c]
            /\ sent[c] # 0 \/ due[c] < lease[c]

Alike(d) ==
    /\ pc'[d] = pc[d] /\ lease'[d] = lease[d]
    /\ due'[d] = due[d] /\ sent'[d] = sent[d] /\ aborted'[d] = aborted[d]

\* A call's step happens at one instant and leaves the other calls alone.
LEMMA StepIsLocal ==
    ASSUME NEW P, RuntimeType(P), NEW c \in Call, CallStep(c)
    PROVE  now' = now /\ \A d \in Call \ {c} : Alike(d)
<1> USE DEF RuntimeType, Alike, Goto, Exit, holds, timers, clock, Works, Fault, StopTimer
<1>1. CASE ManualStep(c)
  <2>1. CASE TryReturns(c) \/ TokenReturns(c) \/ TokenFault(c)
    BY <2>1 DEF TryReturns, TokenReturns, TokenFault, TokenLost
  <2>2. CASE UserExtends(c) \/ UserExtendFails(c) \/ UserReleases(c)
    BY <2>2 DEF UserExtends, UserExtendFails, UserReleases
  <2>3. CASE Crash(c)
    BY <2>3 DEF Crash
  <2> QED
    BY <1>1, <2>1, <2>2, <2>3 DEF ManualStep
<1>2. CASE RuntimeStep(c)
  <2>1. CASE Begin(c) \/ BeginThrows(c) \/ IncrFence(c) \/ PexpireFence(c)
    BY <2>1 DEF Begin, BeginThrows, IncrFence, PexpireFence
  <2>2. CASE FenceFault(c) \/ CallbackEnds(c) \/ Crash(c) \/ ExtendFire(c)
    BY <2>2 DEF FenceFault, TokenLost, CallbackEnds, Crash, ExtendFire
  <2>3. CASE Release(c) \/ ReleaseFault(c)
    BY <2>3 DEF Release, ReleaseFault
  <2>4. CASE ExtendLands(c)
    BY <2>4 DEF ExtendLands, ExtendInFlight, Extended, ExtensionLost
  <2>5. CASE ExtendRefused(c) \/ ExtendFault(c)
    BY <2>5 DEF ExtendRefused, ExtendFault, ExtendInFlight, Extended, ExtensionLost
  <2> QED
    BY <1>2, <2>1, <2>2, <2>3, <2>4, <2>5 DEF RuntimeStep
<1>3. CASE Start(c) \/ Grant(c) \/ Retry(c)
  BY <1>3 DEF Start, Grant, Retry, Hold
<1>4. CASE AttemptFault(c)
  BY <1>4 DEF AttemptFault, Hold
<1>5. CASE Deny(c)
  BY <1>5 DEF Deny, Withdraw
<1>6. CASE DenyFault(c)
  BY <1>6 DEF DenyFault, Withdraw, Hold
<1> QED
  BY <1>1, <1>2, <1>3, <1>4, <1>5, <1>6 DEF CallStep, AcquireStep

\* What the interval's next firing, and the lock, look like after an action of
\* an auto-extended call.
LEMMA StepWatches ==
    ASSUME NEW P, RuntimeType(P), WatchInv, NEW c \in AutoExtend, CallStep(c),
           Period < Ttl
    PROVE  /\ pc'[c] = "granted" => lease'[c] = now + Ttl
           /\ pc'[c] \in Running => due'[c] # 0 \/ aborted'[c]
           /\ due'[c] # 0 =>
               /\ now <= due'[c] /\ due'[c] <= now + Period /\ now < lease'[c]
               /\ sent'[c] # 0 \/ due'[c] < lease'[c]
<1>a. /\ c \in Call /\ c \notin Manual /\ HandleOf[c] = "redlock"
      /\ now \in Nat \ {0} /\ now <= MaxTime
  BY SetsAssumption, MutexAssumption DEF WatchInv, RuntimeType
<1>b. Period \in Nat
  BY TimeType
<1>c. Date(c) \in Nat \ {0}
  BY <1>a, NumbersAssumption DEF Date
<1>d. /\ Later(Period) \in Nat \ {0}
      /\ now <= Later(Period) /\ Later(Period) <= now + Period
  BY <1>a, <1>b, NumbersAssumption DEF Later
<1> USE <1>a, <1>b, <1>c, <1>d, NumbersAssumption
    DEF RuntimeType, WatchInv, TimersIn, Running, Goto, Exit, holds, timers, StopTimer
<1>1. CASE RuntimeStep(c)
  <2>1. CASE Begin(c)
    BY <2>1 DEF Begin
  <2>2. CASE BeginThrows(c) \/ IncrFence(c) \/ PexpireFence(c)
    BY <2>2 DEF BeginThrows, IncrFence, PexpireFence
  <2>3. CASE FenceFault(c) \/ CallbackEnds(c) \/ Crash(c)
    BY <2>3 DEF FenceFault, CallbackEnds, Crash
  <2>4. CASE Release(c) \/ ReleaseFault(c)
    BY <2>4 DEF Release, ReleaseFault
  <2>5. CASE ExtendFire(c)
    BY <2>5 DEF ExtendFire
  <2>6. CASE ExtendLands(c)
    <3>1. lease'[c] = now + Ttl /\ pc' = pc
      BY <2>6 DEF ExtendLands, Extended
    <3>2. \/ due' = due /\ aborted' = aborted
          \/ due'[c] = 0 /\ aborted'[c]
      BY <2>6 DEF ExtendLands, ExtensionLost
    <3> QED
      BY <3>1, <3>2
  <2>7. CASE ExtendRefused(c) \/ ExtendFault(c)
    <3>1. due'[c] = 0 /\ aborted'[c] /\ pc' = pc
      BY <2>7 DEF ExtendRefused, ExtendFault, ExtensionLost
    <3>2. pc[c] = "granted" => lease'[c] = now + Ttl
      BY <2>7 DEF ExtendRefused, ExtendFault, Extended
    <3> QED
      BY <3>1, <3>2
  <2> QED
    BY <1>1, <2>1, <2>2, <2>3, <2>4, <2>5, <2>6, <2>7 DEF RuntimeStep
<1>2. CASE Start(c) \/ Grant(c) \/ Retry(c) \/ AttemptFault(c)
  BY <1>2 DEF Start, Grant, Retry, AttemptFault, Attempting, Hold
<1>3. CASE Deny(c) \/ DenyFault(c)
  BY <1>3 DEF Deny, DenyFault, Attempting
<1> QED
  BY <1>1, <1>2, <1>3 DEF CallStep, AcquireStep, ManualStep

\* While a timer or a reply is due nobody waits: the clock stands still.
LEMMA TickWatches ==
    ASSUME NEW P, RuntimeType(P), WatchInv, Prompt, Tick(Ready)
    PROVE  WatchInv'
<1>1. /\ now' = now + 1 /\ now < MaxTime /\ UNCHANGED <<pc, lease, due, sent, aborted>>
      /\ \A c \in Call : ~RuntimeReady(c)
  BY DEF Tick, Ready, holds, timers
<1>2. \A c \in AutoExtend : pc[c] # "granted" /\ (due[c] # 0 => now < due[c] /\ sent[c] = 0)
  BY <1>1, SetsAssumption DEF RuntimeReady, TimerReady, RuntimeType
<1>3. Period' = Period /\ Period \in Nat /\ AutoExtend \subseteq Call
  BY SetsAssumption, TimeType DEF Period
<1> QED
  BY <1>1, <1>2, <1>3, NumbersAssumption DEF WatchInv, TimersIn, RuntimeType

\* If replies and timers are in time, and the 50 ms floor is below the TTL, a
\* callback never runs unaware without its lock.
THEOREM NoUnnoticedLoss ==
    ASSUME Prompt, MinInterval < Ttl
    PROVE  Spec => []NeverLostUnnoticed
<1> DEFINE Inv == TypeOK /\ WatchInv
<1>0. Period < Ttl
  BY NumbersAssumption DEF Period
<1>1. Init => Inv
  BY InitType, NumbersAssumption, SetsAssumption DEF Init, RuntimeInit, WatchInv, TimersIn, Running
<1>2. Inv /\ [Next]_mutexVars => Inv'
  <2> SUFFICES ASSUME Inv, [Next]_mutexVars PROVE Inv'
    OBVIOUS
  <2>1. RuntimeType(MutexPlace) /\ TypeOK' /\ MutexStep /\ TimersIn'
    BY NextIsStep, StepType, StepTimers
    DEF TypeOK, MutexType, MutexPlace, WatchInv, TimersIn, TimersStep
  <2>2. ASSUME NEW c \in Call, CallStep(c) PROVE WatchInv'
    <3>1. now' = now /\ \A d \in Call \ {c} : Alike(d)
      BY <2>1, <2>2, StepIsLocal
    <3>2. ASSUME NEW d \in AutoExtend
          PROVE  /\ pc'[d] = "granted" => lease'[d] = now + Ttl
                 /\ pc'[d] \in Running => due'[d] # 0 \/ aborted'[d]
                 /\ due'[d] # 0 =>
                     /\ now <= due'[d] /\ due'[d] <= now + Period /\ now < lease'[d]
                     /\ sent'[d] # 0 \/ due'[d] < lease'[d]
      <4>1. CASE d = c
        BY <1>0, <2>1, <2>2, <4>1, StepWatches
      <4>2. CASE d # c
        BY <3>1, <4>2, SetsAssumption DEF Alike, WatchInv
      <4> QED
        BY <4>1, <4>2
    <3> QED
      BY <2>1, <3>1, <3>2 DEF WatchInv, Period
  <2>3. CASE Tick(Ready)
    BY <2>1, <2>3, TickWatches
  <2>4. CASE UNCHANGED mutexVars
    BY <2>1, <2>4 DEF mutexVars, runtimeVars, clock, holds, timers, WatchInv, Period
  <2> QED
    BY <2>1, <2>2, <2>3, <2>4 DEF Next, Terminated
<1>3. Inv => NeverLostUnnoticed
  BY SetsAssumption, MutexAssumption DEF WatchInv, NeverLostUnnoticed, Running, Held, TypeOK, RuntimeType
<1> QED
  BY <1>1, <1>2, <1>3, PTL DEF Spec
=============================================================================
