----------------------------- MODULE BookingProofs ------------------------------
(* Theorems about Booking, and with it the registry and the calls of           *)
(* DecoratedCalls, for every instance of their constants: any services,        *)
(* requests, seats and order of arrival, locks that lapse, services that die.  *)
EXTENDS Booking, FiniteSetTheorems, TLAPS

Place == {"idle", "acquiring", "fencing", "running", "done"}
Early == {"idle", "acquiring"}
HowEnded == {"value", "refused", "error"}

\* The body of c comes to how: nothing of the seats changes but what a viewer saw.
Ends(c, how) ==
    /\ BodyEnds(c, how) /\ UNCHANGED <<bookedBy, cast>>
    /\ Role[c] \in {"seat", "group"} /\ how = "value" => Complete(c)
    /\ Role[c] \in {"seat", "group", "view", "report"} => how # "refused"
    /\ how = "refused" => \E d \in Call : Request[d].parent = c /\ outcome[d] = "refused"
    /\ \A d \in Call : Request[d].parent = c => pc[d] = "done"
    /\ \/ seen' = seen /\ Role[c] # "view"
       \/ Role[c] = "view" /\ seen' = [seen EXCEPT ![c] = {x \in Seat : bookedBy[x] # Nobody}]

RegistryStep == \E s \in Service : (Construct(s) \/ Destroy(s)) /\ UNCHANGED seatVars
LockingStep(c) == (Invoke(c) \/ LockStep(c) \/ Lapse(c)) /\ UNCHANGED seatVars

-----------------------------------------------------------------------------
(* Calls.                                                                  *)

Typed ==
    /\ pc \in [Call -> Place] /\ svc \in [Call -> Service \cup {NoService}]
    /\ held \subseteq Call /\ lapsed \subseteq Call
    /\ result \in [Call -> HowEnded \cup {"none"}]
    /\ outcome \in [Call -> HowEnded \cup {"pending", "skipped", "unregistered"}]
    /\ status \in [Service -> {"absent", "alive", "destroyed"}]
    /\ {active, latest} \subseteq Service \cup {NoService}
    /\ bookedBy \in [Seat -> Call \cup {Nobody}] /\ seen \in [Call -> SUBSET Seat]

\* Where a call is, what it holds, what is known of it and where its caller is.
Life(c) ==
    /\ pc[c] # "done" => outcome[c] = "pending" /\ result[c] = "none"
    /\ pc[c] = "done" /\ Request[c].via = "direct" /\ Request[c].onFail = "throw" =>
           outcome[c] \in HowEnded
    /\ c \in held => pc[c] \notin Early
    /\ pc[c] \in {"fencing", "running"} => c \in held \cup lapsed
    /\ pc[c] # "idle" /\ Request[c].via # "decorator" => svc[c] = Injected
    /\ pc[c] \in {"acquiring", "fencing", "running"} => svc[c] # NoService
    /\ Request[c].parent # NoCall =>
           /\ pc[c] \in {"acquiring", "fencing", "running"} => pc[Request[c].parent] = "running"
           /\ pc[c] = "done" => pc[Request[c].parent] \in {"running", "done"}

CallsInv ==
    /\ Typed
    /\ \A c \in Call : Life(c)
    /\ \A c, d \in held : c # d => ~Conflict(c, d)

\* What a body may come to.
LEMMA BodySteps ==
    ASSUME CallsInv, NEW c \in Call, BodyStep(c)
    PROVE  BookSeat(c) \/ \E how \in HowEnded : Ends(c, how)
<1> USE DEF Ends, HowEnded, seatVars
<1>0. Role[c] \in {"post", "seat", "multi", "group", "view", "report"}
  BY BookingAssumption
<1>1. ASSUME Role[c] \notin {"post", "multi"}, NEW d \in Call PROVE Request[d].parent # c
  <2>1. c # NoCall
    BY DecoratedAssumption
  <2> QED
    BY <1>1, <2>1, MethodsAssumption, BookingAssumption
<1>2. CASE SeatRejected(c)
  <2>1. Role[c] \in {"seat", "group"} /\ BodyEnds(c, "error") /\ UNCHANGED seatVars
    BY <1>2 DEF SeatRejected
  <2> QED
    BY <1>1, <2>1
<1>3. CASE AllBooked(c)
  <2>1. Role[c] \in {"seat", "group"} /\ BodyEnds(c, "value") /\ UNCHANGED seatVars /\ Complete(c)
    BY <1>3 DEF AllBooked
  <2> QED
    BY <1>1, <2>1
<1>4. CASE HandlerEnds(c)
  <2>1. PICK d \in Children(c) :
            /\ pc[d] = "done"
            /\ BodyEnds(c, IF Role[c] = "post" /\ outcome[d] = "refused" THEN "value"
                           ELSE outcome[d])
    BY <1>4 DEF HandlerEnds
  <2>2. d \in Call /\ Request[d].parent = c /\ c # NoCall
    BY DecoratedAssumption DEF Children
  <2>3. Role[d] \in {"seat", "group"}
    BY <2>2, MethodsAssumption
  <2>4. outcome[d] \in HowEnded
    BY <2>1, <2>2, <2>3, MethodsAssumption DEF CallsInv, Life
  <2>5. \A e \in Call : Request[e].parent = c => e = d
    BY <2>2, MethodsAssumption
  <2>6. Role[c] \in {"post", "multi"} /\ UNCHANGED seatVars
    BY <1>4 DEF HandlerEnds
  <2> QED
    BY <2>1, <2>2, <2>4, <2>5, <2>6
<1>5. CASE View(c)
  <2>1. /\ Role[c] = "view" /\ BodyEnds(c, "value") /\ UNCHANGED <<bookedBy, lastFence, cast>>
        /\ seen' = [seen EXCEPT ![c] = {x \in Seat : bookedBy[x] # Nobody}]
    BY <1>5 DEF View
  <2> QED
    BY <1>1, <2>1
<1>6. CASE ReportEnds(c)
  <2>1. /\ Role[c] = "report" /\ UNCHANGED seatVars
        /\ \E how \in {"value", "error"} : BodyEnds(c, how)
    BY <1>6 DEF ReportEnds
  <2> QED
    BY <1>1, <2>1
<1> QED
  BY <1>2, <1>3, <1>4, <1>5, <1>6 DEF BodyStep

\* A step is one of the registry, of a lock, or of a body.
LEMMA Steps ==
    ASSUME CallsInv, [Next]_vars
    PROVE  \/ RegistryStep
           \/ \E c \in Call : LockingStep(c) \/ BookSeat(c) \/ \E how \in HowEnded : Ends(c, how)
           \/ UNCHANGED vars
  BY BodySteps DEF Next, Arrive, RegistryStep, LockingStep, Finished

\* A call whose own state does not change, while another moves on.
LEMMA OthersLive ==
    ASSUME CallsInv, NEW c \in Call, NEW d \in Call \ {c},
           pc'[d] = pc[d], svc'[d] = svc[d], result'[d] = result[d], outcome'[d] = outcome[d],
           lapsed \subseteq lapsed', d \in held' <=> d \in held,
           Request[d].parent = c =>
               \/ pc[d] = "idle" \/ pc'[c] = pc[c]
               \/ pc[d] = "done" /\ pc'[c] = "done",
           Request[d].parent \notin {c, NoCall} => pc'[Request[d].parent] = pc[Request[d].parent]
    PROVE  Life(d)'
BY DEF CallsInv, Life

\* What a step of c does to the calls.
Moves(c) ==
    /\ \A d \in Call \ {c} : pc'[d] = pc[d] /\ svc'[d] = svc[d]
                             /\ result'[d] = result[d] /\ outcome'[d] = outcome[d]
    /\ lapsed \subseteq lapsed' /\ lapsed' \subseteq lapsed \cup {c}
    /\ held \ {c} = held' \ {c} /\ held' \subseteq held \cup {c}

\* The step of a call changes no other.
LEMMA LockingMoves ==
    ASSUME CallsInv, NEW c \in Call, LockingStep(c)
    PROVE  Moves(c) /\ Typed' /\ UNCHANGED <<status, active, latest, warned, closed>>
<1>0. Typed /\ Injected \in Service /\ c # NoCall
  BY DecoratedAssumption DEF CallsInv
<1> USE <1>0 DEF Moves, Typed, Place, HowEnded, Goto, Settle, registry, calls, locks, seatVars
<1>1. CASE Invoke(c)
  <2>1. /\ pc' \in {[pc EXCEPT ![c] = "done"], [pc EXCEPT ![c] = "acquiring"]}
        /\ outcome' \in {outcome, [outcome EXCEPT ![c] = "unregistered"]}
        /\ \/ svc' = svc
           \/ \E s \in Service : svc' = [svc EXCEPT ![c] = s]
        /\ UNCHANGED <<registry, result, locks, seatVars>>
    BY <1>1 DEF Invoke, LockingStep
  <2> QED
    BY <2>1
<1>2. CASE Acquire(c)
  BY <1>2 DEF Acquire, LockingStep
<1>3. CASE Refuse(c)
  BY <1>3 DEF Refuse, Reported, LockingStep
<1>4. CASE Fence(c)
  BY <1>4 DEF Fence, LockingStep
<1>5. CASE NoFence(c)
  BY <1>5 DEF NoFence, LockingStep
<1>6. CASE Lapse(c)
  BY <1>6 DEF Lapse, LockingStep
<1> QED
  BY <1>1, <1>2, <1>3, <1>4, <1>5, <1>6 DEF LockingStep, LockStep

\* A call that ends (Reported, Release) only settles and lets go of its lock.
LEMMA EndsMoves ==
    ASSUME CallsInv, NEW c \in Call, NEW how \in HowEnded, Ends(c, how)
    PROVE  /\ Moves(c) /\ Typed' /\ UNCHANGED <<status, active, latest, warned, closed, svc, lapsed>>
           /\ pc[c] = "running" /\ pc'[c] = "done"
           /\ result'[c] = how /\ outcome'[c] = Reported(c, how)
           /\ held' \subseteq held /\ (Open(c) => c \notin held')
<1>0. Typed
  BY DEF CallsInv
<1>1. /\ pc[c] = "running" /\ pc' = [pc EXCEPT ![c] = "done"]
      /\ result' = [result EXCEPT ![c] = how] /\ outcome' = [outcome EXCEPT ![c] = Reported(c, how)]
      /\ held' = Released(c, how) /\ UNCHANGED <<registry, svc, fences, token, lapsed>>
  BY DEF Ends, BodyEnds, Settle, Goto
<1>2. Reported(c, how) \in HowEnded \cup {"skipped"}
  BY DEF Reported
<1>3. bookedBy' = bookedBy /\ seen' \in [Call -> SUBSET Seat]
  BY <1>0 DEF Ends, Typed
<1>4. Moves(c) /\ held' \subseteq held /\ (Open(c) => c \notin held')
  BY <1>0, <1>1 DEF Moves, Typed, Released
<1>5. Typed'
  BY <1>0, <1>1, <1>2, <1>3, <1>4 DEF Typed, Place, HowEnded, registry
<1> QED
  BY <1>0, <1>1, <1>4, <1>5 DEF Typed, registry

\* A step that leaves the calls alone.
LEMMA CallsLeftAlone ==
    ASSUME CallsInv, UNCHANGED <<calls, locks>>, Typed'
    PROVE  CallsInv'
  BY DEF CallsInv, Life, Conflict, SameRedis, calls, locks

\* Calls, their locks and their callers stay in step.
LEMMA CallsKept ==
    ASSUME CallsInv, [Next]_vars
    PROVE  CallsInv'
<1>0. /\ Typed /\ \A d \in Call : Life(d) /\ \A e, f \in held : e # f => ~Conflict(e, f)
  BY DEF CallsInv
<1>1. CASE RegistryStep \/ UNCHANGED vars
  <2>1. UNCHANGED <<calls, locks>> /\ Typed'
    BY <1>0, <1>1 DEF RegistryStep, Construct, Destroy, Cleared, Typed, seatVars, vars,
       decoratedVars, registry, calls, locks
  <2> QED
    BY <2>1, CallsLeftAlone
<1>2. ASSUME NEW c \in Call, BookSeat(c) PROVE CallsInv'
  <2>1. UNCHANGED <<calls, locks, registry>> /\ Typed'
    <3>1. /\ UNCHANGED <<calls, locks, registry>> /\ seen' = seen
          /\ bookedBy' = [bookedBy EXCEPT ![NextSeat(c)] = c]
      BY <1>2 DEF BookSeat, decoratedVars
    <3> QED
      BY <1>0, <3>1 DEF Typed, registry, calls, locks
  <2> QED
    BY <2>1, CallsLeftAlone
<1>3. ASSUME NEW c \in Call, Moves(c), Typed', Life(c)',
             \A d \in Call : Request[d].parent = c =>
                 \/ pc[d] = "idle" \/ pc'[c] = pc[c]
                 \/ pc[d] = "done" /\ pc'[c] = "done",
             c \in held' => svc'[c] = svc[c] /\ (c \in held \/ Free(c))
      PROVE  CallsInv'
  <2>1. ASSUME NEW d \in Call \ {c} PROVE Life(d)'
    <3>1. Request[d].parent \notin {c, NoCall} => pc'[Request[d].parent] = pc[Request[d].parent]
      BY <1>3, DecoratedAssumption DEF Moves
    <3> QED
      BY <1>3, <3>1, OthersLive DEF Moves
  <2>2. ASSUME NEW e \in held', NEW f \in held', e # f PROVE ~Conflict(e, f)'
    <3>1. svc'[e] = svc[e] /\ svc'[f] = svc[f] /\ e \in Call /\ f \in Call
      BY <1>0, <1>3, <2>2 DEF Moves, Typed
    <3>2. ~Conflict(e, f)
      <4>1. CASE e \in held /\ f \in held
        BY <1>0, <2>2, <4>1
      <4>2. CASE e = c /\ f \in held /\ Free(c)
        BY <4>2 DEF Free
      <4>3. CASE f = c /\ e \in held /\ Free(c)
        <5>1. ~Conflict(f, e)
          BY <4>3 DEF Free
        <5> QED
          BY <5>1 DEF Conflict, SameRedis, Clash
      <4> QED
        BY <1>3, <2>2, <4>1, <4>2, <4>3 DEF Moves
    <3> QED
      BY <3>1, <3>2 DEF Conflict, SameRedis
  <2> QED
    BY <1>3, <2>1, <2>2 DEF CallsInv
<1>4. ASSUME NEW c \in Call, LockingStep(c) PROVE CallsInv'
  <2>1. Moves(c) /\ Typed' /\ Life(c)
    BY <1>0, <1>4, LockingMoves
  <2>2. Life(c)'
    <3>0. Request[c].parent \in Call \cup {NoCall} /\ Request[c].parent # c
      BY DecoratedAssumption, MethodsAssumption, BookingAssumption
    <3>1. Request[c].parent # NoCall => pc'[Request[c].parent] = pc[Request[c].parent]
      BY <2>1, <3>0 DEF Moves
    <3> USE <1>0, <2>1, <3>1 DEF Life, Typed, Early, HowEnded, Goto, Settle, registry, calls, locks
    <3>2. CASE Invoke(c)
      BY <3>2, DecoratedAssumption DEF Invoke
    <3>3. CASE Acquire(c)
      BY <3>3 DEF Acquire
    <3>4. CASE Refuse(c)
      BY <3>4 DEF Refuse, Reported
    <3>5. CASE Fence(c)
      BY <3>5 DEF Fence
    <3>6. CASE NoFence(c)
      BY <3>6 DEF NoFence
    <3>7. CASE Lapse(c)
      BY <3>7 DEF Lapse
    <3> QED
      BY <1>4, <3>2, <3>3, <3>4, <3>5, <3>6, <3>7 DEF LockingStep, LockStep
  <2>3. pc'[c] = pc[c] \/ pc[c] \in {"idle", "acquiring", "fencing"}
    BY <1>4 DEF LockingStep, LockStep, Invoke, Acquire, Refuse, Fence, NoFence, Lapse, calls
  <2>4. ASSUME NEW d \in Call, Request[d].parent = c, pc'[c] # pc[c] PROVE pc[d] = "idle"
    <3>1. Life(d) /\ Request[d].parent # NoCall /\ pc[d] \in Place
      BY <1>0, <2>4, DecoratedAssumption DEF Typed
    <3> QED
      BY <2>3, <2>4, <3>1 DEF Life, Place
  <2>5. c \in held' => svc'[c] = svc[c] /\ (c \in held \/ Free(c))
    BY <1>0, <1>4 DEF LockingStep, LockStep, Invoke, Acquire, Refuse, Fence, NoFence, Lapse,
       calls, locks, Life, Early
  <2> QED
    BY <1>3, <2>1, <2>2, <2>4, <2>5
<1>5. ASSUME NEW c \in Call, NEW how \in HowEnded, Ends(c, how) PROVE CallsInv'
  <2>1. /\ Moves(c) /\ Typed' /\ UNCHANGED <<svc, lapsed>>
        /\ pc[c] = "running" /\ pc'[c] = "done" /\ outcome'[c] = Reported(c, how)
        /\ held' \subseteq held
    BY <1>5, EndsMoves
  <2>2. \A d \in Call : Request[d].parent = c => pc[d] = "done"
    BY <1>5 DEF Ends
  <2>3. Life(c)'
    <3>0. Request[c].parent \in Call \cup {NoCall} /\ Request[c].parent # c
      BY DecoratedAssumption, MethodsAssumption, BookingAssumption
    <3>1. Request[c].parent # NoCall => pc'[Request[c].parent] = pc[Request[c].parent]
      BY <2>1, <3>0 DEF Moves
    <3> QED
      BY <1>0, <2>1, <3>1 DEF Life, Reported, Early
  <2> QED
    BY <1>3, <2>1, <2>2, <2>3
<1> QED
  BY <1>1, <1>2, <1>4, <1>5, Steps

\* Nothing is held at the start, and everybody idle.
LEMMA CallsStart == Init => CallsInv
<1> SUFFICES ASSUME Init PROVE CallsInv
  OBVIOUS
<1>1. Typed /\ held = {}
  BY DEF Init, DecoratedInit, Typed, Place, HowEnded
<1>2. \A c \in Call : Life(c)
  BY DEF Init, DecoratedInit, Life
<1> QED
  BY <1>1, <1>2 DEF CallsInv

\* So this is true of every reachable state.
LEMMA CallsInvariant == Spec => []CallsInv
<1>1. CallsInv /\ [Next]_vars => CallsInv'
  BY CallsKept
<1> QED
  BY <1>1, CallsStart, PTL DEF Spec

-----------------------------------------------------------------------------
(* What the locks leave behind, what a skip swallows, who blocks whom.     *)

\* A call that is over still has its lock only if its client was closed under it.
THEOREM LeftoverTheorem == Spec => []LeftoverNeedsClosedClient
<1>1. Init => LeftoverNeedsClosedClient
  BY DEF Init, DecoratedInit, LeftoverNeedsClosedClient
<1>2. CallsInv /\ LeftoverNeedsClosedClient /\ [Next]_vars => LeftoverNeedsClosedClient'
  <2> SUFFICES ASSUME CallsInv, LeftoverNeedsClosedClient, [Next]_vars
               PROVE  LeftoverNeedsClosedClient'
    OBVIOUS
  <2>0. Typed /\ \A d \in Call : Life(d)
    BY DEF CallsInv
  <2>1. CASE RegistryStep \/ UNCHANGED vars
    <3>1. UNCHANGED <<calls, locks>> /\ closed \subseteq closed'
      BY <2>1 DEF RegistryStep, Construct, Destroy, vars, decoratedVars, registry
    <3> QED
      BY <3>1 DEF LeftoverNeedsClosedClient, Open, calls, locks
  <2>2. ASSUME NEW c \in Call, BookSeat(c) PROVE LeftoverNeedsClosedClient'
    BY <2>2 DEF BookSeat, decoratedVars, registry, calls, locks, LeftoverNeedsClosedClient, Open
  <2>3. ASSUME NEW c \in Call, LockingStep(c) PROVE LeftoverNeedsClosedClient'
    <3>1. Moves(c) /\ UNCHANGED closed
      BY <2>3, LockingMoves
    <3>2. c \in held' /\ pc'[c] = "done" => ~Open(c) /\ svc'[c] = svc[c]
      <4> USE <2>0 DEF Typed, Goto, Settle, Life, Early, calls, locks, LeftoverNeedsClosedClient
      <4>1. CASE Invoke(c)
        BY <4>1 DEF Invoke
      <4>2. CASE Acquire(c) \/ Refuse(c) \/ Fence(c) \/ NoFence(c)
        BY <4>2 DEF Acquire, Refuse, Fence, NoFence
      <4>3. CASE Lapse(c)
        BY <4>3 DEF Lapse
      <4> QED
        BY <2>3, <4>1, <4>2, <4>3 DEF LockingStep, LockStep
    <3> QED
      BY <2>0, <3>1, <3>2 DEF LeftoverNeedsClosedClient, Open, Moves, Typed
  <2>4. ASSUME NEW c \in Call, NEW how \in HowEnded, Ends(c, how)
        PROVE  LeftoverNeedsClosedClient'
    <3>1. Moves(c) /\ UNCHANGED <<closed, svc>> /\ held' \subseteq held /\ (Open(c) => c \notin held')
      BY <2>4, EndsMoves
    <3> QED
      BY <2>0, <3>1 DEF LeftoverNeedsClosedClient, Open, Moves, Typed
  <2> QED
    BY <2>1, <2>2, <2>3, <2>4, Steps
<1> QED
  BY <1>1, <1>2, CallsInvariant, PTL DEF Spec

\* A skipped call hides no error of its body: the body did not run, or what it
\* let through was the refusal of a call of its own.
THEOREM SkipTheorem == Spec => []SkipHidesNoError
<1>1. Init => SkipHidesNoError
  BY DEF Init, DecoratedInit, SkipHidesNoError
<1>2. CallsInv /\ SkipHidesNoError /\ [Next]_vars => SkipHidesNoError'
  <2> SUFFICES ASSUME CallsInv, SkipHidesNoError, [Next]_vars
               PROVE  SkipHidesNoError'
    OBVIOUS
  <2>0. Typed /\ \A d \in Call : Life(d)
    BY DEF CallsInv
  <2>1. CASE UNCHANGED <<result, outcome>>
    BY <2>1 DEF SkipHidesNoError
  <2>2. ASSUME NEW c \in Call, Moves(c), pc[c] # "done",
               outcome'[c] = "skipped" =>
                   \/ result'[c] = "none"
                   \/ \E d \in Call \ {c} : Request[d].parent = c /\ outcome[d] = "refused"
        PROVE  SkipHidesNoError'
    <3>1. outcome[c] = "pending"
      BY <2>0, <2>2 DEF Life
    <3>2. \A d \in Call : outcome[d] = "refused" => outcome'[d] = "refused"
      BY <2>2, <3>1 DEF Moves
    <3> QED
      BY <2>2, <3>2 DEF SkipHidesNoError, Moves
  <2>3. ASSUME NEW c \in Call, LockingStep(c) PROVE SkipHidesNoError'
    <3>1. Moves(c)
      BY <2>3, LockingMoves
    <3>2. CASE Invoke(c) \/ Refuse(c) \/ NoFence(c)
      <4>1. pc[c] # "done" /\ result' = result /\ result[c] = "none"
        BY <2>0, <3>2 DEF Invoke, Refuse, NoFence, Life
      <4> QED
        BY <2>2, <3>1, <4>1
    <3>3. CASE Acquire(c) \/ Fence(c) \/ Lapse(c)
      BY <2>1, <3>3 DEF Acquire, Fence, Lapse, calls
    <3> QED
      BY <2>3, <3>2, <3>3 DEF LockingStep, LockStep
  <2>4. ASSUME NEW c \in Call, NEW how \in HowEnded, Ends(c, how) PROVE SkipHidesNoError'
    <3>1. Moves(c) /\ pc[c] = "running" /\ outcome'[c] = Reported(c, how)
      BY <2>4, EndsMoves
    <3>2. outcome'[c] = "skipped" => how = "refused"
      BY <3>1 DEF Reported, HowEnded
    <3>3. outcome[c] # "refused"
      BY <2>0, <3>1 DEF Life
    <3> QED
      BY <2>2, <2>4, <3>1, <3>2, <3>3 DEF Ends
  <2>5. CASE RegistryStep \/ UNCHANGED vars \/ \E c \in Call : BookSeat(c)
    BY <2>1, <2>5 DEF RegistryStep, Construct, Destroy, BookSeat, vars, decoratedVars, calls
  <2> QED
    BY <2>3, <2>4, <2>5, Steps
<1> QED
  BY <1>1, <1>2, CallsInvariant, PTL DEF Spec

\* POST /bookings takes the lock of the seat and then asks for it again.
BookingBlocksItself ==
    \A d \in Call :
        Role[d] = "seat" /\ pc[d] \notin {"idle", "acquiring"} /\ outcome[d] # "refused" =>
            Request[d].parent \in lapsed \/ svc[Request[d].parent] # Injected

\* The inner call of a posted booking gets past the lock of its own handler only
\* when that has lapsed, or was taken on another service: what refutes
\* RefusedOnlyByAnother is no accident of a small instance.
THEOREM BlocksTheorem == Spec => []BookingBlocksItself
<1>1. Init => BookingBlocksItself
  BY DEF Init, DecoratedInit, BookingBlocksItself
<1>2. CallsInv /\ CallsInv' /\ BookingBlocksItself /\ [Next]_vars => BookingBlocksItself'
  <2> SUFFICES ASSUME CallsInv, CallsInv', BookingBlocksItself, [Next]_vars,
                      NEW d \in Call, Role[d] = "seat",
                      pc'[d] \notin Early, outcome'[d] # "refused"
               PROVE  Request[d].parent \in lapsed' \/ svc'[Request[d].parent] # Injected
    BY DEF BookingBlocksItself, Early
  <2> DEFINE up == Request[d].parent
  <2>0. /\ Typed /\ \A c \in Call : Life(c)
        /\ up \in Call \ {d} /\ up # NoCall /\ Role[up] = "post"
        /\ Request[up].via = "decorator" /\ Request[up].mode = "plain"
        /\ Request[d].via = "direct" /\ Request[d].mode = "plain" /\ Request[d].onFail = "throw"
        /\ Request[d].keys = Request[up].keys /\ Request[d].keys # {}
    BY MethodsAssumption, DecoratedAssumption DEF CallsInv
  <2>1. CASE pc[d] \notin Early /\ outcome[d] # "refused"
    <3>1. pc[up] # "idle"
      BY <2>0, <2>1 DEF Life, Early, Typed, Place
    <3>2. lapsed \subseteq lapsed' /\ svc'[up] = svc[up]
      <4>1. CASE RegistryStep \/ UNCHANGED vars \/ \E c \in Call : BookSeat(c)
        BY <4>1 DEF RegistryStep, Construct, Destroy, BookSeat, vars, decoratedVars, calls, locks
      <4>2. ASSUME NEW c \in Call, LockingStep(c) PROVE lapsed \subseteq lapsed' /\ svc'[up] = svc[up]
        <5>1. Moves(c)
          BY <4>2, LockingMoves
        <5>2. ~Invoke(up)
          BY <3>1 DEF Invoke
        <5>3. c = up => UNCHANGED svc
          BY <4>2, <5>2 DEF LockingStep, LockStep, Acquire, Refuse, Fence, NoFence, Lapse, calls
        <5> QED
          BY <2>0, <5>1, <5>3 DEF Moves
      <4>3. ASSUME NEW c \in Call, NEW how \in HowEnded, Ends(c, how)
            PROVE  lapsed \subseteq lapsed' /\ svc'[up] = svc[up]
        BY <4>3, EndsMoves
      <4> QED
        BY <4>1, <4>2, <4>3, Steps
    <3> QED
      BY <2>0, <2>1, <3>2 DEF BookingBlocksItself, Early
  <2>2. CASE pc[d] \in Early \/ outcome[d] = "refused"
    <3>1. outcome[d] # "refused"
      <4> SUFFICES ASSUME outcome[d] = "refused" PROVE FALSE
        OBVIOUS
      <4>1. pc[d] = "done"
        BY <2>0 DEF Life
      <4>2. outcome'[d] = outcome[d]
        <5>1. CASE RegistryStep \/ UNCHANGED vars \/ \E c \in Call : BookSeat(c)
          BY <5>1 DEF RegistryStep, Construct, Destroy, BookSeat, vars, decoratedVars, calls
        <5>2. ASSUME NEW c \in Call, LockingStep(c) PROVE outcome'[d] = outcome[d]
          <6>1. Moves(c)
            BY <5>2, LockingMoves
          <6>2. c = d => Lapse(c)
            BY <4>1, <5>2 DEF LockingStep, LockStep, Invoke, Acquire, Refuse, Fence, NoFence
          <6> QED
            BY <6>1, <6>2 DEF Moves, Lapse, calls
        <5>3. ASSUME NEW c \in Call, NEW how \in HowEnded, Ends(c, how) PROVE outcome'[d] = outcome[d]
          <6>1. Moves(c) /\ c # d
            BY <4>1, <5>3, EndsMoves
          <6> QED
            BY <6>1 DEF Moves
        <5> QED
          BY <5>1, <5>2, <5>3, Steps
      <4> QED
        BY <2>2, <4>2
    <3>2. pc[d] \in Early /\ pc'[d] # pc[d]
      BY <2>2, <3>1
    <3>3. PICK c \in Call : LockingStep(c) \/ \E how \in HowEnded : Ends(c, how)
      BY <3>2, Steps DEF RegistryStep, Construct, Destroy, BookSeat, vars, decoratedVars, calls
    <3>4. c = d /\ LockingStep(c)
      <4>1. Moves(c) /\ (LockingStep(c) \/ pc[c] = "running")
        BY <3>3, LockingMoves, EndsMoves
      <4> QED
        BY <3>2, <4>1 DEF Moves, Early
    <3>5. Acquire(d)
      <4>1. ~Invoke(d)
        BY <2>0, <3>2 DEF Invoke, Goto, Typed, Early
      <4>2. ~Refuse(d)
        BY <2>0 DEF Refuse, Settle, Reported, Typed
      <4>3. ~Fence(d) /\ ~NoFence(d) /\ ~Lapse(d)
        BY <3>2 DEF Fence, NoFence, Lapse, Early, calls
      <4> QED
        BY <3>4, <4>1, <4>2, <4>3 DEF LockingStep, LockStep
    <3>6. pc[d] = "acquiring" /\ pc[up] = "running" /\ svc[d] = Injected /\ lapsed' = lapsed /\ svc' = svc
      BY <2>0, <3>5 DEF Acquire, Life
    <3>7. up \in held => ~Conflict(d, up)
      BY <3>5 DEF Acquire, Free
    <3>8. up \in held => svc[up] # Injected
      BY <2>0, <3>6, <3>7 DEF Conflict, SameRedis, Clash, Mode
    <3> QED
      BY <2>0, <3>6, <3>8 DEF Life
  <2> QED
    BY <2>1, <2>2
<1> QED
  BY <1>1, <1>2, CallsInvariant, PTL DEF Spec

-----------------------------------------------------------------------------
(* The registry.                                                           *)

Destroyed == \E s \in Service : status[s] = "destroyed"

RegistryInv ==
    /\ latest # NoService => Options[latest].exposed /\ status[latest] # "absent"
    /\ ActiveIsLatestAlive
    /\ \/ warned \/ Destroyed
       \/ \A c \in Decorated : svc[c] # NoService =>
              active # NoService /\ Fingerprint(svc[c]) = Fingerprint(active)

\* Services come and go, calls are made on the registry's, and it never has one
\* that a later one has replaced.
LEMMA RegistryKept ==
    ASSUME CallsInv, RegistryInv, [Next]_vars
    PROVE  RegistryInv'
<1>0. Typed /\ NoService \notin Service /\ \A s \in Service : Options[s].exposed \in BOOLEAN
  BY DecoratedAssumption DEF CallsInv
<1> DEFINE Known == \A c \in Decorated : svc[c] # NoService =>
                        active # NoService /\ Fingerprint(svc[c]) = Fingerprint(active)
<1>1. ASSUME NEW s \in Service, Construct(s) PROVE RegistryInv'
  <2>1. /\ status[s] = "absent" /\ status' = [status EXCEPT ![s] = "alive"] /\ svc' = svc
        /\ IF Options[s].exposed
           THEN /\ active' = s /\ latest' = s
                /\ warned' = (warned \/ (active # NoService /\ Fingerprint(active) # Fingerprint(s)))
           ELSE UNCHANGED <<active, latest, warned>>
    BY <1>1 DEF Construct, calls
  <2>2. latest' # NoService => Options[latest'].exposed /\ status'[latest'] # "absent"
    BY <1>0, <2>1 DEF RegistryInv, Typed
  <2>3. ActiveIsLatestAlive'
    BY <1>0, <2>1 DEF RegistryInv, ActiveIsLatestAlive, Typed
  <2>4. Destroyed => Destroyed'
    BY <1>0, <2>1 DEF Destroyed, Typed
  <2>5. warned' \/ Destroyed' \/ Known'
    <3>1. warned => warned'
      BY <2>1
    <3>2. ASSUME Known, ~warned' PROVE Known'
      <4>1. CASE Options[s].exposed
        <5>1. active' = s /\ (active # NoService => Fingerprint(active) = Fingerprint(s))
          BY <2>1, <3>2, <4>1
        <5> QED
          BY <1>0, <2>1, <3>2, <5>1 DEF Fingerprint
      <4>2. CASE ~Options[s].exposed
        BY <2>1, <3>2, <4>2 DEF Fingerprint
      <4> QED
        BY <4>1, <4>2
    <3> QED
      BY <2>4, <3>1, <3>2 DEF RegistryInv
  <2> QED
    BY <2>2, <2>3, <2>5 DEF RegistryInv
<1>2. ASSUME NEW s \in Service, Destroy(s) PROVE RegistryInv'
  <2>1. /\ status[s] = "alive" /\ status' = [status EXCEPT ![s] = "destroyed"]
        /\ active' = IF Options[s].exposed THEN Cleared(s) ELSE active
        /\ UNCHANGED <<latest, warned>>
    BY <1>2 DEF Destroy
  <2>2. latest' # NoService => Options[latest'].exposed /\ status'[latest'] # "absent"
    BY <1>0, <2>1 DEF RegistryInv, Typed
  <2>3. ActiveIsLatestAlive'
    BY <1>0, <2>1 DEF RegistryInv, ActiveIsLatestAlive, Cleared, Typed
  <2>4. Destroyed'
    BY <1>0, <2>1 DEF Destroyed, Typed
  <2> QED
    BY <2>2, <2>3, <2>4 DEF RegistryInv
<1>3. ASSUME NEW c \in Call, Moves(c), UNCHANGED <<status, active, latest, warned>>,
             svc'[c] # svc[c] => (c \in Decorated => svc'[c] = active /\ active # NoService)
      PROVE  RegistryInv'
  <2>1. Known => Known'
    BY <1>3 DEF Moves, Decorated, Fingerprint
  <2>2. Destroyed' = Destroyed /\ ActiveIsLatestAlive' = ActiveIsLatestAlive
    BY <1>3 DEF Destroyed, ActiveIsLatestAlive
  <2> QED
    BY <1>3, <2>1, <2>2 DEF RegistryInv
<1>4. ASSUME NEW c \in Call, LockingStep(c) PROVE RegistryInv'
  <2>1. Moves(c) /\ UNCHANGED <<status, active, latest, warned>>
    BY <1>4, LockingMoves
  <2>2. svc'[c] # svc[c] => Invoke(c)
    BY <1>4 DEF LockingStep, LockStep, Acquire, Refuse, Fence, NoFence, Lapse, calls
  <2>3. Invoke(c) /\ svc'[c] # svc[c] /\ c \in Decorated => svc'[c] = active /\ active # NoService
    BY <1>0 DEF Invoke, Decorated, Typed
  <2> QED
    BY <1>3, <2>1, <2>2, <2>3
<1>5. ASSUME NEW c \in Call, NEW how \in HowEnded, Ends(c, how) PROVE RegistryInv'
  BY <1>3, <1>5, EndsMoves
<1>6. CASE UNCHANGED vars \/ \E c \in Call : BookSeat(c)
  <2>1. UNCHANGED <<status, active, latest, warned, svc>>
    BY <1>6 DEF BookSeat, vars, decoratedVars, registry, calls
  <2> QED
    BY <2>1 DEF RegistryInv, Destroyed, ActiveIsLatestAlive, Fingerprint
<1> QED
  BY <1>1, <1>2, <1>4, <1>5, <1>6, Steps DEF RegistryStep

\* The registry's invariant holds in every reachable state.
LEMMA RegistryInvariant == Spec => [](CallsInv /\ RegistryInv)
<1>1. Init => RegistryInv
  BY DEF Init, DecoratedInit, RegistryInv, ActiveIsLatestAlive, Decorated
<1>2. CallsInv /\ RegistryInv /\ [Next]_vars => RegistryInv'
  BY RegistryKept
<1> QED
  BY <1>1, <1>2, CallsInvariant, PTL DEF Spec

\* @Lock() finds the exposed service that was constructed last, while it lives,
\* and none after.
THEOREM RegistryTheorem == Spec => []ActiveIsLatestAlive
<1>1. RegistryInv => ActiveIsLatestAlive
  BY DEF RegistryInv
<1> QED
  BY <1>1, RegistryInvariant, PTL

\* Services that share a Redis are told apart by what the registry compares: two
\* decorated methods that should exclude each other run at once only after its
\* warning, a lapse or a destruction.
THEOREM SplitTheorem ==
    ASSUME \A s, t \in Service : Options[s].client = Options[t].client
    PROVE  Spec => []SplitIsAnnounced
<1>1. CallsInv /\ RegistryInv => SplitIsAnnounced
  <2> SUFFICES ASSUME CallsInv, RegistryInv,
                      NEW c \in Decorated \cap Running, NEW d \in Decorated \cap Running,
                      c # d, Clash(Mode(c), Mode(d)), Request[c].keys \cap Request[d].keys # {},
                      ~warned, ~Destroyed, c \notin lapsed, d \notin lapsed
               PROVE  FALSE
    BY DEF SplitIsAnnounced, Destroyed
  <2>1. c \in held /\ d \in held
    BY DEF CallsInv, Life, Running
  <2>2. ~SameRedis(c, d)
    BY <2>1 DEF CallsInv, Conflict
  <2>3. svc[c] \in Service /\ svc[d] \in Service
    BY DEF CallsInv, Typed, Life, Running
  <2>4. Fingerprint(svc[c]) = Fingerprint(svc[d])
    BY <2>3, DecoratedAssumption DEF RegistryInv
  <2> QED
    BY <2>2, <2>3, <2>4 DEF SameRedis, Fingerprint
<1> QED
  BY <1>1, RegistryInvariant, PTL

-----------------------------------------------------------------------------
(* Seats.                                                                  *)

Group == {g \in Call : Role[g] = "group"}

SeatsInv ==
    /\ \A c \in Call :
        /\ outcome[c] = "value" => result[c] = "value"
        /\ Role[c] \in {"seat", "group"} /\ result[c] = "value" => Complete(c)
    /\ \A v \in Call : \A x \in seen[v] : bookedBy[x] # Nobody
    /\ \A g \in Group :
        /\ result[g] # "refused"
        /\ pc[g] # "running" /\ result[g] = "none" => Booked(g) = {}
    /\ ViewsAreWhole

Mine(g) == {SeatsOf[g][i] : i \in Booked(g)}
All(g) == {SeatsOf[g][i] : i \in DOMAIN SeatsOf[g]}
Whole(v, g) ==
    outcome[v] = "value" =>
        \/ Mine(g) \cap seen[v] \in {{}, All(g)}
        \/ {v, Request[g].parent} \cap lapsed # {}
        \/ result[g] = "error"

\* A booking that is complete has every seat it wanted.
LEMMA CompleteIsAll ==
    ASSUME NEW g \in Call, Complete(g)
    PROVE  Booked(g) = DOMAIN SeatsOf[g] /\ Mine(g) = All(g)
<1>1. SeatsOf[g] \in Seq(Seat)
  BY BookingAssumption
<1>2. Len(SeatsOf[g]) \in Nat /\ DOMAIN SeatsOf[g] = 1 .. Len(SeatsOf[g])
  BY <1>1
<1>3. /\ IsFiniteSet(DOMAIN SeatsOf[g])
      /\ Cardinality(DOMAIN SeatsOf[g]) = Len(SeatsOf[g])
  BY <1>2, FS_Interval
<1>4. Booked(g) \in SUBSET DOMAIN SeatsOf[g]
  BY DEF Booked
<1>5. Booked(g) = DOMAIN SeatsOf[g]
  BY <1>3, <1>4, FS_Subset DEF Complete
<1> QED
  BY <1>5 DEF Mine, All

\* Seats that are sold are not sold again, and no one else's count changes.
LEMMA BookedOnce ==
    ASSUME Typed, NEW c \in Call, BookSeat(c)
    PROVE  /\ \A x \in Seat : bookedBy[x] # Nobody => bookedBy'[x] = bookedBy[x]
           /\ \A g \in Call \ {c} : Booked(g)' = Booked(g)
           /\ \A v \in Call : (\A x \in seen[v] : bookedBy[x] # Nobody) =>
                                  Mine(c)' \cap seen[v] = Mine(c) \cap seen[v]
<1>1. /\ bookedBy[NextSeat(c)] = Nobody /\ bookedBy' = [bookedBy EXCEPT ![NextSeat(c)] = c]
      /\ bookedBy \in [Seat -> Call \cup {Nobody}] /\ Nobody \notin Call
  BY BookingAssumption DEF BookSeat, Accepted, Typed
<1>2. \A y \in Seat : bookedBy'[y] = IF y = NextSeat(c) THEN c ELSE bookedBy[y]
  BY <1>1
<1>3. \A g \in Call : \A i \in DOMAIN SeatsOf[g] : SeatsOf[g][i] \in Seat
  BY BookingAssumption
<1>4. ASSUME NEW g \in Call \ {c} PROVE Booked(g)' = Booked(g)
  <2>1. \A i \in DOMAIN SeatsOf[g] :
            bookedBy'[SeatsOf[g][i]] = g <=> bookedBy[SeatsOf[g][i]] = g
    BY <1>1, <1>2, <1>3
  <2> QED
    BY <2>1 DEF Booked
<1>5. ASSUME NEW v \in Call, \A x \in seen[v] : bookedBy[x] # Nobody
      PROVE  Mine(c)' \cap seen[v] = Mine(c) \cap seen[v]
  <2>1. \A i \in DOMAIN SeatsOf[c] : SeatsOf[c][i] \in seen[v] =>
            (bookedBy'[SeatsOf[c][i]] = c <=> bookedBy[SeatsOf[c][i]] = c)
    BY <1>1, <1>2, <1>3, <1>5
  <2> QED
    BY <2>1 DEF Mine, Booked
<1> QED
  BY <1>1, <1>2, <1>4, <1>5

\* A viewer with its lock is not beside a bulk booking with its own.
LEMMA ViewerAlone ==
    ASSUME CallsInv, SeatsInv, NEW v \in Viewers, NEW g \in Group, pc[v] = "running",
           v \notin lapsed, Request[g].parent \notin lapsed, result[g] # "error"
    PROVE  Booked(g) = {} \/ Complete(g)
<1> DEFINE m == Request[g].parent
<1>1. /\ v \in Call /\ g \in Call /\ Role[v] = "view" /\ Role[g] = "group"
      /\ m \in Call /\ m # NoCall /\ Role[m] = "multi" /\ m # v
      /\ Typed /\ Life(v) /\ Life(m) /\ Life(g)
  BY MethodsAssumption, DecoratedAssumption DEF CallsInv, Viewers, Group
<1>2. /\ Request[v].mode = "read" /\ Request[m].mode = "write"
      /\ Request[v].via \notin {"decorator", "interceptor"} /\ Request[m].via = "direct"
      /\ Request[v].keys = Request[m].keys /\ Request[v].keys # {}
  BY <1>1, MethodsAssumption DEF Viewers
<1>3. pc[m] # "running"
  <2> SUFFICES ASSUME pc[m] = "running" PROVE FALSE
    OBVIOUS
  <2>1. v \in held /\ m \in held /\ svc[v] = Injected /\ svc[m] = Injected
    BY <1>1, <1>2 DEF Life
  <2>2. Conflict(v, m)
    BY <1>2, <2>1 DEF Conflict, SameRedis, Clash, Mode
  <2> QED
    BY <1>1, <2>1, <2>2 DEF CallsInv
<1>4. pc[g] \in {"idle", "done"}
  BY <1>1, <1>3 DEF Life, Typed, Place
<1>5. result[g] \in {"none", "value"}
  BY <1>1 DEF SeatsInv, Typed, HowEnded
<1> QED
  BY <1>1, <1>4, <1>5 DEF SeatsInv

\* Every step keeps the books.
LEMMA SeatsKept ==
    ASSUME CallsInv, SeatsInv, [Next]_vars
    PROVE  SeatsInv'
<1>0. Typed /\ \A d \in Call : Life(d)
  BY DEF CallsInv
<1>1. \A v \in Viewers, g \in Group : Whole(v, g)
  BY DEF SeatsInv, ViewsAreWhole, Whole, Mine, All, Group
<1>2. ASSUME \A v \in Viewers, g \in Group : Whole(v, g)' PROVE ViewsAreWhole'
  BY <1>2 DEF ViewsAreWhole, Whole, Mine, All, Group, Viewers
<1>3. CASE UNCHANGED <<bookedBy, seen, pc, result, outcome, lapsed>>
  BY <1>3 DEF SeatsInv, ViewsAreWhole, Complete, Booked
<1>4. ASSUME NEW c \in Call, BookSeat(c) PROVE SeatsInv'
  <2>1. /\ UNCHANGED <<pc, result, outcome, lapsed, seen>> /\ pc[c] = "running"
    BY <1>4 DEF BookSeat, decoratedVars, calls, locks
  <2>2. result[c] = "none"
    BY <1>0, <2>1 DEF Life
  <2>3. \A g \in Call \ {c} : Booked(g)' = Booked(g) /\ Complete(g)' = Complete(g)
    BY <1>0, <1>4, BookedOnce DEF Complete
  <2>4. \A v \in Call : \A x \in seen[v] : bookedBy[x] # Nobody /\ bookedBy'[x] = bookedBy[x]
    BY <1>0, <1>4, BookedOnce DEF SeatsInv, Typed
  <2>5. ASSUME NEW v \in Viewers, NEW g \in Group PROVE Whole(v, g)'
    <3>1. Mine(g)' \cap seen[v] = Mine(g) \cap seen[v]
      BY <1>0, <1>4, <2>3, <2>4, BookedOnce DEF Mine, Group, Viewers
    <3> QED
      BY <1>1, <2>1, <3>1 DEF Whole, All
  <2>6. ViewsAreWhole'
    BY <1>2, <2>5
  <2> QED
    BY <2>1, <2>2, <2>3, <2>4, <2>6 DEF SeatsInv, Group
<1>5. ASSUME NEW c \in Call, Moves(c), bookedBy' = bookedBy,
             outcome'[c] = "value" => result'[c] = "value",
             Role[c] \in {"seat", "group"} /\ result'[c] = "value" => Complete(c),
             Role[c] = "group" =>
                 /\ result'[c] # "refused" /\ (result[c] = "error" => result'[c] = "error")
                 /\ pc'[c] # "running" /\ result'[c] = "none" => Booked(c) = {},
             seen' \in [Call -> SUBSET Seat],
             \A v \in Call : seen'[v] # seen[v] =>
                 seen'[v] = {x \in Seat : bookedBy[x] # Nobody},
             \A v \in Viewers : outcome'[v] = "value" =>
                 \/ outcome[v] = "value" /\ seen'[v] = seen[v]
                 \/ pc[v] = "running" /\ seen'[v] = {x \in Seat : bookedBy[x] # Nobody}
      PROVE  SeatsInv'
  <2>1. \A g \in Call : /\ Booked(g)' = Booked(g) /\ Complete(g)' = Complete(g)
                        /\ Mine(g)' = Mine(g)
    BY <1>5 DEF Complete, Booked, Mine
  <2>2. lapsed \subseteq lapsed'
    BY <1>5 DEF Moves
  <2>3. \A g \in Group : result[g] = "error" => result'[g] = "error"
    BY <1>5 DEF Moves, Group
  <2>4. ASSUME NEW v \in Viewers, NEW g \in Group PROVE Whole(v, g)'
    <3> SUFFICES ASSUME outcome'[v] = "value", v \notin lapsed', Request[g].parent \notin lapsed',
                        result'[g] # "error"
                 PROVE  Mine(g) \cap seen'[v] \in {{}, All(g)}
      BY <2>1 DEF Whole, All, Group
    <3>1. v \notin lapsed /\ Request[g].parent \notin lapsed /\ result[g] # "error"
      BY <2>2, <2>3
    <3>2. CASE outcome[v] = "value" /\ seen'[v] = seen[v]
      BY <1>1, <3>1, <3>2 DEF Whole
    <3>3. CASE pc[v] = "running" /\ seen'[v] = {x \in Seat : bookedBy[x] # Nobody}
      <4>1. CASE Booked(g) = {}
        BY <4>1 DEF Mine
      <4>2. CASE Complete(g)
        <5>1. g \in Call /\ Mine(g) = All(g)
          BY <4>2, CompleteIsAll DEF Group
        <5>2. Mine(g) \subseteq seen'[v]
          BY <3>3, <5>1, BookingAssumption DEF Mine, Booked
        <5> QED
          BY <5>1, <5>2
      <4> QED
        BY <3>1, <3>3, <4>1, <4>2, ViewerAlone
    <3> QED
      BY <1>5, <3>2, <3>3
  <2>5. ViewsAreWhole'
    BY <1>2, <2>4
  <2>6. \A v \in Call : \A x \in seen'[v] : bookedBy[x] # Nobody
    BY <1>5 DEF SeatsInv
  <2>7. \A d \in Call : /\ outcome'[d] = "value" => result'[d] = "value"
                        /\ Role[d] \in {"seat", "group"} /\ result'[d] = "value" => Complete(d)
    BY <1>5 DEF Moves, SeatsInv
  <2>8. \A g \in Group : /\ result'[g] # "refused"
                         /\ pc'[g] # "running" /\ result'[g] = "none" => Booked(g) = {}
    BY <1>5 DEF Moves, SeatsInv, Group
  <2> QED
    BY <1>5, <2>1, <2>5, <2>6, <2>7, <2>8 DEF SeatsInv, Group
<1>6. ASSUME NEW c \in Call, LockingStep(c) PROVE SeatsInv'
  <2>1. Moves(c) /\ UNCHANGED <<bookedBy, seen>> /\ Typed'
    BY <1>6, LockingMoves DEF LockingStep, seatVars
  <2>2. /\ result' = result /\ (outcome'[c] = "value" => outcome[c] = "value")
        /\ pc[c] # "running" \/ pc'[c] = "running"
    <3> USE <1>0 DEF Typed, calls, locks, Settle, Goto
    <3>1. CASE Invoke(c)
      BY <3>1 DEF Invoke
    <3>2. CASE Acquire(c) \/ Fence(c)
      BY <3>2 DEF Acquire, Fence
    <3>3. CASE Refuse(c) \/ NoFence(c)
      BY <3>3 DEF Refuse, NoFence, Reported
    <3>4. CASE Lapse(c)
      BY <3>4 DEF Lapse
    <3> QED
      BY <1>6, <3>1, <3>2, <3>3, <3>4 DEF LockingStep, LockStep
  <2>3. seen' \in [Call -> SUBSET Seat]
    BY <2>1 DEF Typed
  <2>4. \A v \in Viewers : outcome'[v] = "value" => outcome[v] = "value"
    BY <2>1, <2>2 DEF Moves, Viewers
  <2>5. /\ outcome'[c] = "value" => result'[c] = "value"
        /\ Role[c] \in {"seat", "group"} /\ result'[c] = "value" => Complete(c)
        /\ Role[c] = "group" =>
             /\ result'[c] # "refused" /\ (result[c] = "error" => result'[c] = "error")
             /\ pc'[c] # "running" /\ result'[c] = "none" => Booked(c) = {}
    BY <2>2 DEF SeatsInv, Group
  <2> QED
    BY <1>5, <2>1, <2>3, <2>4, <2>5
<1>7. ASSUME NEW c \in Call, NEW how \in HowEnded, Ends(c, how) PROVE SeatsInv'
  <2>1. /\ Moves(c) /\ Typed' /\ bookedBy' = bookedBy /\ pc[c] = "running"
        /\ result'[c] = how /\ outcome'[c] = Reported(c, how)
    BY <1>7, EndsMoves DEF Ends
  <2>2. /\ outcome'[c] = "value" => how = "value"
        /\ result[c] = "none" /\ outcome[c] = "pending"
    BY <1>0, <2>1 DEF Reported, Life
  <2>3. /\ seen' \in [Call -> SUBSET Seat]
        /\ \A v \in Call : seen'[v] # seen[v] => seen'[v] = {x \in Seat : bookedBy[x] # Nobody}
    BY <1>0, <1>7, <2>1 DEF Ends, Typed
  <2>4. ASSUME NEW v \in Viewers, outcome'[v] = "value"
        PROVE  \/ outcome[v] = "value" /\ seen'[v] = seen[v]
               \/ pc[v] = "running" /\ seen'[v] = {x \in Seat : bookedBy[x] # Nobody}
    BY <1>0, <1>7, <2>1, <2>4 DEF Ends, Viewers, Moves, Typed
  <2>5. Role[c] \in {"seat", "group"} /\ how = "value" => Complete(c)
    BY <1>7 DEF Ends
  <2>6. Role[c] = "group" => how # "refused"
    BY <1>7 DEF Ends
  <2> QED
    BY <1>5, <2>1, <2>2, <2>3, <2>4, <2>5, <2>6 DEF HowEnded
<1>8. CASE RegistryStep \/ UNCHANGED vars
  BY <1>3, <1>8 DEF RegistryStep, Construct, Destroy, vars, decoratedVars, calls, locks, seatVars
<1> QED
  BY <1>4, <1>6, <1>7, <1>8, Steps

\* The invariant of the seats holds in every reachable state.
LEMMA SeatsInvariant == Spec => [](CallsInv /\ SeatsInv)
<1>1. Init => SeatsInv
  <2> SUFFICES ASSUME Init PROVE SeatsInv
    OBVIOUS
  <2>1. /\ bookedBy = [x \in Seat |-> Nobody] /\ seen = [c \in Call |-> {}] /\ Nobody \notin Call
        /\ result = [c \in Call |-> "none"] /\ outcome = [c \in Call |-> "pending"]
        /\ SeatsOf \in [Call -> Seq(Seat)]
    BY BookingAssumption DEF Init, DecoratedInit
  <2>2. \A g \in Call : Booked(g) = {}
    BY <2>1 DEF Booked
  <2> QED
    BY <2>1, <2>2 DEF SeatsInv, ViewsAreWhole, Viewers, Group
<1>2. CallsInv /\ SeatsInv /\ [Next]_vars => SeatsInv'
  BY SeatsKept
<1> QED
  BY <1>1, <1>2, CallsInvariant, PTL DEF Spec

\* A booking that reported success has all its seats, and keeps them, locks or no
\* locks.
THEOREM SeatsTheorem == Spec => []BookedSeatsKept
<1>1. SeatsInv => BookedSeatsKept
  BY DEF SeatsInv, BookedSeatsKept
<1> QED
  BY <1>1, SeatsInvariant, PTL

\* A viewer sees a bulk booking whole or not at all, short of a lapse, of a bulk
\* booking that failed half-way, and of the interceptor.
THEOREM ViewsTheorem == Spec => []ViewsAreWhole
<1>1. SeatsInv => ViewsAreWhole
  BY DEF SeatsInv
<1> QED
  BY <1>1, SeatsInvariant, PTL

=============================================================================
