--------------------------- MODULE FakeLockService ---------------------------
(***************************************************************************)
(* The in-process test double (testing.ts) for one resource: admission by  *)
(* counters and waiting lists instead of Redis.  Code between two awaits   *)
(* runs as one step.  A call that has been granted its place goes on in a  *)
(* later microtask (Resume).  There are no leases and no timeouts.         *)
(***************************************************************************)
EXTENDS Integers, Sequences, FiniteSets

CONSTANTS
    Call,
    ModeOf,      \* ModeOf[c]: "plain", "try", "slot", "read" or "write"
    MaxOf,       \* MaxOf[c]: maxConcurrent of a slot call, 1 for queue: true
    Leaked,      \* calls whose callback never returns
    Careful,     \* TRUE: tests reset only when no call but leaked ones holds
    MaxResets,   \* bound: calls of resetQueueState
    MaxToggles   \* bound: calls of simulateLocked, -Unlocked and -LockLoss

ASSUME FakeAssumption ==
    /\ IsFiniteSet(Call)
    /\ ModeOf \in [Call -> {"plain", "try", "slot", "read", "write"}]
    /\ MaxOf \in [Call -> Nat \ {0}]
    /\ Leaked \subseteq Call /\ Careful \in BOOLEAN
    /\ MaxResets \in Nat /\ MaxToggles \in Nat

VARIABLES
    pc,        \* where each call is
    locked,    \* simulateLocked is in force
    sem,       \* semaphores.get(key): count, max and the waiting calls
    rw,        \* rw.get(key): readers, writerActive and the queue
    fence,     \* fenceCounters.get(key)
    token,     \* the token a call got, 0: none
    aborted,   \* calls whose signal is aborted
    resets, toggles,
    arrived,   \* history: arrival number of a call that asked for admission
    order,     \* history: number of its admission, like the arrival per kind
    abandoned  \* history: calls that held a place or waited when the state was reset

bounds == <<resets, toggles>>
history == <<arrived, order, abandoned>>
fakeVars == <<pc, locked, sem, rw, fence, token, aborted, bounds, history>>

NoSem == [made |-> FALSE, count |-> 0, max |-> 0, waiters |-> << >>]
NoRw == [readers |-> 0, writing |-> FALSE, queue |-> << >>]

Rw(c) == ModeOf[c] \in {"read", "write"}
Holding(c) == pc[c] \in {"granted", "running"}
\* Arrivals and admissions are numbered per kind: slots apart from reads and writes.
Number(f, c) == 1 + Cardinality({d \in Call : f[d] # 0 /\ Rw(d) = Rw(c)})
Arrives(c) == arrived' = [arrived EXCEPT ![c] = Number(arrived, c)]

\* The calls of C are granted their place, in the order of the waiting list.
Granted(C) ==
    /\ order' = [c \in Call |->
                 IF c \in C
                 THEN Number(order, c) + Cardinality({d \in C : arrived'[d] < arrived'[c]})
                 ELSE order[c]]
    /\ UNCHANGED abandoned

IssueToken(c) ==
    /\ fence' = fence + 1
    /\ token' = [token EXCEPT ![c] = fence + 1]

-----------------------------------------------------------------------------
\* The service refuses at once what is simulated as locked.
Refuse(c) ==
    /\ pc[c] = "idle" /\ locked
    /\ pc' = [pc EXCEPT ![c] = "done"]
    /\ UNCHANGED <<locked, sem, rw, fence, token, aborted, bounds, history>>

\* Neither counts as a holder for anybody else.
Plain(c) ==
    /\ pc[c] = "idle" /\ ~locked /\ ModeOf[c] \in {"plain", "try"}
    /\ IssueToken(c)
    /\ pc' = [pc EXCEPT ![c] = IF ModeOf[c] = "try" THEN "done" ELSE "running"]
    /\ UNCHANGED <<locked, sem, rw, aborted, bounds, history>>

\* acquireSlot: the latest caller's max applies to everybody.
Resized(c) == [sem EXCEPT !.made = TRUE, !.max = MaxOf[c]]

\* Mutation: off by one.
SlotFreeOrNext(s) == s.count <= s.max
SlotFree(s) == s.count < s.max

TakeSlot(c) ==
    /\ pc[c] = "idle" /\ ~locked /\ ModeOf[c] = "slot"
    /\ SlotFree(Resized(c))
    /\ sem' = [Resized(c) EXCEPT !.count = @ + 1]
    /\ pc' = [pc EXCEPT ![c] = "granted"]
    /\ Arrives(c) /\ Granted({c})
    /\ UNCHANGED <<locked, rw, fence, token, aborted, bounds>>

WaitForSlot(c) ==
    /\ pc[c] = "idle" /\ ~locked /\ ModeOf[c] = "slot"
    /\ ~SlotFree(Resized(c))
    /\ sem' = [Resized(c) EXCEPT !.waiters = Append(@, c)]
    /\ pc' = [pc EXCEPT ![c] = "waiting"]
    /\ Arrives(c)
    /\ UNCHANGED <<locked, rw, fence, token, aborted, bounds, order, abandoned>>

\* pumpRw grants the first n calls that wait: all leading reads, or one write.
Grants(s, n) ==
    IF s.writing \/ s.queue = << >> THEN n = 0
    ELSE IF ModeOf[Head(s.queue)] = "write" THEN n = IF s.readers = 0 THEN 1 ELSE 0
    ELSE /\ \A i \in 1 .. n : ModeOf[s.queue[i]] = "read"
         /\ n < Len(s.queue) => ModeOf[s.queue[n + 1]] = "write"

\* The state s, changed, and pumped; c goes to the given place.
Pump(s, c, place) ==
    \E n \in 0 .. Len(s.queue) :
        LET C == {s.queue[i] : i \in 1 .. n}
            Of(mode) == {d \in C : ModeOf[d] = mode}
        IN  /\ Grants(s, n)
            /\ rw' = [readers |-> s.readers + Cardinality(Of("read")),
                      writing |-> s.writing \/ Of("write") # {},
                      queue |-> SubSeq(s.queue, n + 1, Len(s.queue))]
            /\ pc' = [d \in Call |-> IF d \in C THEN "granted"
                                     ELSE IF d = c THEN place ELSE pc[d]]
            /\ Granted(C)

\* Mutation: a read goes to the front, past the writers that wait.
AcquireRwAtFront(c) ==
    /\ pc[c] = "idle" /\ ~locked /\ Rw(c)
    /\ Arrives(c)
    /\ Pump([rw EXCEPT !.queue = IF ModeOf[c] = "read" THEN <<c>> \o @ ELSE Append(@, c)], c, "waiting")
    /\ UNCHANGED <<locked, sem, fence, token, aborted, bounds>>

AcquireRw(c) ==
    /\ pc[c] = "idle" /\ ~locked /\ Rw(c)
    /\ Arrives(c)
    /\ Pump([rw EXCEPT !.queue = Append(@, c)], c, "waiting")
    /\ UNCHANGED <<locked, sem, fence, token, aborted, bounds>>

\* The await returns: the controller is tracked and the callback called.
Resume(c) ==
    /\ pc[c] = "granted"
    /\ IssueToken(c)
    /\ pc' = [pc EXCEPT ![c] = "running"]
    /\ UNCHANGED <<locked, sem, rw, aborted, bounds, history>>

-----------------------------------------------------------------------------
(* The callback ends; finally releases whatever state is there now.        *)

EndPlain(c) ==
    /\ pc[c] = "running" /\ c \notin Leaked /\ ModeOf[c] = "plain"
    /\ pc' = [pc EXCEPT ![c] = "done"]
    /\ UNCHANGED <<locked, sem, rw, fence, token, aborted, bounds, history>>

\* Mutation: the slot is handed over and given back as well.
HandSlotTwice(c) ==
    /\ pc[c] = "running" /\ c \notin Leaked /\ ModeOf[c] = "slot"
    /\ sem.waiters # << >>
    /\ sem' = [sem EXCEPT !.waiters = Tail(@), !.count = @ - 1]
    /\ pc' = [pc EXCEPT ![c] = "done", ![Head(sem.waiters)] = "granted"]
    /\ arrived' = arrived /\ Granted({Head(sem.waiters)})
    /\ UNCHANGED <<locked, rw, fence, token, aborted, bounds>>

\* releaseSlot: the slot goes to the oldest waiter, if there is one.
HandSlot(c) ==
    /\ pc[c] = "running" /\ c \notin Leaked /\ ModeOf[c] = "slot"
    /\ sem.waiters # << >>
    /\ sem' = [sem EXCEPT !.waiters = Tail(@)]
    /\ pc' = [pc EXCEPT ![c] = "done", ![Head(sem.waiters)] = "granted"]
    /\ arrived' = arrived /\ Granted({Head(sem.waiters)})
    /\ UNCHANGED <<locked, rw, fence, token, aborted, bounds>>

DropSlot(c) ==
    /\ pc[c] = "running" /\ c \notin Leaked /\ ModeOf[c] = "slot"
    /\ sem.waiters = << >>
    /\ sem' = IF sem.made THEN [sem EXCEPT !.count = @ - 1] ELSE sem
    /\ pc' = [pc EXCEPT ![c] = "done"]
    /\ UNCHANGED <<locked, rw, fence, token, aborted, bounds, history>>

\* Mutation: a reader that leaves takes all of them with it.
RwWithoutReaders(c) ==
    IF ModeOf[c] = "read" THEN [rw EXCEPT !.readers = 0] ELSE [rw EXCEPT !.writing = FALSE]

RwWithout(c) ==
    IF ModeOf[c] = "read"
    THEN [rw EXCEPT !.readers = IF @ > 0 THEN @ - 1 ELSE 0]
    ELSE [rw EXCEPT !.writing = FALSE]

\* Mutation: the release does not pump.
ReleaseRwUnpumped(c) ==
    /\ pc[c] = "running" /\ c \notin Leaked /\ Rw(c)
    /\ rw' = RwWithout(c)
    /\ pc' = [pc EXCEPT ![c] = "done"]
    /\ UNCHANGED <<locked, sem, fence, token, aborted, bounds, history>>

ReleaseRw(c) ==
    /\ pc[c] = "running" /\ c \notin Leaked /\ Rw(c)
    /\ arrived' = arrived
    /\ Pump(RwWithout(c), c, "done")
    /\ UNCHANGED <<locked, sem, fence, token, aborted, bounds>>

-----------------------------------------------------------------------------
(* What the test does to the fake.                                         *)

SimulateLocked ==
    /\ toggles < MaxToggles /\ toggles' = toggles + 1
    /\ locked' = ~locked
    /\ UNCHANGED <<pc, sem, rw, fence, token, aborted, resets, history>>

SimulateLockLoss ==
    /\ toggles < MaxToggles /\ toggles' = toggles + 1
    /\ aborted' = aborted \cup {c \in Call : pc[c] = "running"}
    /\ UNCHANGED <<pc, locked, sem, rw, fence, token, resets, history>>

\* Nothing that waits or holds is told: who waits is on no list any more.
ResetQueueState ==
    /\ resets < MaxResets /\ resets' = resets + 1
    /\ Careful => \A c \in Call : Holding(c) => c \in Leaked /\ pc[c] = "running"
    /\ sem' = NoSem /\ rw' = NoRw
    /\ abandoned' = abandoned \cup {c \in Call : Holding(c) \/ pc[c] = "waiting"}
    /\ UNCHANGED <<pc, locked, fence, token, aborted, toggles, arrived, order>>

Step(c) ==
    \/ Refuse(c) \/ Plain(c)
    \/ TakeSlot(c) \/ WaitForSlot(c) \/ AcquireRw(c)
    \/ Resume(c)
    \/ EndPlain(c) \/ HandSlot(c) \/ DropSlot(c) \/ ReleaseRw(c)

Init ==
    /\ pc = [c \in Call |-> "idle"]
    /\ locked = FALSE /\ sem = NoSem /\ rw = NoRw
    /\ fence = 0 /\ token = [c \in Call |-> 0]
    /\ aborted = {} /\ resets = 0 /\ toggles = 0
    /\ arrived = [c \in Call |-> 0] /\ order = [c \in Call |-> 0]
    /\ abandoned = {}

Next ==
    \/ \E c \in Call : Step(c)
    \/ SimulateLocked \/ SimulateLockLoss \/ ResetQueueState

Spec == Init /\ [][Next]_fakeVars

-----------------------------------------------------------------------------
TypeOK ==
    /\ pc \in [Call -> {"idle", "waiting", "granted", "running", "done"}]
    /\ locked \in BOOLEAN /\ aborted \subseteq Call
    /\ sem \in [made : BOOLEAN, count : Int, max : Nat, waiters : Seq(Call)]
    /\ Careful => sem.count >= 0      \* releases of abandoned calls may go below
    /\ rw \in [readers : Nat, writing : BOOLEAN, queue : Seq(Call)]
    /\ fence \in Nat /\ token \in [Call -> Nat]
    /\ resets \in Nat /\ toggles \in Nat
    /\ arrived \in [Call -> Nat] /\ order \in [Call -> Nat]
    /\ abandoned \subseteq Call

\* The calls whose place the present state accounts for.
Admitted == {c \in Call \ abandoned : Holding(c) /\ (Rw(c) \/ ModeOf[c] = "slot")}

\* The counters never drift from the calls they count (the hand-over in
\* releaseSlot, pumpRw, and the counters a reset starts again).
CountsMatchHolders ==
    /\ sem.count = Cardinality({c \in Admitted : ModeOf[c] = "slot"})
    /\ rw.readers = Cardinality({c \in Admitted : ModeOf[c] = "read"})
    /\ rw.writing = \E c \in Admitted : ModeOf[c] = "write"

\* The fake admits what the real service admits: at most max slots, readers
\* together or one writer alone.  What was abandoned by a reset is outside.
Abstract == INSTANCE Admission WITH
    Admits <- [c \in Call |-> {S \in SUBSET Call :
        /\ ModeOf[c] = "slot" => Cardinality({d \in S : ModeOf[d] = "slot"}) <= MaxOf[c]
        /\ \A d, e \in S : Rw(d) /\ Rw(e) => d = e \/ {ModeOf[d], ModeOf[e]} = {"read"}}],
    holders <- Admitted,
    closed <- {c \in Call : pc[c] \notin {"idle", "waiting"}}

ImplementsAdmission == Abstract!Spec

\* Nobody is admitted while a call of the same kind has waited longer, since the
\* last reset: slots and read-write places are granted from the front.
ArrivalOrder ==
    [][\A c, d \in Call :
        /\ order[c] = 0 /\ order'[c] # 0
        /\ pc'[d] = "waiting" /\ d \notin abandoned /\ Rw(c) = Rw(d)
        => arrived'[c] < arrived'[d]]_fakeVars

\* Of two calls that may not hold together, the one admitted first has the
\* smaller token.
TokensFollowTurns ==
    \A c, d \in Call :
        /\ token[c] # 0 /\ token[d] # 0 /\ order[c] < order[d]
        /\ \/ ModeOf[c] = "slot" /\ ModeOf[d] = "slot" /\ MaxOf[d] = 1
           \/ Rw(c) /\ Rw(d) /\ "write" \in {ModeOf[c], ModeOf[d]}
        => token[c] < token[d]

\* No wake-up is lost (acquireSlot, releaseSlot, pumpRw): a call that waits is
\* on its list, unless a reset has forgotten it, and the list waits for a reason:
\* all slots are taken, or a writer holds, or a writer is first and readers hold.
\* A holder that is leaked keeps them waiting for ever; there is no timeout.
WaitsForAReason ==
    /\ \A c \in Call \ abandoned :
        pc[c] = "waiting" =>
            LET list == IF Rw(c) THEN rw.queue ELSE sem.waiters
            IN  \E i \in 1 .. Len(list) : list[i] = c
    /\ sem.waiters # << >> =>
        Cardinality({d \in Admitted : ModeOf[d] = "slot"}) = sem.max
    /\ rw.queue # << >> =>
        \E d \in Admitted : Rw(d) /\ "write" \in {ModeOf[d], ModeOf[Head(rw.queue)]}
=============================================================================
