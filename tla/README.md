# A TLA+ model of nestjs-redis-lock

This directory holds the verification project of the distributed lock library
in `src/`: TLA+ modules that model its locking modes, its votes over several
Redis nodes, its tracing, the decorator in an application, and its test double;
TLC runs over small instances; and proofs checked by TLAPS. `PROJECT.json` lists
every run, mutant, mapped line, hazard, finding and theorem; this file says
what they mean. Paths below are relative to the repository.

Run things here with

    tlc -workers 2 -config mutex_exclusion.cfg MCRedlockMutex
    tlapm RedlockMutexProofs.tla        (and every other *Proofs.tla)

## 1. Inventory

The library wraps Redis (through redlock and ioredis) as a NestJS service. The
only state shared between processes is in Redis; the rest is in the call stack
of an asynchronous function, a timer and an AbortController.

| Component | State | Operations | Correct when |
|---|---|---|---|
| Runtime of a call, `runWithLock` (`src/lock.service.ts:718-792`) | the handle, the interval, the signal, `{key}:fence` | emit ACQUIRED, start the interval, INCR (and PEXPIRE) the fencing counter, run the callback, extend, release in `finally` | no renewal after the call, a lost lock aborts the signal, a lock left behind is reported, tokens fence off earlier holders |
| Redlock mutex, groups, `tryLock`, `tryLockWithToken`, `extend` | one key per resource, held with a TTL | all keys or none, retries, withdrawal of own attempts | conflicting calls never hold together; `null` means contention and leaves nothing behind |
| Ticket queue (`admittedSet`, poll loops) | `:queue:seq`, the sorted set `:queue`, a deadline in each member | INCR, ZADD, paged ZRANGE with ZREM of the expired, re-entry, timeout, ZREM in `finally` | turns follow tickets, a live waiter keeps its place, nobody waits behind the dead for ever |
| Queued mutex (`queue: true`) | queue and key | first in the queue calls `redlock.acquire` | only the head tries, and it is refused only when its time is over |
| Semaphore (`maxConcurrent`) | sorted set `:sem` scored by expiry | first N in the queue run the Lua script: sweep, count, add | nobody joins more members than its own N allows, nobody is evicted before its expiry |
| Read-write lock (`mode`) | `:rw:readers`, `:rw:writer`, `:rw:writer-waiting` | readers retry, writers queue, mark themselves, wait for readers to drain | readers together or one writer; a marked writer is not overtaken by new readers |
| `FakeLockService` (`src/testing.ts`) | counters and waiting lists in memory | acquire, hand over, pump, reset, simulated locks and losses | admits what the real service admits, in order of arrival |
| Several nodes: `isContention`, `isLocked`, health (`src/lock.health.ts`) | one key per node, votes of the attempt | vote, retry, give back, classify the votes of the last attempt | one owner; contention and outage are told apart; nothing stays on a node the call could reach |
| Registry, decorator, interceptor (`src/lock.holder.ts`, `src/lock.decorator.ts`, `src/lock.interceptor.ts`) | the active service and its fingerprint | register on construction, forget on destruction, resolve on each call; `onFail` | a decorated method reaches the latest live service; two services that would not exclude each other are announced; no error of a body is swallowed |
| Tracing (`src/lock.tracing.ts`) | open spans per label | start, mark, end on events | no span is lost or taken from a call of the other kind; exact while calls take turns |
| Booking and cron examples (`examples/`) | seats, last accepted token | book one seat, several, view; a report | a seat is booked once; a viewer sees all or nothing of a bulk booking |
| Lock context (`src/lock.context.ts`) | an AsyncLocalStorage | run, get | - |
| Module, options, exceptions | none | wiring | - |

How they interact: `withLock` picks a mode from the options; the mode gets the
call admitted and hands an acquire function to `runWithLock`, which runs inside
the mode's own `try`/`finally` (that leaves the queue and deletes the writer's
marker). All modes share the fencing counter and the event emitter, whose
listeners run synchronously inside the call and may throw into it. The modes of
one resource do not exclude each other (they use different keys), except the
plain lock, the queued lock and `tryLock`, which share one key: those are
modelled together.

What is hard here, and hard to test:

- *Two commands where one was meant*: INCR then ZADD, acquisition then INCR,
  INCR then PEXPIRE, ZREM then DEL. Other calls, a crash or a lost reply fit
  between any two.
- *Leases*: the lock may be gone while its holder works, extends or releases,
  and an extension may arrive after somebody else has taken over.
- *Clocks*: deadlines and expiries in sorted sets are written by one client's
  clock and compared with another's.
- *Faults*: a rejected command may or may not have had its effect; a process may
  die as a waiter, as a holder, or while leaving.
- *Paging*: `admittedSet` removes entries of the set it pages through by index.
- *Progress*: every wait must end at a TTL or a deadline.
- *Partial answers*: some nodes vote, some are down, some answer with an error,
  some answer after the decision; the call must draw one verdict.
- *Process-wide state*: one registry for all services of a process, which are
  constructed and destroyed while calls are under way; clients that services
  share.
- *Anonymous events*: listeners are told a label, not a call.

`PROJECT.json` lists each as a hazard at its line, with the properties that
would catch it; a hazard that no property covers, or that the runs and theorems
exclude by a condition, has a note that says so.

## 2. Modules

    RunWithLock                       runtime of a granted call, leases, clock, faults
      |-- RedlockMutex                + redlock.acquire, tryLock, extend
      |     `-- RedlockMutexProofs
      |-- TicketQueue                 + INCR/ZADD/ZRANGE queue and poll loop
      |     |-- TicketQueueProofs     lemmas for the three modes that queue
      |     |-- SemaphoreLock         + the owners set
      |     |     `-- SemaphoreLockProofs
      |     `-- ReadWriteLock         + readers, writer, marker
      |           `-- ReadWriteLockProofs
      `---- QueuedLock                RedlockMutex and TicketQueue together
              `-- TracedQueue         + the spans of attachOtelTracing
                    `-- QueuedLockProofs    theorems of both
    Contention                        one lock on several Redis nodes, health check
      `-- ContentionProofs
    DecoratedCalls                    registry, decorator, interceptor, nested calls
      `-- Booking                     + the seat-booking and cron examples
            `-- BookingProofs         theorems of both
    FakeLockService                   the test double, on its own
      `-- FakeLockServiceProofs
    Admission                         what every mode implements
    MC*                               values of the constants for TLC

**Admission** is the abstract specification: a set of holders that is always
one the mode admits, and a set of calls that are no longer trying, none of
which ever becomes a holder again. It is instantiated with a refinement mapping
by each mode (`ImplementsAdmission`, `QueuedImplementsAdmission`): holders
without a common resource for the mutex, readers or one writer for the read-write
lock. What is admitted may depend on who joins (`Admits[c]`): a semaphore call
joins only if the holders, with itself, are no more than its own N, whatever the
others asked for. The second half of it is the subtle one:
an extension, a late reply or a retry must never bring a lapsed or evicted
holder back.

**RunWithLock** has the state all modes share. `lease[c]` is the expiry of what
Redis holds for call `c` (its keys, its member of `:sem` or `:rw:readers`, the
writer key), `fence` and `fenceExp` the counters, `due` the firing of the
extension interval, `sent` an extension in flight, `pc` the place of the call
between two awaits. `order`, `grants` and `timely` are history variables that
no guard reads. Actions follow the code from top to bottom: `Begin`
(ACQUIRED and `setInterval`), `IncrFence`, `PexpireFence`, `CallbackEnds`,
`Release`, with `BeginThrows`, `FenceFault`, `ReleaseFault` and `ExtendFault`
for listeners that throw and commands that are rejected, `ExtendFire`,
`ExtendLands` and `ExtendRefused` for the interval, and `Crash`.

**RedlockMutex** adds what redlock does for `acquire` (external: `Grant`,
`Retry`, `AttemptFault`, `Deny`, `DenyFault`, taken from how the service uses
it and reads its errors) and the calls that give the lock to the application
(`TryReturns`, `TokenReturns`, `UserExtends`, `UserReleases`). A try-lock that is
denied after a reply was lost may be told either verdict (`DenyFault`); what the
votes say is the subject of Contention. `UserExtends` is `LockService.extend`, in which a
listener of EXTENDED that throws turns the renewal into a LockExtendException
(`src/lock.service.ts:624`).

**TicketQueue** is the queue: `Join`, `DrawTicket` (INCR), `Enqueue` (ZADD and
ZRANK), `Poll`, `FetchPage` and `Evict` (one iteration of `admittedSet`, a ZREM
being a step of its own), `SleepOn`, `ReEnter`, `PollTimesOut`, `Leave`. The
mode decides what an admitted call does next. A page is read from its front
(`Reached` is the entry the loop is at), and `pushed` is the length of the code's
list of live entries, which may name an entry twice.

**QueuedLock**, **SemaphoreLock** and **ReadWriteLock** complete the modes. Each
Lua script is one action per outcome (`Acquire`/`AcquireFull`,
`ReadAcquire`/`ReadBlocked`, `WriteAcquire`/`WriteBlocked`) plus one for a lost
reply; the time stamp it is sent with is taken a step earlier.

**TracedQueue** lets `attachOtelTracing` listen to a service whose calls queue.
`open[l]` is the code's `Map` of tracked spans, each with the call that started
it, which the code does not know. `SpansAfter` and `ToPop` are the seven
listeners (`TakeQueued` is `takeQueued`, `ToPop` is `pop`); `Heard` runs them in
the step that emits, because an EventEmitter is synchronous. `crossed` records
whose event ended whose span. `disturbed` is history too: a command failed, a
listener threw, a call stopped waiting before one that was ahead of it or took the
lock without queuing, or a callback ran on without its lock. A listener of the
application that throws makes a step emit a second event, the one of the `catch`
(`InCatch`), which the tracer hears after the first. One connection answers commands in the order they were sent
(`Pipelined`).

**Contention** has one lock on several nodes. `keys[n][k]` is what node `n`
holds, `vote[c][n]` what it said to the current attempt: "for", "locked", "odd"
(an error of the server), "lost" (a connection error), or still "asked". Nodes
vote one by one, also after `Win`; `RetryAttempt` asks again without withdrawing
(as redlock does), `GiveUp` waits for the last vote, gives back and passes the
`Verdict`, in which `IsContention` is the code's inspection of the votes. A node
that gives no answer votes "lost" only if the error is one of
`CONNECTION_ERROR_PATTERNS` (`src/lock.service.ts:19-30`); the clients in `Unlisted`
may also fail with one that is not, and then it votes "odd" (`NoAnswer`). The
token (`Token`, `NoToken`) comes from `clients[0]` alone. `dark[c]` and `cut[c]`
are history: the nodes that were down all the time since `c` started, and those
that were down, or lost a reply, at some time.

**DecoratedCalls** models the way to a lock rather than the lock, which is free
or not. `active` is the registry of `src/lock.holder.ts`, written by `Construct` and
`Destroy`; `Invoke` resolves the service (`getActiveLockService` for a
decorated method, the injected service otherwise), `Refuse`, `Fence`, `NoFence`
and `BodyEnds` follow `runWithLock`, `Reported` is the `catch` of the decorator
and the interceptor, `Mode` what the interceptor passes on. A call's `parent` is
the call whose body makes it.

**Booking** says what the bodies do: the controller's handler (`HandlerEnds`)
around `BookingService.bookSeat`, `bookMultipleSeats` around its inner group
lock, seat by seat through `SeatRepository.bookSeat` (`BookSeat`,
`SeatRejected`), `getAvailability` (`View`), and the cron job (`ReportEnds`).
`MethodsAssumption` is how these methods ask for their locks: through the
decorator or the service, with which mode, keys and `onFail`, and inside which
other call.

**FakeLockService** models `src/testing.ts`: a step is what runs between two
awaits, `Resume` is the microtask after a granted wait. `Grants(s, n)` says that
the loop of `pumpRw` grants the first `n` of those that wait in state `s`.

Some definitions come in two forms, the first commented "Mutation:". These are
plausible mistakes in the same lines (an off-by-one, a forgotten reset); the
specification uses the second form only, and each property is known to fail when
its mutation takes the place of the original.

### Abstractions

- Except in Contention, Redis is one logical store: redlock's majority over
  several nodes is one decision. A command and its reply are one step, so a *delay* shows as other
  steps and time passing before it; a rejected command takes effect or not
  (`Fault`). Only extensions, which run beside the call, are kept in flight.
- Names, keys and values are sets of resources: `Keys[c]` is a call's key list,
  and, as a set, the label of its fencing counter (the code sorts the list).
- All calls of a run have the same TTL; each has its own limit.
- Contention: a node that is down keeps its keys (a node that restarts empty is
  outside the algorithm's promise), the TTL outlasts every owner (leases are
  RunWithLock's subject), and nodes that were down come back together. Which errors
  a client may fail with is a matter of its options (`maxRetriesPerRequest`,
  `commandTimeout`), so it is a constant and not an event.
- DecoratedCalls: Redis does not fail, so a call fails because a lock is taken
  or its client was closed; the timing options of all services are the same.
- The callback is an interval of time that ends in a value or an exception
  (both pass through); `Later` never lets a timer point past the horizon.
- One extension of a call is in flight at a time, as replies come faster than
  half a TTL or the call has lost its lock.
- Listeners that throw are modelled where the code is caught by it (ACQUIRED,
  EXTENDED, RELEASED, QUEUED); throwing listeners of the failure events are not.
- `withLock`'s argument checks, logging and messages are left out, and so is what
  the controller makes of an error of `bookMultipleSeats`
  (`examples/booking-system/src/booking/booking.controller.ts:48`): that comes
  after the release and changes no state.

## 3. Runs

Times are small numbers: what matters is which of TTL, half TTL, poll delay,
deadline and horizon comes first, and each run leaves time for a lock to lapse
and be taken over at least once. `Prompt = FALSE` lets replies, timers and
processes be arbitrarily late, which is where safety is hard; `Prompt = TRUE`
lets time pass only when nobody has anything to do, for properties that
necessarily depend on punctuality and for the larger queues (Contention and
Booking have no clock: anything may take any time). Bounds:
`MaxTime` and `LastArrival` (clock), `MaxFaults` (rejected commands),
`RetryCount`, `Crashable` (which processes may die), `MaxResets` and
`MaxToggles` (test double), `MaxOutages` (groups of nodes that go down),
`MaxLapses` (locks that expire under their owner) and `Casts` (which services
and calls meet in one behaviour of `booking`). Every call is made at most once, so two calls in
sequence are two elements of `Call`.

| Run | Calls | Question |
|---|---|---|
| `mutex_exclusion` | an auto-extended call that may hang, one that may die | with late replies, a fault and throwing listeners: exclusion, refinement, fencing, no late renewal, leaks reported, every loss signalled |
| `mutex_prompt` | an auto-extended call, a group, a tryLockWithToken | punctual timers, two rejected commands, a listener of EXTENDED that may throw: a callback never runs unaware without its lock, one verdict event per call, a try-lock told `null` has left nothing |
| `queue_traced` | two queued calls (one may hang) and a plain one, all traced | a rejected command and a throwing listener: exclusion, every call settles; no more spans open than calls in progress, as many acquired ones as holders, exact pairing while calls take turns |
| `semaphore_slots` | three calls, one limited to one holder, two to two; one may die | who joins makes no more holders than its own N, turns in ticket order, places kept, no early eviction |
| `semaphore_faults` | two calls for one slot | late replies, a lost one, a fast clock, a holder that hangs or dies: never more than N members, every call settles |
| `rw_writer` | two readers, one writer | no reader enters while the marked writer waits, the writer is never refused, every call settles |
| `rw_exclusion` | an auto-extended reader, two writers (symmetric) | late replies, a lost one, fast clocks: readers or one writer |
| `fake_admission` | slot calls, readers, writers and a plain call; a slot call and a writer leak | the test double through a reset while others wait, and simulated locks: order of arrival, order of tokens, counters match holders, every wait has a reason |
| `contention` | a withLock or health check with a retry, a tryLock or tryLockWithToken without; three nodes | any set of nodes goes down once and comes back, one reply is lost or an error, two clients have errors that are not on the list: one owner, an outage with a known error never passes for contention or health, no false alarm, nothing left where the call could reach |
| `booking` | a booking, a bulk booking, a viewer (with or without the interceptor); the booking and two ticks of the cron job beside a second service | one lock may lapse, services are constructed and destroyed at any time: the registry, `onFail`, leftovers, seats and views |
| `finding_token_order`, `finding_queue_pages` | | see below |

**Why the bounds are enough to be interesting.** Two calls and a lock that can
lapse suffice for every exclusion argument, which is pairwise; a third call is
there where order is (queue, slots, readers). One fault or one crash puts every
command of every call in question once; a second fault is needed only where the
code has a second line of defence (the withdrawal after a failed acquisition, in
`mutex_prompt`). Late replies are examined where a lease is renewed or swept by
somebody else (`mutex_exclusion`, `semaphore_faults`, `rw_exclusion`); the queue
runs take every interleaving of commands at one instant, but let no command
straddle a lapse. Three nodes are the least with a majority that is not
everybody; one outage of any set and one fault give every combination of votes.
What section 4 proves does not depend on bounds at all. That is every property
the passing runs check except the two of liveness.

Each module has one type invariant. That of RedlockMutex is run and proved,
`QueuedType` and the `TypeOK` of Contention, the semaphore, the read-write lock
and the test double are proved; `TracedType` and `DecoratedType` are there
for a reader, and hold with the constants of their runs.

**Fairness.** A live process goes on, an armed timer fires, a command that was
sent is answered, and the clock advances: weak fairness on those steps, per
call, is what Node and Redis give. Nothing makes a call arrive, a process die
or a command fail, so those actions have none. That a callback ends is an
assumption about the application, and made only for the calls that are not in
`Hangs`: `EveryCallSettles` says that a call whose own callback ends settles,
beside rivals that hang, die or keep their lock (`queue_traced`,
`semaphore_faults`, `rw_writer`), and `LossIsSignalled` is checked for a callback
that may run for ever (`mutex_exclusion`). `TracedQueue` has the fairness of
the queue beneath it. Contention, Booking and the test double state safety only;
that no wake-up of the test double is lost is the invariant `WaitsForAReason`,
which does not say that a wait ends: behind a leaked holder it does not
(`test/lock.testing.spec.ts:345`).

### Disagreements between the code and its documentation

Two are runs, which TLC refutes:

- `finding_token_order` (`TokensFollowAdmission`): the INCR is sent after the
  acquisition, so a call that pauses past its TTL in between draws the larger
  token, although a comment says that issuance order matches acquisition order.
  `FencedHandover` is what does hold: a token issued while its lock was held is
  smaller than every later holder's.
- `finding_queue_pages` (`FirstComeFirstServed`): `admittedSet` goes on at
  `start + pageSize` after it has removed entries of the page it read, and so
  skips as many live ones; a call behind them is taken for the head.

The modules state further conditions that the documentation or a comment
suggests and the code does not keep. They are not runs; each is refuted by TLC
with the constants of the named run (or `.cfg`) and the changes given.

| Condition | Constants | What the code does |
|---|---|---|
| `TokensFollowResource` | `mutex_prompt`, withLock calls `{p, q, g}` with `MCKeys`, `Ttl = 1` | a resource locked alone and in a group draws from two counters (`src/lock.service.ts:504`) |
| `FenceAliveWhileHeld` | `mutex_exclusion`, `Prompt = TRUE`, `IdleTtl = 3` | auto-extension does not refresh the counter's idle TTL (`:810`) |
| `NeverLostUnnoticed` | `mutex_exclusion`, `Prompt = TRUE`, `MinInterval = 2` | at a duration of 50 ms the first extension fires when the lock has expired (`:748`) |
| `AlwaysReleases` | `mutex_exclusion` | a throwing ACQUIRED listener leaves the lock to its TTL (`:732`) |
| `ExtendFailedMidCallback` | `mutex_exclusion` | an extension in flight at the release is refused and reported after RELEASED (`:758`) |
| `OnlyHeadAcquires` | `finding_queue_pages`, `PageSize = 3` | INCR and ZADD of two calls interleave: both see themselves at the head (`:859`) |
| `RefusedOnlyAtTimeout` | `queue_traced`, `Ttl = 3`, `QueueTimeout = 4`, `MaxTime = 7` | the head gives up after redlock's retries (`:876`) |
| `DeadHolderCoveredByTtl` | `queue_traced`, `Local = {}`, `Crashable = {p, q}`, `QueueTimeout = 6`, `MaxTime = 9`; the semaphore likewise with `Limit <- OneAtATime` | a dead holder's queue entry outlives its lock (`:876`, `:953`) |
| `WaiterKeepsItsPlace` | `finding_queue_pages`, `Skew <- FastClock`, `MaxTime = 7` | a fast clock evicts a live waiter, which re-enters only an empty queue (`:1171`) |
| `WriterBlocksNewReaders` | `rw_writer` with two writers, `Ttl = 3`, `QueueTimeout = 3` (with one writer it is run and proved) | a leaving writer deletes the marker of the next one (`:1133`) |
| `SpansMatchCalls` | `queue_traced`, `ThrowsOn = {"acquired"}` or `{"released"}` | a listener of the application that throws makes one call report two ends, and the second ends another call's span (`:739`, `:785`) |
| `SpansNeverCross` | `queue_traced`, `MaxFaults = 0`, `ThrowsOn = {}`, `Hangs = {}` | with no fault at all, an event ends or marks the span of another call (`src/lock.tracing.ts:181`) |
| `WaitersKeepTheirSpans` | `queue_traced` | ACQUIRED of a call that was not queued marks the span of one that waits, and RELEASED ends it (`src/lock.tracing.ts:131`) |
| `OutageIsNotBusy` | `contention`, `Unlisted = {n1, n2, n3}`, `MaxFaults = 0` | with every node down, clients that have a `maxRetriesPerRequest` or a `commandTimeout` reject with messages `isConnectionError` does not know: `tryLock` returns `null` and the health check is green, although comments say that an outage is re-thrown (`src/lock.service.ts:555`, `:1193`) |
| `RefusedOnlyByAnother` | `booking` | `POST /bookings` locks its seat and calls a method that locks it again: a request with no rival is told that its seat is being booked, and books nothing, although the example promises that answer for a seat "being booked by another request" (`examples/booking-system/src/booking/booking.controller.ts:23`) and shows a booking that succeeds (`examples/booking-system/README.md:22`, `:38`) |
| `OwnersAreSeen` | `contention` | `isLocked` asks one node, which need not be of the owner's majority (`src/lock.service.ts:644`) |
| `ImplementsAdmission` (test double) | `fake_admission`, `Careful = FALSE`, `Leaked = {}` | a call abandoned by a reset that ends later gives back a slot of the new state (`src/testing.ts:392`) |
| `ArrivalOrder` (test double) | `fake_admission`, `Call = {s1, s2, s3}`, `Leaked = {s1}`, `MaxOf <- WiderLater` | a call with a larger `maxConcurrent` passes those that wait (`src/testing.ts:371`) |

None of them breaks exclusion: `ImplementsAdmission` holds in every mode under
faults, delays and skew. What they weaken is order, fairness and reporting. (The
skewed sweep keeps the number of *members* right; the evicted holder's callback
runs on until an extension tells it. `NoEarlyEviction` is about any client's
clock: a clock that is ahead takes a slot early by the holder's.)

What else a reader of the code may not expect, and the models show:

- *Votes* (Contention). A call may be told that a lock is busy when the only
  keys in its way are those of its own earlier attempt, or the sentinel of
  another health check. Errors that a server answers (not connection errors)
  count as votes for "locked", so `tryLock` returns `null` and the health check
  is green. One connection error beside a majority of "locked" makes `tryLock`
  throw (`src/lock.service.ts:1215`). The token needs `clients[0]`, however many
  other nodes are up (`:769`); when it fails, `tryLockWithToken` leaves the lock
  behind, which `LeftBehind` names as its only exception besides nodes that were cut off.
- *Registry* (DecoratedCalls). `src/lock.holder.ts:113` forgets the older, living
  services too: `ActiveIsLatestAlive` says what is left. After that a newly
  constructed service is not compared with them, and never are their clients.
  The interceptor passes neither `mode` nor `maxConcurrent` on
  (`src/lock.interceptor.ts:62`). `onFail: 'skip'` also hides outages and the
  refusals of calls inside the body; `SkipHidesNoError` is what remains.
  A service destroyed with `closeClientsOnDestroy` closes a client others use.
- *Booking example*. A bulk booking that fails midway keeps the seats it has (`examples/booking-system/src/booking/booking.service.ts:63`).
- *Tracing* (TracedQueue). A queued call whose command is rejected between
  QUEUED and its turn emits nothing more, and its span stays open.
  `handle.extend()` emits its event with the prefixed key, so that
  no span is found (so the module has extensions of the interval only).

## 4. Proofs

Each `*Proofs` module proves theorems about the specification its component's
runs check, for any sets of calls, resources, nodes, services and seats, any
numbers, and as many clocks, faults and crashes as the module has. They use the
named assumptions of the modules, and where a theorem has a hypothesis of its
own, it is because the property is false without it. The hypotheses are:

| Hypothesis | Of | Why |
|---|---|---|
| `IdleTtl = 0` | `Fencing` | a counter that expires starts again (section 3, `FenceAliveWhileHeld`) |
| `ThrowsOn` without ACQUIRED and RELEASED | `Verdicts`, `SpansMatch` | a listener that throws makes the call emit FAILED beside ACQUIRED, or RELEASE_FAILED beside RELEASED |
| `Prompt`, `MinInterval < Ttl` | `NoUnnoticedLoss` | nothing renews a lock in time if timers are late, or if the least interval is as long as the TTL (section 3) |
| `EqualClocks` | `PlacesAreKept`, `FirstServed`, `QueuedPlacesAreKept`, `QueuedFirstServed` | a fast clock evicts live waiters (section 3, `WaiterKeepsItsPlace`) |
| `WholeQueue`: a page holds every call | `FirstServed`, `QueuedFirstServed` | `finding_queue_pages` refutes the property with smaller pages |
| `OneWriter` | `WriterGetsItsTurn`, `ReadersKeptOut` | a writer that leaves deletes the marker of the next (section 3), and a rival may hold the lock until the other's time is over |
| `ReadersEnd`: readers do not extend their locks | same | a reader that does may hold the lock for ever |
| `Prompt` | same | a poll that is late leaves a gap between two markers, and one that is later than the deadline is refused |
| `TimeToDrain`: a TTL and a poll fit into `queueTimeout`, by the clocks of the clients | same | a reader that came just before the marker may use up all of the writer's time |
| one client for all services | `SplitTheorem` | the registry's fingerprint does not compare clients |
| `Careful`: no reset while a call holds that will still release | all of the test double | such a call gives back a place of the new state (section 3); calls that wait, or are leaked, may be reset |
| `SameMax` | some of the test double | a slot call's max replaces the others' (section 3, `ArrivalOrder`) |

### The mutex

`RedlockMutexProofs` has nine theorems about `RedlockMutex!Spec`.

- `TypeCorrect`: `Spec => []TypeOK`, which includes the bound on retries.
- `Exclusion`: `Spec => []MutualExclusion`. Mutual exclusion is not inductive:
  a state in which a holder's lease has lapsed, another call has the lock and
  the first one's extension is in flight must be known to refuse it, and after
  the second lease lapses too. The inductive invariant `OrderInv` numbers the
  acquisitions and says that of two conflicting calls the earlier one no longer
  holds (`Superseded`); two holders would both have to be the later one. The
  lemma `StepLocks` first reduces all actions to four: acquire while free,
  renew what is held, drop, or leave the leases alone while time passes.
- `Refinement`: `Spec => ImplementsAdmission`, from `OrderInv`, `StepLocks` and
  `StepPlaces` (a call that stops trying never tries again).
- `Fencing`: `Spec => []FencedHandover`. `FenceInv` says
  that no token exceeds its label's counter and that nobody who still tries has
  one; the case that matters is a call that draws its token while it holds,
  whose lock a later call cannot have had yet.
- `Quiescence`: `Spec => NoLateRenewal`, from `TimerInv` (an interval exists
  only between ACQUIRED and the end of the callback).
- `Leaks`: `Spec => []LeakIsReported`. `LeakInv` follows a call from the moment
  it can no longer release: it has emitted FAILED or RELEASE_FAILED by then.
- `Verdicts`: `Spec => []OneVerdict`. `StageInv` says which events a call has
  emitted by its place.
- `Nulls`: `Spec => []NullHoldsNothing`. `NullInv` counts: before the first
  rejected command a try-lock that has not been granted has no keys in Redis, so
  that with one rejected command in all either its acquisition or its
  withdrawal did what it should.
- `NoUnnoticedLoss`: `Spec => []NeverLostUnnoticed`. `WatchInv` says that the
  next firing of the interval is before the lease ends, or the signal is aborted.

### The modes that queue

`TicketQueueProofs` has no theorem but the lemmas of the queue, for any set `P` of
places (each mode adds its own): what an action of the queue or the
runtime does to a call (`QueueMoves`, `QueueLeases`, `QueuePlaces`), and three
invariants.
`QueueInv` is the type of the queue's state with the facts that the rest needs:
all sets are finite, whoever is in line has drawn a ticket, no two the same. `PlaceInv`
says what a scan may evict: entries that had expired when it was sent, so that
with equal clocks a waiter whose deadline has not passed is in the queue. `FrontInv`
says what a scan has seen: with one page, everybody who was ahead of the scanner
and is alive is among the live ones it found, or on the page, and it found the
lowest tickets first.

- `SemaphoreLockProofs`: `TypeCorrect`; `Refinement`
  (`Spec => ImplementsAdmission`): the script that sweeps, counts and adds leaves, with
  the one it adds, no more owners than that call's limit (`JoinerFits`, a cardinality
  argument), and nothing else adds an owner (`OwnersStep`);
  `EvictedAfterExpiry` (`NoEarlyEviction`), from `StampInv`: a time stamp sent
  with the script is not ahead of its client's clock; `PlacesAreKept` and
  `FirstServed`, from `PlaceInv` and `FrontInv`.
- `ReadWriteLockProofs`: `TypeCorrect` and `Refinement`. `SharedInv` says that a
  writer that holds is alone (`Alone`); the marker plays no part in it.
  `WriterGetsItsTurn` (`Spec => []WriterNotStarved`) and `ReadersKeptOut`
  (`Spec => WriterBlocksNewReaders`) are about the marker, and about time. `WaitInv`
  says of a writer that waits: it wakes before its marker expires and before its
  deadline (`MarkerLasts`), which uses that the marker lasts three polls
  (`src/lock.service.ts:1104`, in `ReadWriteAssumption`); so no reader has come in
  since it set the marker first, and those that hold expire before the deadline
  (`ReadersDrain`); nobody is ahead of it in the queue (`ScansAlone`). At its
  deadline it would find the lock free, and so it has acquired before that.
- `QueuedLockProofs`: `QueuedTypeCorrect`, `QueuedExclusion` and
  `QueuedRefinement` carry `Ordered` of the mutex through the steps of the queue,
  which touch no lease; `TracedRefinement` says the same of TracedQueue, whose
  tracer only listens. `QueuedPlacesAreKept` and `QueuedFirstServed` are those of
  the semaphore with a limit of one.

Two theorems of `QueuedLockProofs` are about the tracing, for any number of calls
and labels. Both reduce a step of the service to what one call tells (`TellStep`:
from which place to which, with which events; `QueuedTells` goes through all
actions), from which `TellInv` follows: what a call has told of its span is a
matter of its place.

- `SpansMatch`: `TracedSpec => []SpansMatchCalls`. `CountInv` says that there are
  as many acquired spans as calls between ACQUIRED and the end of their release, and
  at most as many waiting ones as calls that wait; `CountsAfter` says what an event
  does to the two numbers, whichever span it is attributed to. It needs only that the listeners
  find the first span of a kind (`Selects`) and what `Append`, `EXCEPT` and
  `RemoveAt` do to the positions (`CountPushed`, `CountMarked`, `CountTaken`).
- `Pairing`: `TracedSpec => []ExactInQueueOrder`, whatever the listeners of the
  application throw. That no span has crossed is not inductive. `PairInv` adds that,
  while nothing has disturbed the calls, a span's call is at the stage the span says
  (`WellMeant`), every call in progress has one (`HasSpan`), and the spans that wait
  stand in the order of the tickets, before those of the calls whose ZADD is not yet
  answered (`Paired`; here the order of one connection's replies is used). Then
  the oldest span that waits is that of the call with the lowest ticket
  (`FirstIsOwn`), and by mutual exclusion a label has one acquired span, that of the
  holder (`OnlyHolder`).

### Contention

`ContentionProofs` proves the type invariant and all four safety properties of
`Contention!Spec` for any number of nodes, calls, retries, faults and outages,
from `ContentionAssumption` only (finitely many nodes, at least one).

- `TypeCorrect`: `Spec => []TypeOK`.
- `OneOwnerTheorem`: `Spec => []OneOwner`. The votes alone do not say who has
  the lock, as keys outlive attempts. `IInv` adds `VotesAreKept` (a node that
  voted for a call which has not given up still has its key) and
  `OwnersHaveQuorum`; two owners of one key would have a node in common
  (`QuorumsMeet`, from the library's cardinality theorems), which cannot have
  kept both.
- `RecognisedOutageTheorem`, `NoFalseAlarmTheorem` and `LeftBehindTheorem` share
  the invariant `VerdictInv`: `IInv`, with `AllHeard` (what a vote says of the
  node that gave it and of `dark` and `cut`), `Paths` (which kind of call is
  where) and `NothingAsked`, and the three properties themselves, which
  need each other. `HeardFromQuorum` and `HeardFromAll` are the counting
  arguments: with too few answers a majority of nodes was unreachable. Which
  clients have errors that are not known (`Unlisted`) is arbitrary; with none of them
  the first theorem says that no outage passes for contention.

### Decorated calls and bookings

`BookingProofs` proves the properties of DecoratedCalls and Booking of
`Booking!Spec`. `CallsInv` is what all of them share: what a call's state is at
each of its places (`Life`), and that no two calls in `held` clash.

- `LeftoverTheorem`, `SkipTheorem` and `BlocksTheorem` follow from it; the last says
  that what refutes `RefusedOnlyByAnother` is so in general: the inner call is
  refused, short of a lapse or another service.
- `RegistryTheorem` and `SplitTheorem` need `RegistryInv`: unless there was a
  warning or a destruction, every decorated method runs on a service with the
  fingerprint of the active one.
- `SeatsTheorem` and `ViewsTheorem` need `SeatsInv`: a booking that ended
  with success is complete, a viewer has seen only booked seats, and a bulk
  booking that has not begun has booked nothing. A seat that is sold stays sold to the
  same call (`BookedOnce`).

### The test double

`FakeLockServiceProofs` proves every property of the test double. `FakeInv` has
three parts: `SlotInv` and `RwInv` say that a counter is the number of the calls
that hold, and that a waiting list has waiting calls that no reset has forgotten, in
the order of their arrival, and is empty if nobody holds; `LifeInv` says what a call has been
given. The step that all of it turns on is `pumpRw`: a call that comes or goes
leaves a state (`Unpumped`) in which the counters are right and the queue may be
grantable, and `Pumped` shows that pumping restores `RwInv`.

- `FakeTypeCorrect` and `CountsTheorem` need `Careful` only.
- `FakeRefinement` and `TokensTheorem` also need `SameMax`, as a slot call's max
  replaces the others' (section 3, `ArrivalOrder`). `LimitInv` says that nobody
  is on the list while a slot is free; `TurnInv`, that of two calls that conflict the
  first has its token when the second is admitted.
- `WaitsTheorem` and `ArrivalTheorem` need the same two. `WaitInv` says that who
  waits and was not forgotten is on its list (`PumpListed` follows it through a
  pump). Neither says that a wait ends: the holder may be leaked.

### Only model-checked

- Liveness (`EveryCallSettles`, `LossIsSignalled`) and fairness: out of the provers'
  reach.
- What the code does not promise to everybody: the conditions of section 3, which
  TLC refutes, are not theorems in any form but the hypotheses above.

## 5. Not modelled, and plan

Done: the shared runtime, the four locking modes, several nodes and the health
check, tracing of a queued lock, registry, decorator and interceptor, the booking
and cron examples, the test double; proofs of every safety property that a passing
run checks. Next, in order of importance:

1. Proofs: `WriterNotStarved` for writers whose rivals all queue and end in time;
   a condition weaker than mutual exclusion under which tracing pairs exactly for
   a semaphore; `TracedType` and `DecoratedType`.
2. Larger instances: three traced calls in one queue, two bulk bookings that
   overlap, five nodes.
3. Calls of different durations in one run, and throwing listeners of FAILED,
   EXTEND_FAILED and RELEASE_FAILED.
4. The call log and the groups of the test double; `detachOtelTracing`.

Not modelled, because there is no behaviour of this code to check: the lock context
(an AsyncLocalStorage, whose propagation is Node's), dependency injection and
modules (wiring), option types, exceptions and messages, argument checks of
`withLock`, other examples and tests (read as documentation). `confirmPayment` of
the booking example is a semaphore of three, which `SemaphoreLock` covers.
redlock's and ioredis' own code is not part of the repository and is modelled
from its use.
