--------------------------- MODULE DecoratedCalls ---------------------------
(***************************************************************************)
(* How a method call reaches a lock: the registry of the one service that  *)
(* @Lock() uses (lock.holder), the services' construction and destruction, *)
(* and a call through the decorator, the interceptor or withLock itself,   *)
(* which may be made by the body of another call.                          *)
(*                                                                         *)
(* What the locks themselves do is in RedlockMutex, ReadWriteLock and      *)
(* SemaphoreLock: here a lock is free or not, and the last retry finds out.*)
(* The modules that use these actions say what the bodies do.              *)
(***************************************************************************)
EXTENDS FiniteSets, Naturals

CONSTANTS
    Service, NoService,
    Options,     \* Options[s]: prefix, client, exposed and closes (LockModuleOptions)
    Call, NoCall,
    Request,     \* Request[c]: via, parent, keys, mode and onFail
    Injected,    \* the service that is injected where a call has no decorator
    MaxLapses    \* bound: locks that expire before their call is over

ASSUME DecoratedAssumption ==
    /\ NoService \notin Service /\ Injected \in Service
    /\ \A s \in Service : {Options[s].exposed, Options[s].closes} \subseteq BOOLEAN
    /\ NoCall \notin Call
    /\ \A c \in Call :
        /\ Request[c].via \in {"decorator", "interceptor", "direct"}
        /\ Request[c].parent \in Call \cup {NoCall}
        /\ Request[c].mode \in {"plain", "read", "write"}
        /\ Request[c].onFail \in {"throw", "skip"}
    /\ MaxLapses \in Nat

VARIABLES
    status,    \* "absent", "alive" or "destroyed", for each service
    active,    \* the service of the registry
    latest,    \* history: the exposed service constructed last
    warned,    \* the registry has logged its warning
    closed,    \* clients that were quit
    pc, svc,   \* svc[c]: the service that call c was made on
    held,      \* the calls whose lock is in Redis
    fences, token,
    result,    \* what the body came to
    outcome,   \* what the caller got
    lapsed     \* history: calls whose lock expired before they were over

registry == <<status, active, latest, warned, closed>>
calls == <<pc, svc, result, outcome>>
locks == <<held, fences, token, lapsed>>
decoratedVars == <<registry, calls, locks>>

-----------------------------------------------------------------------------
(* The registry.                                                           *)

\* Mutation: the key prefix is left out.
FingerprintOfNothing(s) == "same"

\* computeConfigFingerprint; the clients are not part of it, and the timing
\* options are the same here.
Fingerprint(s) == Options[s].prefix

Construct(s) ==
    /\ status[s] = "absent"
    /\ status' = [status EXCEPT ![s] = "alive"]
    /\ IF Options[s].exposed
       THEN /\ active' = s /\ latest' = s
            /\ warned' = (warned \/ (active # NoService /\ Fingerprint(active) # Fingerprint(s)))
       ELSE UNCHANGED <<active, latest, warned>>
    /\ UNCHANGED <<closed, calls, locks>>

\* Mutation: whatever is active.
ClearedByAny(s) == NoService

\* clearActiveLockService
Cleared(s) == IF active = s THEN NoService ELSE active

\* onModuleDestroy, with the calls of s where they are; the clients may be
\* those of another service.
Destroy(s) ==
    /\ status[s] = "alive"
    /\ status' = [status EXCEPT ![s] = "destroyed"]
    /\ active' = IF Options[s].exposed THEN Cleared(s) ELSE active
    /\ closed' = IF Options[s].closes THEN closed \cup {Options[s].client} ELSE closed
    /\ UNCHANGED <<latest, warned, calls, locks>>

-----------------------------------------------------------------------------
(* A call.                                                                 *)

\* The interceptor does not pass mode on.
Mode(c) == IF Request[c].via = "interceptor" THEN "plain" ELSE Request[c].mode

\* Mutation: a writer does not keep readers out.
ClashOfWriters(m, n) == {m, n} \in {{"plain"}, {"write"}}

\* Plain locks and read-write locks use different keys of a resource.
Clash(m, n) == {m, n} \in {{"plain"}, {"write"}, {"read", "write"}}

SameRedis(c, d) ==
    /\ Options[svc[c]].client = Options[svc[d]].client
    /\ Options[svc[c]].prefix = Options[svc[d]].prefix

Conflict(c, d) ==
    /\ SameRedis(c, d) /\ Clash(Mode(c), Mode(d))
    /\ Request[c].keys \cap Request[d].keys # {}

Free(c) == \A d \in held : ~Conflict(c, d)
Open(c) == Options[svc[c]].client \notin closed

Goto(c, place) == pc' = [pc EXCEPT ![c] = place]
Settle(c, how) == Goto(c, "done") /\ outcome' = [outcome EXCEPT ![c] = how]

\* The body of another call makes this one, or a request or timer does.  The
\* decorator looks the service up outside its try block.
Invoke(c) ==
    /\ pc[c] = "idle"
    /\ Request[c].parent # NoCall => pc[Request[c].parent] = "running"
    /\ IF Request[c].via = "decorator"
       THEN IF active = NoService
            THEN Settle(c, "unregistered") /\ UNCHANGED svc
            ELSE /\ svc' = [svc EXCEPT ![c] = active]
                 /\ Goto(c, "acquiring") /\ UNCHANGED outcome
       ELSE /\ status[Injected] # "absent"
            /\ svc' = [svc EXCEPT ![c] = Injected]
            /\ Goto(c, "acquiring") /\ UNCHANGED outcome
    /\ UNCHANGED <<registry, result, locks>>

Acquire(c) ==
    /\ pc[c] = "acquiring" /\ Open(c) /\ Free(c)
    /\ held' = held \cup {c}
    /\ Goto(c, "fencing")
    /\ UNCHANGED <<registry, svc, result, outcome, fences, token, lapsed>>

\* Mutation: every error is skipped.
SkipsErrors(c, how) ==
    IF Request[c].onFail = "skip" /\ how # "value" THEN "skipped" ELSE how

\* onFail: a LockAcquisitionException is swallowed, also one that the body
\* lets through from a call of its own.
Reported(c, how) ==
    IF Request[c].onFail = "skip" /\ how = "refused" THEN "skipped" ELSE how

\* runWithLock turns whatever went wrong into a LockAcquisitionException.
Refuse(c) ==
    /\ pc[c] = "acquiring" /\ (~Open(c) \/ ~Free(c))
    /\ Settle(c, Reported(c, "refused"))
    /\ UNCHANGED <<registry, svc, result, locks>>

Counter(c) == <<Options[svc[c]].prefix, Request[c].keys>>

Fence(c) ==
    /\ pc[c] = "fencing" /\ Open(c)
    /\ fences' = [fences EXCEPT ![Counter(c)] = @ + 1]
    /\ token' = [token EXCEPT ![c] = fences'[Counter(c)]]
    /\ Goto(c, "running")
    /\ UNCHANGED <<registry, svc, result, outcome, held, lapsed>>

\* The client is closed: the release in the finally block fails as well.
NoFence(c) ==
    /\ pc[c] = "fencing" /\ ~Open(c)
    /\ Settle(c, "error")
    /\ UNCHANGED <<registry, svc, result, locks>>

\* Mutation: only after a body that succeeds.
ReleasedOnSuccess(c, how) == IF Open(c) /\ how = "value" THEN held \ {c} ELSE held

Released(c, how) == IF Open(c) THEN held \ {c} ELSE held

\* The body ends, in any way, and the finally block releases the lock.
BodyEnds(c, how) ==
    /\ pc[c] = "running"
    /\ result' = [result EXCEPT ![c] = how]
    /\ held' = Released(c, how)
    /\ Settle(c, Reported(c, how))
    /\ UNCHANGED <<registry, svc, fences, token, lapsed>>

\* The TTL passes.
Lapse(c) ==
    /\ c \in held
    /\ held' = held \ {c}
    /\ IF pc[c] = "done" THEN UNCHANGED lapsed
       ELSE Cardinality(lapsed) < MaxLapses /\ lapsed' = lapsed \cup {c}
    /\ UNCHANGED <<registry, calls, fences, token>>

DecoratedInit ==
    /\ status = [s \in Service |-> "absent"]
    /\ active = NoService /\ latest = NoService /\ warned = FALSE /\ closed = {}
    /\ pc = [c \in Call |-> "idle"]
    /\ svc = [c \in Call |-> NoService]
    /\ held = {} /\ lapsed = {}
    /\ fences = [k \in {Options[s].prefix : s \in Service} \X {Request[c].keys : c \in Call} |-> 0]
    /\ token = [c \in Call |-> 0]
    /\ result = [c \in Call |-> "none"]
    /\ outcome = [c \in Call |-> "pending"]

LockStep(c) == Acquire(c) \/ Refuse(c) \/ Fence(c) \/ NoFence(c)

-----------------------------------------------------------------------------
DecoratedType ==
    /\ status \in [Service -> {"absent", "alive", "destroyed"}]
    /\ {active, latest} \subseteq Service \cup {NoService} /\ warned \in BOOLEAN
    /\ closed \subseteq {Options[s].client : s \in Service}
    /\ pc \in [Call -> {"idle", "acquiring", "fencing", "running", "done"}]
    /\ svc \in [Call -> Service \cup {NoService}]
    /\ held \subseteq Call /\ lapsed \subseteq Call
    /\ \A k \in DOMAIN fences : fences[k] \in 0 .. Cardinality({c \in Call : Request[c].keys = k[2]})
    /\ token \in [Call -> 0 .. Cardinality(Call)]
    /\ result \in [Call -> {"none", "value", "refused", "error"}]
    /\ outcome \in [Call -> {"pending", "value", "skipped", "refused", "error", "unregistered"}]

\* The registry has the exposed service that was constructed last, as long as
\* it lives, and nothing after: it forgets the others, although they may live
\* on (setActiveLockService, clearActiveLockService).
ActiveIsLatestAlive ==
    active = IF latest # NoService /\ status[latest] = "alive" THEN latest ELSE NoService

\* Two decorated methods whose locks should exclude each other run at once
\* only after a warning, a lapse, or a destruction, which makes the registry
\* forget what it would compare with (services on one Redis; the warning of
\* setActiveLockService).
Decorated == {c \in Call : Request[c].via = "decorator"}
Running == {c \in Call : pc[c] = "running"}
SplitIsAnnounced ==
    \A c, d \in Decorated \cap Running :
        c # d /\ Clash(Mode(c), Mode(d)) /\ Request[c].keys \cap Request[d].keys # {}
            => warned \/ {c, d} \cap lapsed # {} \/ \E s \in Service : status[s] = "destroyed"

\* What onFail: "skip" swallows never hides an error of the body: either the
\* body has not run, or a call it made was refused (catch of @Lock()).
SkipHidesNoError ==
    \A c \in Call :
        outcome[c] = "skipped" =>
            \/ result[c] = "none"
            \/ \E d \in Call : Request[d].parent = c /\ outcome[d] = "refused"

\* A call that is over leaves its lock behind only when its client was closed
\* under it (release in finally; onModuleDestroy).
LeftoverNeedsClosedClient ==
    \A c \in held : pc[c] = "done" => ~Open(c)
=============================================================================
