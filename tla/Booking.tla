------------------------------ MODULE Booking -------------------------------
(***************************************************************************)
(* The seat-booking example, beside a cron job and a second lock service:  *)
(* what the bodies of its locked methods do to the seats.                  *)
(*                                                                         *)
(*   "post"    POST /bookings: the decorated handler, lock of the seat     *)
(*   "seat"    BookingService.bookSeat, called by it: the same lock again  *)
(*   "multi"   bookMultipleSeats: write lock of the seat map               *)
(*   "group"   its inner withLock, of all the seats                        *)
(*   "view"    getAvailability: read lock of the seat map                  *)
(*   "report"  generateDailyReport: decorated, onFail: "skip"              *)
(***************************************************************************)
EXTENDS DecoratedCalls, Sequences

CONSTANTS
    Role,      \* Role[c]: one of the above
    SeatsOf,   \* SeatsOf[c]: the seats that c is to book, in that order
    Seat, Nobody,
    Casts      \* bound: the sets of services and calls that may appear together

ASSUME BookingAssumption ==
    /\ Role \in [Call -> {"post", "seat", "multi", "group", "view", "report"}]
    /\ SeatsOf \in [Call -> Seq(Seat)] /\ Nobody \notin Call

\* How the methods ask for their locks: by whom, with which mode and keys.  A
\* request makes at most one call of its own.
ASSUME MethodsAssumption ==
    \A c \in Call :
        LET r == Request[c] IN
        /\ Role[c] \notin {"seat", "group"} => r.parent = NoCall
        /\ Role[c] = "seat" => r.parent \in Call /\ Role[r.parent] = "post"
                               /\ r.keys = Request[r.parent].keys /\ r.keys # {}
        /\ Role[c] = "group" => r.parent \in Call /\ Role[r.parent] = "multi"
        /\ Role[c] \in {"post", "report"} => r.via = "decorator"
        /\ Role[c] \in {"seat", "multi", "group"} => r.via = "direct" /\ r.onFail = "throw"
        /\ Role[c] = "view" => r.via # "decorator"
        /\ r.mode = CASE Role[c] = "multi" -> "write" [] Role[c] = "view" -> "read"
                      [] OTHER -> "plain"
        /\ \A d \in Call : {Role[c], Role[d]} \subseteq {"multi", "view"} =>
               r.keys = Request[d].keys /\ r.keys # {}
        /\ \A d \in Call \ {c} : r.parent # NoCall => Request[d].parent # r.parent

VARIABLES
    bookedBy,    \* the repository's seats
    lastFence,   \* its last accepted token for each seat
    cast,        \* those of this behaviour
    seen         \* seen[c]: the bookings that a viewer was shown

seatVars == <<bookedBy, lastFence, seen, cast>>
vars == <<decoratedVars, seatVars>>

-----------------------------------------------------------------------------
Children(c) == {d \in Call : Request[d].parent = c}

\* The controller and its service exist once their LockService does.
Arrive(c) ==
    /\ c \in cast
    /\ Role[c] # "report" => status[Injected] # "absent"
    /\ Invoke(c)

Booked(c) == {i \in DOMAIN SeatsOf[c] : bookedBy[SeatsOf[c][i]] = c}
NextSeat(c) == SeatsOf[c][Cardinality(Booked(c)) + 1]
Complete(c) == Cardinality(Booked(c)) = Len(SeatsOf[c])

\* Mutation: a seat that is booked is booked over.
UncheckedSeat(c, x) == Role[c] = "seat" => token[c] > lastFence[x]

\* SeatRepository.bookSeat: already booked, or a stale token.
Accepted(c, x) ==
    /\ bookedBy[x] = Nobody
    /\ Role[c] = "seat" => token[c] > lastFence[x]

\* The write precedes the repository's pause, so that every seat is a step.
BookSeat(c) ==
    /\ Role[c] \in {"seat", "group"} /\ pc[c] = "running" /\ ~Complete(c)
    /\ Accepted(c, NextSeat(c))
    /\ bookedBy' = [bookedBy EXCEPT ![NextSeat(c)] = c]
    /\ lastFence' = IF Role[c] = "seat" THEN [lastFence EXCEPT ![NextSeat(c)] = token[c]]
                    ELSE lastFence
    /\ UNCHANGED <<decoratedVars, seen, cast>>

SeatRejected(c) ==
    /\ Role[c] \in {"seat", "group"} /\ ~Complete(c)
    /\ ~Accepted(c, NextSeat(c))
    /\ BodyEnds(c, "error")
    /\ UNCHANGED seatVars

AllBooked(c) ==
    /\ Role[c] \in {"seat", "group"} /\ Complete(c)
    /\ BodyEnds(c, "value")
    /\ UNCHANGED seatVars

\* The handler answers "currently being booked" for a seat whose inner lock is
\* refused; bookMultipleSeats lets the exception through, and what its handler
\* makes of that comes after the release.
HandlerEnds(c) ==
    /\ Role[c] \in {"post", "multi"}
    /\ \E d \in Children(c) :
        /\ pc[d] = "done"
        /\ BodyEnds(c, IF Role[c] = "post" /\ outcome[d] = "refused" THEN "value" ELSE outcome[d])
    /\ UNCHANGED seatVars

View(c) ==
    /\ Role[c] = "view"
    /\ BodyEnds(c, "value")
    /\ seen' = [seen EXCEPT ![c] = {x \in Seat : bookedBy[x] # Nobody}]
    /\ UNCHANGED <<bookedBy, lastFence, cast>>

ReportEnds(c) ==
    /\ Role[c] = "report"
    /\ \E how \in {"value", "error"} : BodyEnds(c, how)
    /\ UNCHANGED seatVars

BodyStep(c) ==
    \/ BookSeat(c) \/ SeatRejected(c) \/ AllBooked(c)
    \/ HandlerEnds(c) \/ View(c) \/ ReportEnds(c)

Finished == (\A c \in Call : pc[c] \in {"idle", "done"}) /\ UNCHANGED vars

Init ==
    /\ DecoratedInit
    /\ bookedBy = [x \in Seat |-> Nobody]
    /\ lastFence = [x \in Seat |-> 0]
    /\ seen = [c \in Call |-> {}]
    /\ cast \in Casts

Next ==
    \/ \E s \in Service \cap cast : (Construct(s) \/ Destroy(s)) /\ UNCHANGED seatVars
    \/ \E c \in Call :
        \/ (Arrive(c) \/ LockStep(c) \/ Lapse(c)) /\ UNCHANGED seatVars
        \/ BodyStep(c)
    \/ Finished

Spec == Init /\ [][Next]_vars

-----------------------------------------------------------------------------
\* Who has been told a seat is his has it, and keeps it: nobody books over it,
\* locks or no locks (SeatRepository.bookSeat, between its check and its
\* write nothing is awaited).
BookedSeatsKept ==
    \A c \in Call : Role[c] \in {"seat", "group"} /\ outcome[c] = "value" => Complete(c)

\* A viewer is shown none of the seats of a bulk booking or all of them,
\* unless a lock of the two lapsed, or the bulk booking ended on a seat that
\* was taken, which leaves the seats before it booked, or the viewer comes
\* through the interceptor (bookMultipleSeats, getAvailability).
Viewers == {v \in Call : Role[v] = "view" /\ Request[v].via # "interceptor"}
ViewsAreWhole ==
    \A v \in Viewers, g \in Call :
        outcome[v] = "value" /\ Role[g] = "group" =>
            LET mine == {SeatsOf[g][i] : i \in Booked(g)} IN
            \/ mine \cap seen[v] \in {{}, {SeatsOf[g][i] : i \in DOMAIN SeatsOf[g]}}
            \/ {v, Request[g].parent} \cap lapsed # {}
            \/ result[g] = "error"

\* "If the seat is already being booked by another request, returns 409"
\* (bookSeat of the controller, and the README of the example): who is refused
\* a seat has a rival, a request that came for the same seat.  False: the
\* handler holds the lock of the seat when its service asks for it again.
RefusedOnlyByAnother ==
    \A d \in Call :
        Role[d] = "seat" /\ outcome[d] = "refused" =>
            \E e \in Call \ {d, Request[d].parent} :
                Request[e].keys \cap Request[d].keys # {} /\ pc[e] # "idle"
=============================================================================
