----------------------------- MODULE Admission ------------------------------
(***************************************************************************)
(* What every locking mode of LockService promises, without tickets,       *)
(* leases or events: holders come, if the mode admits what they make of    *)
(* the holders, and leave in any way (release, TTL, eviction); and a call  *)
(* that has stopped trying to acquire never becomes a holder again.        *)
(***************************************************************************)
CONSTANTS Call, Admits   \* Admits[c]: the sets of holders that c may make by joining

VARIABLES holders, closed

Init == holders = {} /\ closed = {}

Leave == holders' \subseteq holders

\* An acquisition may sweep expired holders out to make its room.
Admit ==
    /\ \A c \in holders' \ holders : holders' \in Admits[c]
    /\ holders' \ holders \subseteq Call \ closed

Next ==
    /\ Leave \/ Admit
    /\ closed \subseteq closed'

Spec == Init /\ [][Next]_<<holders, closed>>
=============================================================================
