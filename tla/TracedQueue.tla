------------------------------ MODULE TracedQueue -----------------------------
(***************************************************************************)
(* attachOtelTracing (lock.tracing.ts) listening to a LockService whose    *)
(* calls queue for a lock.  Its listeners run inside emit, in the step     *)
(* that emits.  Events carry a label and no call, so the listeners guess   *)
(* which of the label's open spans an event is about.                      *)
(*                                                                         *)
(* The calls in Local go through the traced service, one process with one  *)
(* connection; the others belong to other processes.  The listeners were   *)
(* attached first: a listener of the application that throws comes after.  *)
(***************************************************************************)
EXTENDS QueuedLock, SequencesExt

CONSTANT Local   \* calls of the traced LockService

ASSUME TracingAssumption ==
    /\ Local \subseteq Call
    /\ Local \cap Crashable = {}

VARIABLES
    open,      \* open[l]: the label's spans, oldest first: who started it, acquired or not
    crossed,   \* history: <<c, d>>, an event of c has ended the span d had started
    disturbed  \* history: the calls did not take turns in queue order

tracedVars == <<queuedVars, open, crossed, disturbed>>

-----------------------------------------------------------------------------
(* The listeners, as functions of a label's open spans.                    *)

Acquired(span) == span.acquired
Waits(span) == ~span.acquired

\* Mutation: the newest waiting span is taken.
TakeNewestQueued(spans) == SelectLastInSeq(spans, Waits)

\* takeQueued, findAcquired: an index, 0 if there is none.
TakeQueued(spans) == SelectInSeq(spans, Waits)

\* Mutation: whatever is oldest is closed.
ToPopOldest(spans, e) == IF spans = << >> THEN 0 ELSE 1

\* pop: RELEASED and RELEASE_FAILED close the oldest acquired span, FAILED the
\* oldest that waits.
ToPop(spans, e) ==
    CASE e \in {"released", "release_failed"} -> SelectInSeq(spans, Acquired)
      [] e = "failed" -> SelectInSeq(spans, Waits)
      [] OTHER -> 0

\* EXTENDED and EXTEND_FAILED annotate a span and close none; a FAILED with no
\* waiting span starts one and ends it.
SpansAfter(spans, c, e) ==
    CASE e = "queued" -> Append(spans, [by |-> c, acquired |-> FALSE])
      [] e = "acquired" ->
            IF TakeQueued(spans) = 0
            THEN Append(spans, [by |-> c, acquired |-> TRUE])
            ELSE [spans EXCEPT ![TakeQueued(spans)].acquired = TRUE]
      [] OTHER -> IF ToPop(spans, e) = 0 THEN spans ELSE RemoveAt(spans, ToPop(spans, e))

-----------------------------------------------------------------------------
(* One step of the service and what its event does.                        *)

News(c) == emitted'[c] \ emitted[c]

\* A step emits one event, or two when a listener of the first one throws: the
\* second is the catch's.
InCatch == {"failed", "extend_failed", "release_failed"}

Listened(spans, c, E) == IF E = {} THEN spans ELSE SpansAfter(spans, c, CHOOSE e \in E : TRUE)
Ended(spans, E) == {spans[ToPop(spans, e)].by : e \in {x \in E : ToPop(spans, x) # 0}}

Heard(c) ==
    LET spans == open[Keys[c]]
        between == Listened(spans, c, News(c) \ InCatch)
        ended == Ended(spans, News(c) \ InCatch) \cup Ended(between, News(c) \cap InCatch)
    IN  /\ open' = [open EXCEPT ![Keys[c]] = Listened(between, c, News(c) \cap InCatch)]
        /\ crossed' = crossed \cup {<<c, d>> : d \in ended \ {c}}

Announced == Waiting \cup {"acquiring", "granted"}   \* QUEUED emitted, span not acquired

Silent == UNCHANGED <<open, crossed>>

\* The commands of one connection are answered in the order they were sent.
Pipelined(c) ==
    c \in Local /\ pc[c] = "enqueuing" =>
        \A d \in Local : pc[d] = "enqueuing" => ticket[c] <= ticket[d]

\* A command failed or a listener threw; a call stopped waiting before one that
\* was ahead of it, or never waited; a callback ran on without its lock.
Disturbs ==
    \/ faults' # faults
    \/ \E c \in Local :
        \/ outcome'[c] = "error" \/ {"acquired", "failed"} \subseteq News(c)
        \/ {"acquired", "failed"} \cap News(c) # {} /\ c \notin Ticketed
        \/ /\ {"acquired", "failed"} \cap News(c) # {}
           /\ \E d \in Local : pc[d] \in Announced /\ ticket[d] < ticket[c]
        \/ pc[c] \in {"fencing", "pexpire", "callback", "releasing"} /\ ~Held(c)

TracedNext ==
    /\ QueuedNext
    /\ \A c \in Call : pc'[c] # pc[c] => Pipelined(c)
    /\ \/ \E c \in Local : News(c) # {} /\ Heard(c)
       \/ (\A c \in Local : News(c) = {}) /\ Silent
    /\ disturbed' = (disturbed \/ Disturbs)

TracedInit ==
    /\ QueuedInit
    /\ open = [l \in Label |-> << >>]
    /\ crossed = {}
    /\ disturbed = FALSE

TracedSpec == TracedInit /\ [][TracedNext]_tracedVars
FairTracedSpec == TracedSpec /\ QueuedFairness

-----------------------------------------------------------------------------
TracedType ==
    /\ open \in [Label -> Seq([by : Local, acquired : BOOLEAN])]
    /\ crossed \subseteq Local \X Local
    /\ disturbed \in BOOLEAN

InProgress(c, l) ==
    /\ c \in Local /\ Keys[c] = l
    /\ emitted[c] \cap {"queued", "acquired"} # {}
    /\ emitted[c] \cap {"failed", "released", "release_failed"} = {}

\* However the spans are mixed up, there are as many acquired ones as calls
\* between ACQUIRED and the end of their release, since FAILED and RELEASED never
\* take a span of the other kind; and no more in all than calls that have
\* announced themselves and not reported an end, so that a span outlives all
\* calls only when one ended without FAILED, RELEASED or RELEASE_FAILED.
SpansMatchCalls ==
    \A l \in Label :
        LET busy == {c \in Call : InProgress(c, l)}
            acquired == {i \in DOMAIN open[l] : open[l][i].acquired}
        IN
        /\ Cardinality(acquired) = Cardinality({c \in busy : "acquired" \in emitted[c]})
        /\ Len(open[l]) <= Cardinality(busy)

\* While calls stop waiting in queue order, nothing fails and callbacks end in
\* time, every event ends the span its own call started (FIFO pairing).
ExactInQueueOrder == ~disturbed => crossed = {}

\* "For the common case of one holder per resource at a time this is exact":
\* refuted without any fault, FAILED closes the oldest waiting span of the label.
SpansNeverCross == crossed = {}

\* "keep RELEASED/RELEASE_FAILED from ever closing a still-waiting caller's
\* span": refuted, ACQUIRED may have marked the span of a caller that waits.
WaitersKeepTheirSpans == \A x \in crossed : pc[x[2]] \notin Waiting
===============================================================================
