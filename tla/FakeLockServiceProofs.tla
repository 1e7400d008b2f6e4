----------------------- MODULE FakeLockServiceProofs ------------------------
(***************************************************************************)
(* Theorems of FakeLockService, for any calls, modes, limits and numbers   *)
(* of resets and simulations, as long as a test does not reset while a     *)
(* call holds that will still release (Careful).  SlotInv and RwInv relate *)
(* a counter to the calls it counts and a waiting list to the calls that   *)
(* wait and that no reset has forgotten; LifeInv says what a call that has *)
(* come so far has been given.  Limits and turns also need what the test   *)
(* double does not enforce: one max for all slot calls (SameMax).          *)
(***************************************************************************)
EXTENDS FakeLockService, FiniteSetTheorems, SequenceTheorems, TLAPS

SlotCalls == {c \in Call : ModeOf[c] = "slot"}
RwCalls == {c \in Call : Rw(c)}
\* The calls of a kind that no reset has forgotten.
SlotsKnown == SlotCalls \ abandoned
RwKnown == RwCalls \ abandoned
AdmittedIn(mode) == {c \in Admitted : ModeOf[c] = mode}
Slots == AdmittedIn("slot")
Reads == AdmittedIn("read")
Writes == AdmittedIn("write")

\* A waiting list has waiting calls only, in the order of their arrival.
ListOf(list, calls, places, numbers) ==
    /\ list \in Seq(Call)
    /\ \A i \in 1 .. Len(list) : list[i] \in calls /\ places[list[i]] = "waiting"
    /\ \A i, j \in 1 .. Len(list) : i < j => numbers[list[i]] < numbers[list[j]]

\* The state of acquireSlot counts the holders, and whoever waits, waits for one.
SlotInv ==
    /\ sem \in [made : BOOLEAN, count : Int, max : Nat, waiters : Seq(Call)]
    /\ ListOf(sem.waiters, SlotsKnown, pc, arrived)
    /\ sem.count = Cardinality(Slots)
    /\ sem.waiters # << >> => Slots # {}
    /\ Slots # {} => sem.made

\* The state of acquireRw counts the holders, which exclude each other, and is
\* pumped: the front of the queue is kept out by one of them.
RwInv ==
    /\ rw \in [readers : Nat, writing : BOOLEAN, queue : Seq(Call)]
    /\ ListOf(rw.queue, RwKnown, pc, arrived)
    /\ rw.readers = Cardinality(Reads) /\ rw.writing = (Writes # {})
    /\ Writes # {} => Reads = {}
    /\ \A c, d \in Writes : c = d
    /\ rw.queue # << >> => Writes # {} \/ (Reads # {} /\ ModeOf[Head(rw.queue)] = "write")

\* The numbers of a history variable are those of a kind counted through.
Numbered(f) == \A c \in Call : f[c] < Number(f, c)

\* What a call has been given, by its place.
LifeInv ==
    /\ pc \in [Call -> {"idle", "waiting", "granted", "running", "done"}]
    /\ locked \in BOOLEAN /\ aborted \subseteq Call
    /\ fence \in Nat /\ token \in [Call -> Nat]
    /\ resets \in Nat /\ toggles \in Nat
    /\ arrived \in [Call -> Nat] /\ order \in [Call -> Nat]
    /\ Numbered(arrived) /\ Numbered(order)
    /\ abandoned \subseteq Call
    /\ \A c \in abandoned : pc[c] = "waiting" \/ (c \in Leaked /\ pc[c] = "running")
    /\ \A c \in Call :
        /\ pc[c] \in {"waiting", "granted"} => c \in SlotCalls \cup RwCalls
        /\ pc[c] = "idle" => arrived[c] = 0
        /\ pc[c] \in {"idle", "waiting"} => order[c] = 0
        /\ pc[c] \in {"idle", "waiting", "granted"} => token[c] = 0
        /\ Holding(c) /\ c \in SlotCalls \cup RwCalls => order[c] # 0
        /\ token[c] # 0 /\ c \in SlotCalls \cup RwCalls => order[c] # 0
        /\ token[c] <= fence

FakeInv == LifeInv /\ SlotInv /\ RwInv

-----------------------------------------------------------------------------
(* Numbers.                                                                *)

\* A number is one, or a larger one.
LEMMA NumberType ==
    ASSUME NEW f \in [Call -> Nat], NEW c \in Call
    PROVE  Number(f, c) \in Nat \ {0}
<1>1. IsFiniteSet({d \in Call : f[d] # 0 /\ Rw(d) = Rw(c)})
  BY FakeAssumption, FS_Subset
<1> QED
  BY <1>1, FS_CardinalityType DEF Number

\* Calls that get the next numbers of their kind get larger ones than all the
\* others have, and the numbers stay those of a kind counted through.
LEMMA NextNumbers ==
    ASSUME NEW f \in [Call -> Nat], Numbered(f), NEW C \in SUBSET Call, C # {},
           \A c \in C : f[c] = 0, \A c, d \in C : Rw(c) = Rw(d),
           NEW e \in [C -> Nat], \A c \in C : e[c] < Cardinality(C),
           NEW g, g = [c \in Call |-> IF c \in C THEN Number(f, c) + e[c] ELSE f[c]]
    PROVE  /\ g \in [Call -> Nat] /\ Numbered(g)
           /\ \A c \in C : g[c] # 0 /\ \A d \in Call \ C : Rw(c) = Rw(d) => f[d] < g[c]
<1> DEFINE Of(k, c) == {d \in Call : k[d] # 0 /\ Rw(d) = Rw(c)}
<1>1. IsFiniteSet(C) /\ Cardinality(C) \in Nat
  BY FakeAssumption, FS_Subset, FS_CardinalityType
<1>2. \A c \in Call : Number(f, c) \in Nat \ {0}
  BY NumberType
<1>3. \A c \in C : g[c] = Number(f, c) + e[c] /\ g[c] \in Nat \ {0}
  BY <1>2
<1>4. g \in [Call -> Nat] /\ \A c \in Call \ C : g[c] = f[c]
  BY <1>2
<1>5. \A c, d \in Call : Rw(c) = Rw(d) => Number(f, c) = Number(f, d)
  BY DEF Number
<1>6. ASSUME NEW c \in C, NEW d \in Call \ C, Rw(c) = Rw(d) PROVE f[d] < g[c]
  <2>1. f[d] < Number(f, d) /\ Number(f, c) = Number(f, d)
    BY <1>5, <1>6 DEF Numbered
  <2>2. Number(f, c) \in Nat /\ e[c] \in Nat /\ g[c] = Number(f, c) + e[c] /\ f[d] \in Nat
    BY <1>2, <1>3
  <2> QED
    BY <2>1, <2>2
<1>7. ASSUME NEW c \in Call PROVE g[c] < Number(g, c)
  <2>1. /\ IsFiniteSet(Of(f, c)) /\ Number(f, c) = 1 + Cardinality(Of(f, c))
        /\ Number(g, c) = 1 + Cardinality(Of(g, c)) /\ Cardinality(Of(f, c)) \in Nat
    <3>1. Of(f, c) \in SUBSET Call
      OBVIOUS
    <3> QED
      BY <3>1, FakeAssumption, FS_Subset, FS_CardinalityType DEF Number
  <2>2. CASE \E d \in C : Rw(d) = Rw(c)
    <3>1. Of(g, c) = Of(f, c) \cup C /\ Of(f, c) \cap C = {}
      BY <2>2, <1>3, <1>4
    <3>2. Cardinality(Of(g, c)) = Cardinality(Of(f, c)) + Cardinality(C)
      <4> HIDE DEF Of
      <4>1. Cardinality(Of(f, c) \cup C) = Cardinality(Of(f, c)) + Cardinality(C) - Cardinality(Of(f, c) \cap C)
        BY <1>1, <2>1, FS_Union
      <4>2. Cardinality(Of(f, c) \cap C) = 0
        BY <3>1, FS_EmptySet
      <4>3. Cardinality(Of(f, c)) \in Nat /\ Cardinality(C) \in Nat
        BY <1>1, <2>1
      <4>4. Cardinality(Of(g, c)) = Cardinality(Of(f, c)) + Cardinality(C) - 0
        BY <3>1, <4>1, <4>2, Zenon
      <4> QED
        BY <4>3, <4>4
    <3> HIDE DEF Of
    <3>3. CASE c \in C
      BY <1>1, <1>2, <1>3, <2>1, <3>2, <3>3
    <3>4. CASE c \notin C
      <4>1. f[c] < Number(f, c) /\ g[c] = f[c]
        BY <1>4, <3>4 DEF Numbered
      <4> QED
        BY <1>1, <1>2, <2>1, <3>2, <4>1
    <3> QED
      BY <3>3, <3>4
  <2>3. CASE ~\E d \in C : Rw(d) = Rw(c)
    <3>1. Of(g, c) = Of(f, c) /\ g[c] = f[c]
      BY <2>3, <1>4
    <3> QED
      BY <2>1, <3>1 DEF Numbered
  <2> QED
    BY <2>2, <2>3
<1> QED
  BY <1>3, <1>4, <1>6, <1>7 DEF Numbered

\* One call that arrives gets the next number.
LEMMA NextArrival ==
    ASSUME LifeInv, NEW c \in Call, pc[c] = "idle", Arrives(c)
    PROVE  /\ arrived' \in [Call -> Nat] /\ Numbered(arrived')
           /\ \A d \in Call : d # c => arrived'[d] = arrived[d]
           /\ \A d \in Call \ {c} : Rw(c) = Rw(d) => arrived[d] < arrived'[c]
<1>1. arrived \in [Call -> Nat] /\ Numbered(arrived) /\ arrived[c] = 0
  BY DEF LifeInv
<1>2. Cardinality({c}) = 1
  BY FS_Singleton
<1>3. Number(arrived, c) \in Nat \ {0}
  BY <1>1, NumberType
<1> DEFINE e == [x \in {c} |-> 0]
           g == [x \in Call |-> IF x \in {c} THEN Number(arrived, x) + e[x] ELSE arrived[x]]
<1>4. arrived' = g
  <2>1. e[c] = 0
    OBVIOUS
  <2>2. g[c] = Number(arrived, c) /\ \A x \in Call \ {c} : g[x] = arrived[x]
    <3> HIDE DEF e
    <3> QED
      BY <1>3, <2>1
  <2> HIDE DEF e
  <2> QED
    BY <1>1, <2>2 DEF Arrives
<1>5. e \in [{c} -> Nat] /\ \A x \in {c} : e[x] < Cardinality({c})
  BY <1>2
<1> HIDE DEF e
<1>6. /\ arrived' \in [Call -> Nat] /\ Numbered(arrived')
      /\ \A x \in {c} : \A d \in Call \ {c} : Rw(x) = Rw(d) => arrived[d] < arrived'[x]
  BY <1>1, <1>4, <1>5, NextNumbers
<1> QED
  BY <1>1, <1>4, <1>6

\* Calls that are admitted together get the next numbers of their kind.
LEMMA NextGrants ==
    ASSUME LifeInv, NEW C \in SUBSET Call, \A c \in C : order[c] = 0,
           \A c, d \in C : Rw(c) = Rw(d), arrived' \in [Call -> Nat], Granted(C)
    PROVE  /\ order' \in [Call -> Nat] /\ Numbered(order')
           /\ \A c \in Call \ C : order'[c] = order[c]
           /\ \A c \in C : order'[c] # 0 /\ \A d \in Call \ C : Rw(c) = Rw(d) => order[d] < order'[c]
<1>1. order \in [Call -> Nat] /\ Numbered(order)
  BY DEF LifeInv
<1> DEFINE e == [c \in C |-> Cardinality({d \in C : arrived'[d] < arrived'[c]})]
<1>2. IsFiniteSet(C) /\ Cardinality(C) \in Nat
  BY FakeAssumption, FS_Subset, FS_CardinalityType
<1>3. ASSUME NEW c \in C PROVE e[c] \in Nat /\ e[c] < Cardinality(C)
  <2> DEFINE B == {d \in C : arrived'[d] < arrived'[c]}
  <2>1. B \in SUBSET C /\ c \notin B /\ e[c] = Cardinality(B)
    OBVIOUS
  <2> HIDE DEF B, e
  <2> QED
    BY <1>2, <2>1, FS_Subset, FS_CardinalityType
<1>4. order' = [c \in Call |-> IF c \in C THEN Number(order, c) + e[c] ELSE order[c]]
  BY Zenon DEF Granted
<1>5. e \in [C -> Nat]
  <2>1. \A c \in C : Cardinality({d \in C : arrived'[d] < arrived'[c]}) \in Nat
    BY <1>3
  <2> QED
    BY <2>1
<1> HIDE DEF e
<1>6. CASE C = {}
  BY <1>1, <1>4, <1>6
<1>7. CASE C # {}
  <2>1. \A c \in Call : Number(order, c) \in Nat
    BY <1>1, NumberType
  <2>2. \A c \in Call \ C : order'[c] = order[c]
    BY <1>4
  <2> QED
    BY <1>1, <1>3, <1>4, <1>5, <1>7, <2>2, NextNumbers
<1> QED
  BY <1>6, <1>7

-----------------------------------------------------------------------------
(* Waiting lists.                                                          *)

\* A list stays one while its calls wait on.
LEMMA ListKept ==
    ASSUME NEW list, NEW calls, NEW p, NEW q, NEW a, NEW b, ListOf(list, calls, p, a),
           \A c \in calls : p[c] = "waiting" => q[c] = "waiting" /\ b[c] = a[c]
    PROVE  ListOf(list, calls, q, b)
  BY DEF ListOf

\* The latest call is appended.
LEMMA ListGrows ==
    ASSUME NEW list, NEW calls \in SUBSET Call, NEW p, NEW q, NEW a, NEW b, ListOf(list, calls, p, a),
           NEW c \in calls, p[c] # "waiting", q[c] = "waiting",
           \A d \in calls \ {c} : p[d] = "waiting" => q[d] = "waiting" /\ b[d] = a[d] /\ a[d] < b[c]
    PROVE  ListOf(Append(list, c), calls, q, b)
<1> DEFINE new == Append(list, c)
<1>1. /\ list \in Seq(Call) /\ Len(list) \in Nat /\ new \in Seq(Call) /\ Len(new) = Len(list) + 1
      /\ \A i \in 1 .. Len(list) : new[i] = list[i]
      /\ new[Len(list) + 1] = c
  BY AppendProperties DEF ListOf
<1>2. \A i \in 1 .. Len(list) : list[i] \in calls \ {c} /\ p[list[i]] = "waiting"
  BY DEF ListOf
<1> HIDE DEF new
<1>3. ASSUME NEW i \in 1 .. Len(new) PROVE new[i] \in calls /\ q[new[i]] = "waiting"
  <2>1. i \in 1 .. Len(list) \/ i = Len(list) + 1
    BY <1>1
  <2> QED
    BY <1>1, <1>2, <2>1
<1>4. ASSUME NEW i \in 1 .. Len(new), NEW j \in 1 .. Len(new), i < j
      PROVE  b[new[i]] < b[new[j]]
  <2>1. i \in 1 .. Len(list) /\ (j \in 1 .. Len(list) \/ j = Len(list) + 1)
    BY <1>1, <1>4
  <2>2. CASE j = Len(list) + 1
    BY <1>1, <1>2, <2>1, <2>2
  <2>3. CASE j \in 1 .. Len(list)
    <3>1. a[list[i]] < a[list[j]]
      BY <1>4, <2>1, <2>3 DEF ListOf
    <3> QED
      BY <1>1, <1>2, <2>1, <2>3, <3>1
  <2> QED
    BY <2>1, <2>2, <2>3
<1> QED
  BY <1>1, <1>3, <1>4 DEF ListOf, new

\* The calls behind the first n, and that these wait on.
Behind(list, n) == SubSeq(list, n + 1, Len(list))
WaitOn(list, n, places) == \A i \in n + 1 .. Len(list) : places[list[i]] = "waiting"

\* The calls behind the first n are a list, if they wait on.
LEMMA ListRest ==
    ASSUME NEW list, NEW calls, NEW p, NEW q, NEW a, ListOf(list, calls, p, a),
           NEW n \in 0 .. Len(list), WaitOn(list, n, q)
    PROVE  /\ ListOf(Behind(list, n), calls, q, a)
           /\ Len(Behind(list, n)) = Len(list) - n
           /\ \A i \in 1 .. Len(list) - n : Behind(list, n)[i] = list[n + i]
<1> DEFINE rest == SubSeq(list, n + 1, Len(list))
<1>1. list \in Seq(Call) /\ Len(list) \in Nat
  BY DEF ListOf
<1>2. \A i \in n + 1 .. Len(list) : list[i] \in Call
  BY <1>1
<1>3. /\ rest \in Seq(Call) /\ Len(rest) = Len(list) - n
      /\ \A i \in 1 .. Len(list) - n : rest[i] = list[n + i]
  BY <1>1, <1>2, SubSeqProperties
<1> HIDE DEF rest
<1>4. \A i \in 1 .. Len(list) - n : n + i \in n + 1 .. Len(list) /\ n + i \in 1 .. Len(list)
  BY <1>1
<1>5. ListOf(rest, calls, q, a)
  <2>1. \A i \in 1 .. Len(rest) : rest[i] \in calls /\ q[rest[i]] = "waiting"
    BY <1>3, <1>4 DEF ListOf, WaitOn
  <2>2. ASSUME NEW i \in 1 .. Len(rest), NEW j \in 1 .. Len(rest), i < j
        PROVE  a[rest[i]] < a[rest[j]]
    <3>1. n + i \in 1 .. Len(list) /\ n + j \in 1 .. Len(list) /\ n + i < n + j
      BY <1>1, <1>3, <1>4, <2>2
    <3> QED
      BY <1>3, <3>1 DEF ListOf
  <2> QED
    BY <1>3, <2>1, <2>2 DEF ListOf
<1> QED
  BY <1>3, <1>5 DEF rest, Behind

\* The front of a list that is not empty, and the others.
LEMMA ListFront ==
    ASSUME NEW list \in Seq(Call), list # << >>
    PROVE  /\ 1 \in 1 .. Len(list) /\ Head(list) = list[1]
           /\ Tail(list) = SubSeq(list, 1 + 1, Len(list))
  BY TailIsSubSeq, EmptySeq

\* It is one of those that wait.
LEMMA FrontWaits ==
    ASSUME NEW list, NEW calls, NEW p, NEW a, ListOf(list, calls, p, a), list # << >>
    PROVE  Head(list) \in calls /\ p[Head(list)] = "waiting"
<1>1. 1 \in 1 .. Len(list) /\ Head(list) = list[1]
  BY ListFront DEF ListOf
<1> QED
  BY <1>1 DEF ListOf

\* Nobody waits twice.
LEMMA ListDistinct ==
    ASSUME NEW list, NEW calls, NEW p, NEW a \in [Call -> Nat], ListOf(list, calls, p, a),
           NEW i \in 1 .. Len(list), NEW j \in 1 .. Len(list), list[i] = list[j]
    PROVE  i = j
  BY DEF ListOf

\* The front of a list is the call that has waited longest, and the others are
\* a list without it.
LEMMA ListShifts ==
    ASSUME NEW list, NEW calls \in SUBSET Call, NEW p, NEW q, NEW a \in [Call -> Nat],
           ListOf(list, calls, p, a), list # << >>,
           \A d \in calls : d # Head(list) /\ p[d] = "waiting" => q[d] = "waiting"
    PROVE  /\ Head(list) \in calls /\ p[Head(list)] = "waiting"
           /\ ListOf(Tail(list), calls, q, a)
           /\ \A i \in 1 .. Len(list) :
                list[i] # Head(list) => /\ a[Head(list)] < a[list[i]]
                                       /\ \E j \in 1 .. Len(Tail(list)) : Tail(list)[j] = list[i]
<1>1. list \in Seq(Call) /\ Len(list) \in Nat
  BY DEF ListOf
<1>2. /\ 1 \in 1 .. Len(list) /\ Head(list) = list[1]
      /\ Tail(list) = SubSeq(list, 1 + 1, Len(list))
  BY <1>1, ListFront
<1>3. Head(list) \in calls /\ p[Head(list)] = "waiting"
  BY <1>2 DEF ListOf
<1>4. ASSUME NEW i \in 1 .. Len(list), i # 1
      PROVE  list[i] \in calls /\ p[list[i]] = "waiting" /\ a[Head(list)] < a[list[i]] /\ list[i] # Head(list)
  <2>1. 1 < i
    BY <1>4
  <2>2. a[list[1]] < a[list[i]] /\ list[i] \in calls /\ p[list[i]] = "waiting"
    BY <1>2, <2>1 DEF ListOf
  <2> QED
    BY <1>2, <1>3, <2>2
<1>5. \A i \in 1 + 1 .. Len(list) : q[list[i]] = "waiting"
  BY <1>1, <1>4
<1>6. /\ ListOf(Tail(list), calls, q, a) /\ Len(Tail(list)) = Len(list) - 1
      /\ \A i \in 1 .. Len(list) - 1 : Tail(list)[i] = list[1 + i]
  <2>1. 1 \in 0 .. Len(list)
    BY <1>1, <1>2
  <2>2. WaitOn(list, 1, q) /\ Tail(list) = Behind(list, 1)
    BY <1>2, <1>5 DEF WaitOn, Behind
  <2> QED
    <3>1. ListOf(list, calls, p, a)
      OBVIOUS
    <3>2. /\ ListOf(Behind(list, 1), calls, q, a) /\ Len(Behind(list, 1)) = Len(list) - 1
          /\ \A i \in 1 .. Len(list) - 1 : Behind(list, 1)[i] = list[1 + i]
      BY ONLY <2>1, <2>2, <3>1, ListRest, ZenonT(60)
    <3> QED
      BY <2>2, <3>2
<1>7. ASSUME NEW i \in 1 .. Len(list), list[i] # Head(list)
      PROVE  a[Head(list)] < a[list[i]] /\ \E j \in 1 .. Len(Tail(list)) : Tail(list)[j] = list[i]
  <2>1. i # 1 /\ i - 1 \in 1 .. Len(list) - 1 /\ 1 + (i - 1) = i
    BY <1>1, <1>2, <1>7
  <2> QED
    BY <1>4, <1>6, <2>1
<1> QED
  BY <1>3, <1>6, <1>7

-----------------------------------------------------------------------------
(* What the steps of one kind leave to the other.                          *)

\* The calls of K only resume, or are refused.
Aside(K) ==
    \A c \in K :
        /\ arrived'[c] = arrived[c]
        /\ \/ pc'[c] = pc[c]
           \/ pc[c] = "granted" /\ pc'[c] = "running"
           \/ pc[c] = "idle" /\ pc'[c] = "done"

\* Slots are counted right as long as nobody takes, waits for or leaves one.
LEMMA SlotsAside ==
    ASSUME SlotInv, sem' = sem, abandoned' = abandoned, Aside(SlotCalls)
    PROVE  SlotInv'
<1>1. Slots' = Slots
  BY DEF Aside, SlotCalls, Slots, AdmittedIn, Admitted, Holding
<1>2. ListOf(sem.waiters, SlotsKnown, pc', arrived')
  BY ListKept DEF SlotInv, SlotsKnown, Aside
<1> QED
  BY <1>1, <1>2 DEF SlotInv, SlotsKnown, SlotCalls

\* Likewise readers and writers.
LEMMA RwAside ==
    ASSUME RwInv, rw' = rw, abandoned' = abandoned, Aside(RwCalls)
    PROVE  RwInv'
<1>1. Reads' = Reads /\ Writes' = Writes
  BY DEF Aside, RwCalls, Rw, Reads, Writes, AdmittedIn, Admitted, Holding
<1>2. ListOf(rw.queue, RwKnown, pc', arrived')
  BY ListKept DEF RwInv, RwKnown, Aside
<1> QED
  BY <1>1, <1>2 DEF RwInv, RwKnown, RwCalls, Rw

\* Slots and Reads are finite, so that one more or one less counts as such.
LEMMA KindsFinite ==
    ASSUME NEW mode
    PROVE  /\ AdmittedIn(mode) \in SUBSET Call /\ IsFiniteSet(AdmittedIn(mode))
           /\ Cardinality(AdmittedIn(mode)) \in Nat
           /\ Cardinality(AdmittedIn(mode)) = 0 <=> AdmittedIn(mode) = {}
<1>1. AdmittedIn(mode) \in SUBSET Call
  BY DEF AdmittedIn, Admitted
<1> QED
  BY <1>1, FakeAssumption, FS_Subset, FS_CardinalityType, FS_EmptySet

\* pumpRw moves readers and writers only.
LEMMA PumpMoves ==
    ASSUME NEW s, NEW c \in Call, NEW place, Pump(s, c, place),
           s.queue \in Seq(Call), \A i \in 1 .. Len(s.queue) : s.queue[i] \in RwCalls
    PROVE  abandoned' = abandoned /\ \A d \in Call \ RwCalls : d # c => pc'[d] = pc[d]
  BY DEF Pump, Granted

\* So do the calls that use it.
LEMMA RwStepMoves ==
    ASSUME LifeInv, RwInv, NEW c \in Call, AcquireRw(c) \/ ReleaseRw(c)
    PROVE  sem' = sem /\ abandoned' = abandoned /\ Aside(SlotCalls)
<1> DEFINE s == IF AcquireRw(c) THEN [rw EXCEPT !.queue = Append(@, c)] ELSE RwWithout(c)
           place == IF AcquireRw(c) THEN "waiting" ELSE "done"
<1>1. c \in RwCalls /\ sem' = sem /\ Pump(s, c, place)
  BY DEF AcquireRw, ReleaseRw, RwCalls
<1>2. /\ rw.queue \in Seq(Call) /\ \A i \in 1 .. Len(rw.queue) : rw.queue[i] \in RwCalls
      /\ s.queue = rw.queue \/ s.queue = Append(rw.queue, c)
  BY DEF RwInv, ListOf, RwKnown, RwWithout
<1> HIDE DEF s, place
<1>3. s.queue \in Seq(Call) /\ \A i \in 1 .. Len(s.queue) : s.queue[i] \in RwCalls
  <2>1. CASE s.queue = Append(rw.queue, c)
    <3>1. /\ Len(s.queue) = Len(rw.queue) + 1 /\ s.queue[Len(rw.queue) + 1] = c
          /\ \A i \in 1 .. Len(rw.queue) : s.queue[i] = rw.queue[i]
      BY <1>2, <2>1, AppendProperties
    <3>2. \A i \in 1 .. Len(s.queue) : i \in 1 .. Len(rw.queue) \/ i = Len(rw.queue) + 1
      BY <1>2, <3>1
    <3> QED
      BY <1>1, <1>2, <2>1, <3>1, <3>2
  <2> QED
    BY <1>2, <2>1
<1>4. abandoned' = abandoned /\ \A d \in Call \ RwCalls : d # c => pc'[d] = pc[d]
  BY <1>1, <1>3, PumpMoves
<1>5. \A d \in SlotCalls : d \in Call \ RwCalls
  BY DEF SlotCalls, RwCalls, Rw
<1>6. \A d \in SlotCalls : arrived'[d] = arrived[d]
  <2>1. CASE AcquireRw(c)
    BY <1>1, <1>5, <2>1, NextArrival DEF AcquireRw, SlotCalls
  <2>2. CASE ReleaseRw(c)
    BY <2>2 DEF ReleaseRw
  <2> QED
    BY <2>1, <2>2
<1> QED
  BY <1>1, <1>4, <1>5, <1>6 DEF Aside

\* The steps that concern neither waiting list.
SideStep(c) == Refuse(c) \/ Plain(c) \/ Resume(c) \/ EndPlain(c)
SlotStep(c) == TakeSlot(c) \/ WaitForSlot(c) \/ HandSlot(c) \/ DropSlot(c)
RwStep(c) == AcquireRw(c) \/ ReleaseRw(c)
TestStep == SimulateLocked \/ SimulateLockLoss

\* Every step is one of these.
LEMMA Steps ==
    ASSUME [Next]_fakeVars
    PROVE  \/ \E c \in Call : SideStep(c) \/ SlotStep(c) \/ RwStep(c)
           \/ TestStep \/ ResetQueueState \/ UNCHANGED fakeVars
  BY DEF Next, Step, SideStep, SlotStep, RwStep, TestStep

\* They leave both where they are.
LEMMA SideStepMoves ==
    ASSUME LifeInv, (\E c \in Call : SideStep(c)) \/ TestStep \/ UNCHANGED fakeVars
    PROVE  /\ sem' = sem /\ rw' = rw /\ UNCHANGED history
           /\ Aside(SlotCalls) /\ Aside(RwCalls)
<1> USE DEF Aside, SlotCalls, RwCalls, Rw, LifeInv, history
<1>1. ASSUME NEW c \in Call, Refuse(c) \/ Plain(c) PROVE sem' = sem /\ rw' = rw /\ UNCHANGED history /\ Aside(SlotCalls) /\ Aside(RwCalls)
  BY <1>1 DEF Refuse, Plain
<1>2. ASSUME NEW c \in Call, Resume(c) \/ EndPlain(c) PROVE sem' = sem /\ rw' = rw /\ UNCHANGED history /\ Aside(SlotCalls) /\ Aside(RwCalls)
  BY <1>2 DEF Resume, EndPlain
<1>3. CASE TestStep \/ UNCHANGED fakeVars
  BY <1>3 DEF TestStep, SimulateLocked, SimulateLockLoss, fakeVars
<1> QED
  BY <1>1, <1>2, <1>3 DEF SideStep

\* Calls that take, wait for or leave a slot touch no reader and no writer.
LEMMA SlotStepMoves ==
    ASSUME LifeInv, SlotInv, NEW c \in Call, SlotStep(c)
    PROVE  rw' = rw /\ abandoned' = abandoned /\ Aside(RwCalls)
<1> USE DEF Aside, SlotCalls, RwCalls, Rw, LifeInv
<1>1. CASE TakeSlot(c) \/ WaitForSlot(c)
  <2>1. \A d \in RwCalls : arrived'[d] = arrived[d]
    BY <1>1, NextArrival DEF TakeSlot, WaitForSlot
  <2> QED
    BY <1>1, <2>1 DEF TakeSlot, WaitForSlot, Granted
<1>2. CASE HandSlot(c)
  <2>1. Head(sem.waiters) \in SlotCalls
    <3>1. sem.waiters # << >> /\ ListOf(sem.waiters, SlotsKnown, pc, arrived)
      BY <1>2 DEF HandSlot, SlotInv
    <3>2. Head(sem.waiters) \in SlotsKnown
      BY <3>1, FrontWaits
    <3> QED
      BY <3>2 DEF SlotsKnown
  <2> QED
    BY <1>2, <2>1 DEF HandSlot, Granted
<1>3. CASE DropSlot(c)
  BY <1>3 DEF DropSlot, history
<1> QED
  BY <1>1, <1>2, <1>3 DEF SlotStep

-----------------------------------------------------------------------------
(* Slots.                                                                  *)

\* A slot that is free is taken and counted.
LEMMA TakeSlotKeeps ==
    ASSUME LifeInv, SlotInv, NEW c \in Call, TakeSlot(c)
    PROVE  SlotInv' /\ Slots' = Slots \cup {c}
<1>1. /\ c \in SlotCalls /\ c \notin abandoned /\ c \notin Slots
      /\ abandoned' = abandoned /\ pc' = [pc EXCEPT ![c] = "granted"]
      /\ pc[c] = "idle" /\ pc \in [Call -> {"idle", "waiting", "granted", "running", "done"}]
  BY DEF TakeSlot, LifeInv, Granted, SlotCalls, Slots, AdmittedIn, Admitted, Holding
<1>2. Slots' = Slots \cup {c}
  BY <1>1 DEF Slots, AdmittedIn, Admitted, Holding, SlotCalls
<1>3. Cardinality(Slots') = Cardinality(Slots) + 1 /\ Slots' # {}
  <2>1. IsFiniteSet(Slots)
    BY KindsFinite DEF Slots
  <2> QED
    BY <1>1, <1>2, <2>1, FS_AddElement
<1>4. ListOf(sem.waiters, SlotsKnown, pc', arrived')
  <2>1. \A d \in SlotsKnown : pc[d] = "waiting" => pc'[d] = "waiting" /\ arrived'[d] = arrived[d]
    BY <1>1, NextArrival DEF TakeSlot, SlotsKnown, SlotCalls
  <2>2. ListOf(sem.waiters, SlotsKnown, pc, arrived)
    BY DEF SlotInv
  <2> QED
    BY <2>1, <2>2, ListKept
<1>5. /\ sem' = [made |-> TRUE, count |-> sem.count + 1, max |-> MaxOf[c], waiters |-> sem.waiters]
      /\ sem.waiters \in Seq(Call) /\ sem.count \in Int /\ MaxOf[c] \in Nat
  BY FakeAssumption DEF TakeSlot, Resized, SlotInv
<1> QED
  BY <1>1, <1>2, <1>3, <1>4, <1>5 DEF SlotInv, SlotsKnown, SlotCalls

\* Whoever finds none is appended, and there are holders to wait for.
LEMMA WaitForSlotKeeps ==
    ASSUME LifeInv, SlotInv, NEW c \in Call, WaitForSlot(c)
    PROVE  SlotInv' /\ Slots' = Slots
<1>1. /\ c \in SlotCalls /\ c \in SlotsKnown
      /\ abandoned' = abandoned /\ pc' = [pc EXCEPT ![c] = "waiting"]
      /\ pc[c] = "idle" /\ pc \in [Call -> {"idle", "waiting", "granted", "running", "done"}]
  BY DEF WaitForSlot, LifeInv, SlotsKnown, SlotCalls
<1>2. Slots' = Slots
  BY <1>1 DEF Slots, AdmittedIn, Admitted, Holding, SlotCalls
<1>3. /\ sem' = [made |-> TRUE, count |-> sem.count, max |-> MaxOf[c], waiters |-> Append(sem.waiters, c)]
      /\ sem.waiters \in Seq(Call) /\ sem.count \in Int /\ MaxOf[c] \in Nat \ {0}
      /\ ~(sem.count < MaxOf[c])
  BY FakeAssumption DEF WaitForSlot, Resized, SlotFree, SlotInv
<1>4. Slots # {}
  <2>1. Slots = {} => sem.count = 0
    BY KindsFinite DEF Slots, SlotInv
  <2> QED
    BY <1>3, <2>1
<1>5. ListOf(Append(sem.waiters, c), SlotsKnown, pc', arrived')
  <2>1. \A d \in SlotsKnown \ {c} :
            pc[d] = "waiting" =>
                pc'[d] = "waiting" /\ arrived'[d] = arrived[d] /\ arrived[d] < arrived'[c]
    BY <1>1, NextArrival DEF WaitForSlot, SlotsKnown, SlotCalls, Rw
  <2>2. ListOf(sem.waiters, SlotsKnown, pc, arrived) /\ SlotsKnown \in SUBSET Call /\ pc'[c] = "waiting"
    BY <1>1 DEF SlotInv, SlotsKnown, SlotCalls
  <2> QED
    BY <1>1, <2>1, <2>2, ListGrows
<1>6. Append(sem.waiters, c) \in Seq(Call)
  BY <1>5 DEF ListOf
<1> QED
  BY <1>1, <1>2, <1>3, <1>4, <1>5, <1>6 DEF SlotInv, SlotsKnown, SlotCalls

\* A slot that is handed over has a new holder, and the count is that of before.
LEMMA HandSlotKeeps ==
    ASSUME LifeInv, SlotInv, NEW c \in Call, HandSlot(c)
    PROVE  /\ SlotInv' /\ Slots' = (Slots \ {c}) \cup {Head(sem.waiters)}
           /\ c \in Slots /\ Head(sem.waiters) \in SlotCalls /\ Head(sem.waiters) \notin abandoned
           /\ pc[Head(sem.waiters)] = "waiting"
           /\ Cardinality(Slots') = Cardinality(Slots)
<1> DEFINE h == Head(sem.waiters)
<1>1. ListOf(sem.waiters, SlotsKnown, pc, arrived) /\ sem.waiters # << >> /\ arrived \in [Call -> Nat]
  BY DEF HandSlot, SlotInv, LifeInv
<1>2. h \in SlotCalls /\ h \notin abandoned /\ pc[h] = "waiting"
  BY <1>1, FrontWaits DEF SlotsKnown
<1>3. /\ c \in Slots /\ c # h /\ h \notin Slots /\ h \notin abandoned /\ abandoned' = abandoned
      /\ pc' = [pc EXCEPT ![c] = "done", ![h] = "granted"] /\ arrived' = arrived
      /\ pc \in [Call -> {"idle", "waiting", "granted", "running", "done"}]
  BY <1>2 DEF HandSlot, LifeInv, Granted, SlotCalls, Slots, AdmittedIn, Admitted, Holding
<1> HIDE DEF h
<1>4. Slots' = (Slots \ {c}) \cup {h}
  BY <1>2, <1>3 DEF Slots, AdmittedIn, Admitted, Holding, SlotCalls
<1>5. Cardinality(Slots') = Cardinality(Slots)
  <2>1. IsFiniteSet(Slots) /\ Cardinality(Slots) \in Nat
    BY KindsFinite DEF Slots
  <2>2. IsFiniteSet(Slots \ {c}) /\ Cardinality(Slots \ {c}) = Cardinality(Slots) - 1
    BY <1>3, <2>1, FS_RemoveElement
  <2>3. Cardinality((Slots \ {c}) \cup {h}) = Cardinality(Slots \ {c}) + 1
    BY <1>3, <2>2, FS_AddElement
  <2> QED
    BY <1>4, <2>1, <2>2, <2>3
<1>6. ListOf(Tail(sem.waiters), SlotsKnown, pc', arrived')
  <2>1. \A d \in SlotsKnown : d # h /\ pc[d] = "waiting" => pc'[d] = "waiting"
    BY <1>3 DEF Slots, AdmittedIn, Admitted, Holding, SlotsKnown, SlotCalls
  <2>2. SlotsKnown \in SUBSET Call
    BY DEF SlotsKnown, SlotCalls
  <2>3. ListOf(Tail(sem.waiters), SlotsKnown, pc', arrived)
    BY ONLY <1>1, <2>1, <2>2, ListShifts DEF h
  <2> QED
    BY <1>3, <2>3
<1>7. /\ sem' = [made |-> sem.made, count |-> sem.count, max |-> sem.max, waiters |-> Tail(sem.waiters)]
      /\ sem.made = TRUE /\ sem.count \in Int /\ sem.max \in Nat
  BY <1>3 DEF HandSlot, SlotInv
<1>8. Tail(sem.waiters) \in Seq(Call) /\ Slots' # {}
  BY <1>4, <1>6 DEF ListOf
<1> QED
  BY <1>2, <1>3, <1>4, <1>5, <1>6, <1>7, <1>8 DEF SlotInv, SlotsKnown, SlotCalls, h

\* A slot that nobody waits for is given back.
LEMMA DropSlotKeeps ==
    ASSUME LifeInv, SlotInv, NEW c \in Call, DropSlot(c)
    PROVE  SlotInv' /\ Slots' = Slots \ {c} /\ sem'.count = sem.count - 1
<1>1. /\ c \in Slots /\ UNCHANGED <<abandoned, arrived>> /\ pc' = [pc EXCEPT ![c] = "done"]
      /\ pc \in [Call -> {"idle", "waiting", "granted", "running", "done"}]
  BY DEF DropSlot, LifeInv, history, SlotCalls, Slots, AdmittedIn, Admitted, Holding
<1>2. Slots' = Slots \ {c}
  BY <1>1 DEF Slots, AdmittedIn, Admitted, Holding, SlotCalls
<1>3. Cardinality(Slots') = Cardinality(Slots) - 1
  <2>1. IsFiniteSet(Slots)
    BY KindsFinite DEF Slots
  <2> QED
    BY <1>1, <1>2, <2>1, FS_RemoveElement
<1>4. /\ sem' = [made |-> TRUE, count |-> sem.count - 1, max |-> sem.max, waiters |-> sem.waiters]
      /\ sem.waiters = << >> /\ sem.count \in Int /\ sem.max \in Nat
  BY <1>1 DEF DropSlot, SlotInv
<1>5. << >> \in Seq(Call) /\ ListOf(<< >>, SlotsKnown, pc', arrived')
  BY EmptySeq DEF ListOf
<1> QED
  BY <1>1, <1>2, <1>3, <1>4, <1>5 DEF SlotInv, SlotsKnown, SlotCalls

\* After a reset, nobody is counted who holds.
LEMMA ResetEmpties ==
    ASSUME ResetQueueState
    PROVE  SlotInv' /\ RwInv'
<1>1. Admitted' = {}
  BY DEF ResetQueueState, Admitted, Holding
<1>2. Slots' = {} /\ Reads' = {} /\ Writes' = {}
  BY <1>1 DEF Slots, Reads, Writes, AdmittedIn
<1>3. << >> \in Seq(Call) /\ \A k : ListOf(<< >>, k, pc', arrived')
  BY EmptySeq DEF ListOf
<1>4. SlotInv'
  BY <1>2, <1>3, FS_EmptySet DEF ResetQueueState, NoSem, SlotInv, SlotsKnown, SlotCalls
<1>5. RwInv'
  BY <1>2, <1>3, FS_EmptySet DEF ResetQueueState, NoRw, RwInv, RwKnown, RwCalls, Rw
<1> QED
  BY <1>4, <1>5

\* Every step keeps the slots counted.
LEMMA SlotsKept ==
    ASSUME LifeInv, SlotInv, RwInv, [Next]_fakeVars
    PROVE  SlotInv'
<1>1. ASSUME NEW c \in Call, SlotStep(c) PROVE SlotInv'
  BY <1>1, TakeSlotKeeps, WaitForSlotKeeps, HandSlotKeeps, DropSlotKeeps DEF SlotStep
<1>2. ASSUME NEW c \in Call, RwStep(c) PROVE SlotInv'
  BY <1>2, RwStepMoves, SlotsAside DEF RwStep
<1>3. CASE (\E c \in Call : SideStep(c)) \/ TestStep \/ UNCHANGED fakeVars
  BY <1>3, SideStepMoves, SlotsAside DEF history
<1>4. CASE ResetQueueState
  BY <1>4, ResetEmpties
<1> QED
  BY <1>1, <1>2, <1>3, <1>4, Steps

-----------------------------------------------------------------------------
(* Readers and writers.                                                    *)

\* The state that is pumped: the call has come or gone, and nobody is granted yet.
Unpumped(s, c, place) ==
    /\ c \in RwCalls /\ c \notin abandoned /\ place \in {"waiting", "done"}
    /\ s \in [readers : Nat, writing : BOOLEAN, queue : Seq(Call)]
    /\ s.readers = Cardinality(Reads \ {c}) /\ s.writing = (Writes \ {c} # {})
    /\ Writes \ {c} # {} => Reads \ {c} = {}
    /\ \A d, e \in Writes \ {c} : d = e
    /\ ListOf(s.queue, RwKnown, [pc EXCEPT ![c] = place], arrived')
    /\ arrived' \in [Call -> Nat]

\* Pumping grants the front of the queue what the holders leave to it.
LEMMA Pumped ==
    ASSUME LifeInv, NEW c, NEW s, NEW place, Unpumped(s, c, place), Pump(s, c, place)
    PROVE  RwInv'
<1> PICK n \in 0 .. Len(s.queue) :
        LET C == {s.queue[i] : i \in 1 .. n}
            Of(mode) == {d \in C : ModeOf[d] = mode}
        IN  /\ Grants(s, n)
            /\ rw' = [readers |-> s.readers + Cardinality(Of("read")),
                      writing |-> s.writing \/ Of("write") # {},
                      queue |-> SubSeq(s.queue, n + 1, Len(s.queue))]
            /\ pc' = [d \in Call |-> IF d \in C THEN "granted"
                                     ELSE IF d = c THEN place ELSE pc[d]]
            /\ Granted(C)
  BY DEF Pump
<1> DEFINE C == {s.queue[i] : i \in 1 .. n}
           Of(mode) == {d \in C : ModeOf[d] = mode}
           rest == SubSeq(s.queue, n + 1, Len(s.queue))
           q == [pc EXCEPT ![c] = place]
<1>1. /\ Grants(s, n) /\ abandoned' = abandoned
      /\ rw' = [readers |-> s.readers + Cardinality(Of("read")),
                writing |-> s.writing \/ Of("write") # {}, queue |-> rest]
      /\ pc' = [d \in Call |-> IF d \in C THEN "granted" ELSE IF d = c THEN place ELSE pc[d]]
  BY Zenon DEF Granted
<1>2. /\ c \in RwCalls /\ c \in Call /\ c \notin abandoned /\ place \in {"waiting", "done"}
      /\ s.readers \in Nat /\ s.writing \in BOOLEAN /\ s.queue \in Seq(Call) /\ Len(s.queue) \in Nat
      /\ ListOf(s.queue, RwKnown, q, arrived') /\ arrived' \in [Call -> Nat]
      /\ pc \in [Call -> {"idle", "waiting", "granted", "running", "done"}]
  BY DEF Unpumped, RwCalls, LifeInv
<1>0. Len(s.queue) \in Nat /\ n \in Nat /\ n <= Len(s.queue)
  BY <1>2
<1>3. \A i \in 1 .. Len(s.queue) :
        /\ s.queue[i] \in RwKnown /\ q[s.queue[i]] = "waiting"
        /\ s.queue[i] = c => place = "waiting"
        /\ s.queue[i] # c => pc[s.queue[i]] = "waiting"
  <2>1. \A i \in 1 .. Len(s.queue) : s.queue[i] \in RwKnown /\ q[s.queue[i]] = "waiting"
    BY <1>2 DEF ListOf
  <2> QED
    BY <1>2, <2>1 DEF RwKnown, RwCalls
<1>4. C \in SUBSET RwKnown /\ \A d \in C : d = c \/ pc[d] = "waiting"
  <2>1. \A i \in 1 .. n : i \in 1 .. Len(s.queue)
    BY <1>2
  <2> QED
    BY <1>3, <2>1
<1>5. ListOf(rest, RwKnown, pc', arrived') /\ Len(rest) = Len(s.queue) - n
      /\ \A i \in 1 .. Len(s.queue) - n : rest[i] = s.queue[n + i]
  <2>1. ASSUME NEW i \in n + 1 .. Len(s.queue) PROVE pc'[s.queue[i]] = "waiting"
    <3>1. i \in 1 .. Len(s.queue) /\ \A j \in 1 .. n : j # i /\ j \in 1 .. Len(s.queue)
      BY ONLY <1>0, i \in n + 1 .. Len(s.queue)
    <3>2. s.queue[i] \notin C
      <4>1. ListOf(s.queue, RwKnown, q, arrived') /\ arrived' \in [Call -> Nat]
        BY <1>2
      <4>2. \A j \in 1 .. n : s.queue[i] # s.queue[j]
        <5> HIDE DEF q, C
        <5> QED
          BY ONLY <3>1, <4>1, ListDistinct
      <4> QED
        BY ONLY <4>2 DEF C
    <3> HIDE DEF C
    <3> QED
      BY <1>1, <1>3, <3>1, <3>2 DEF RwKnown, RwCalls
  <2> HIDE DEF q, C
  <2>2. ListOf(s.queue, RwKnown, q, arrived')
    BY <1>2
  <2>3. n \in 0 .. Len(s.queue) /\ WaitOn(s.queue, n, pc') /\ rest = Behind(s.queue, n)
    BY <1>0, <2>1 DEF WaitOn, Behind
  <2> HIDE DEF rest
  <2> QED
    BY ONLY <2>2, <2>3, ListRest, ZenonT(60)
<1> HIDE DEF C, rest, q
<1>6. ASSUME NEW mode \in {"read", "write"}
      PROVE  /\ AdmittedIn(mode)' = (AdmittedIn(mode) \ {c}) \cup Of(mode)
             /\ (AdmittedIn(mode) \ {c}) \cap Of(mode) = {}
             /\ IsFiniteSet(Of(mode)) /\ IsFiniteSet(AdmittedIn(mode) \ {c})
  <2>1. \A d \in C : d \in Call /\ d \notin abandoned
    BY <1>4 DEF RwKnown, RwCalls
  <2>2. AdmittedIn(mode)' = (AdmittedIn(mode) \ {c}) \cup Of(mode)
    BY <1>1, <1>2, <1>4, <2>1, <1>6 DEF AdmittedIn, Admitted, Holding, RwKnown, RwCalls, Rw
  <2>3. (AdmittedIn(mode) \ {c}) \cap Of(mode) = {}
    BY <1>4 DEF AdmittedIn, Admitted, Holding
  <2>4. Of(mode) \in SUBSET Call /\ (AdmittedIn(mode) \ {c}) \in SUBSET Call
    BY <2>1 DEF AdmittedIn, Admitted
  <2> QED
    BY <2>2, <2>3, <2>4, FakeAssumption, FS_Subset
<1>7. Reads' = (Reads \ {c}) \cup Of("read") /\ Writes' = (Writes \ {c}) \cup Of("write")
  BY <1>6 DEF Reads, Writes
<1>8. rw'.readers = Cardinality(Reads') /\ rw'.readers \in Nat
  <2>1. /\ IsFiniteSet(Reads \ {c}) /\ IsFiniteSet(Of("read")) /\ (Reads \ {c}) \cap Of("read") = {}
        /\ s.readers = Cardinality(Reads \ {c}) /\ rw'.readers = s.readers + Cardinality(Of("read"))
    BY <1>1, <1>6 DEF Reads, Unpumped
  <2> HIDE DEF Of
  <2>2. Cardinality((Reads \ {c}) \cup Of("read")) = Cardinality(Reads \ {c}) + Cardinality(Of("read")) - Cardinality((Reads \ {c}) \cap Of("read"))
    BY <2>1, FS_Union
  <2>3. Cardinality((Reads \ {c}) \cap Of("read")) = 0
    BY <2>1, FS_EmptySet
  <2>4. Cardinality(Reads \ {c}) \in Nat /\ Cardinality(Of("read")) \in Nat
    BY <2>1, FS_CardinalityType
  <2> QED
    BY <1>7, <2>1, <2>2, <2>3, <2>4
<1>9. rw'.writing = (Writes' # {}) /\ rw'.writing \in BOOLEAN
  BY <1>1, <1>2, <1>7 DEF Unpumped
\* What has been granted: nothing, one write that nobody excludes, or reads only.
<1>10. \/ n = 0
       \/ /\ n = 1 /\ C = {s.queue[1]} /\ ModeOf[s.queue[1]] = "write"
          /\ ~s.writing /\ s.readers = 0 /\ s.queue # << >>
       \/ /\ n > 0 /\ ~s.writing /\ \A d \in C : ModeOf[d] = "read"
          /\ n < Len(s.queue) => ModeOf[s.queue[n + 1]] = "write"
  <2>1. CASE s.writing \/ s.queue = << >>
    BY <1>1, <2>1 DEF Grants
  <2>2. CASE ~s.writing /\ s.queue # << >>
    <3>1. 1 \in 1 .. Len(s.queue) /\ Head(s.queue) = s.queue[1]
      BY <1>2, <2>2, ListFront
    <3>2. CASE ModeOf[Head(s.queue)] = "write"
      <4>1. n = IF s.readers = 0 THEN 1 ELSE 0
        BY <1>1, <2>2, <3>2 DEF Grants
      <4>2. n = 1 => C = {s.queue[1]}
        BY DEF C
      <4> QED
        BY <2>2, <3>1, <3>2, <4>1, <4>2
    <3>3. CASE ModeOf[Head(s.queue)] # "write"
      <4>1. /\ \A i \in 1 .. n : ModeOf[s.queue[i]] = "read"
            /\ n < Len(s.queue) => ModeOf[s.queue[n + 1]] = "write"
        BY <1>1, <2>2, <3>3 DEF Grants
      <4>2. n # 0
        BY <1>2, <3>1, <3>3, <4>1
      <4> QED
        BY <2>2, <4>1, <4>2 DEF C
    <3> QED
      BY <3>2, <3>3
  <2> QED
    BY <1>2, <2>1, <2>2
<1>11. s.readers = 0 => Reads \ {c} = {}
  BY <1>6, FS_EmptySet DEF Unpumped, Reads
<1>12. n = 0 => C = {}
  BY DEF C
<1>13. Writes' # {} => Reads' = {}
  BY <1>7, <1>10, <1>11, <1>12 DEF Unpumped
<1>14. \A d, e \in Writes' : d = e
  BY <1>7, <1>10, <1>12 DEF Unpumped
<1>15. rest # << >> => Writes' # {} \/ (Reads' # {} /\ ModeOf[Head(rest)] = "write")
  <2> SUFFICES ASSUME rest # << >>, Writes' = {} PROVE Reads' # {} /\ ModeOf[Head(rest)] = "write"
    OBVIOUS
  <2>1. rest \in Seq(Call)
    BY <1>5 DEF ListOf
  <2>2. /\ 1 \in 1 .. Len(rest) /\ Head(rest) = rest[1] /\ Len(rest) = Len(s.queue) - n
        /\ \A i \in 1 .. Len(s.queue) - n : rest[i] = s.queue[n + i]
    BY <1>5, <2>1, ListFront
  <2>3. n < Len(s.queue) /\ Head(rest) = s.queue[n + 1] /\ s.queue # << >> /\ ~s.writing
    <3>1. 1 \in 1 .. Len(s.queue) - n
      BY <2>2
    <3>2. n < Len(s.queue) /\ Head(rest) = s.queue[n + 1]
      BY <1>2, <2>2, <3>1
    <3> QED
      BY <1>2, <1>7, <3>2, EmptySeq DEF Unpumped
  <2>4. CASE n = 0
    <3>1. 1 \in 1 .. Len(s.queue) /\ Head(s.queue) = s.queue[1] /\ s.queue[n + 1] = s.queue[1]
      BY <1>2, <2>3, <2>4, ListFront
    <3>2. ModeOf[Head(s.queue)] = "write" /\ s.readers # 0
      BY <1>1, <2>3, <2>4, <3>1 DEF Grants
    <3>3. Reads \ {c} # {}
      BY <3>2, FS_EmptySet DEF Unpumped
    <3> QED
      BY <1>7, <2>3, <3>1, <3>2, <3>3
  <2>5. CASE n = 1 /\ C = {s.queue[1]} /\ ModeOf[s.queue[1]] = "write"
    BY <1>7, <2>5
  <2>6. CASE n > 0 /\ (\A d \in C : ModeOf[d] = "read") /\ (n < Len(s.queue) => ModeOf[s.queue[n + 1]] = "write")
    <3>0. 1 \in 1 .. n
      BY ONLY <1>0, <2>6
    <3>1. s.queue[1] \in C
      BY ONLY <3>0 DEF C
    <3> QED
      BY <1>7, <2>3, <2>6, <3>1
  <2> QED
    BY <1>10, <2>4, <2>5, <2>6
<1>16. rw' \in [readers : Nat, writing : BOOLEAN, queue : Seq(Call)] /\ rw'.queue = rest
  <2>1. rw' = [readers |-> rw'.readers, writing |-> rw'.writing, queue |-> rest]
    BY ONLY <1>1
  <2>2. rest \in Seq(Call)
    BY <1>5 DEF ListOf
  <2> QED
    <3>1. rw'.readers \in Nat /\ rw'.writing \in BOOLEAN
      BY <1>8, <1>9
    <3> QED
      BY ONLY <2>1, <2>2, <3>1
<1> QED
  BY <1>1, <1>5, <1>8, <1>9, <1>13, <1>14, <1>15, <1>16 DEF RwInv, RwKnown, RwCalls, Rw

\* A call that arrives is appended, and has not been admitted.
LEMMA AcquiredUnpumped ==
    ASSUME LifeInv, RwInv, NEW c \in Call, AcquireRw(c)
    PROVE  /\ Unpumped([rw EXCEPT !.queue = Append(@, c)], c, "waiting")
           /\ Pump([rw EXCEPT !.queue = Append(@, c)], c, "waiting")
<1> DEFINE q == [pc EXCEPT ![c] = "waiting"]
<1>1. /\ c \in RwCalls /\ pc[c] = "idle" /\ c \notin abandoned /\ Rw(c) /\ Arrives(c)
      /\ pc \in [Call -> {"idle", "waiting", "granted", "running", "done"}]
  BY DEF AcquireRw, LifeInv, RwCalls
<1>2. Reads \ {c} = Reads /\ Writes \ {c} = Writes
  BY <1>1 DEF Reads, Writes, AdmittedIn, Admitted, Holding
<1>3. /\ arrived' \in [Call -> Nat]
      /\ \A d \in RwKnown \ {c} : arrived'[d] = arrived[d] /\ arrived[d] < arrived'[c]
  BY <1>1, NextArrival DEF RwKnown, RwCalls
<1>4. /\ ListOf(rw.queue, RwKnown, pc, arrived) /\ RwKnown \in SUBSET Call /\ c \in RwKnown
      /\ q[c] = "waiting" /\ pc[c] # "waiting"
      /\ \A d \in RwKnown \ {c} : pc[d] = "waiting" => q[d] = "waiting"
  BY <1>1 DEF RwInv, RwKnown, RwCalls
<1>5. ListOf(Append(rw.queue, c), RwKnown, q, arrived')
  <2> HIDE DEF q
  <2> QED
    BY <1>1, <1>3, <1>4, ListGrows
<1>6. Append(rw.queue, c) \in Seq(Call)
  BY <1>5 DEF ListOf
<1>7. /\ rw \in [readers : Nat, writing : BOOLEAN, queue : Seq(Call)]
      /\ rw.readers = Cardinality(Reads) /\ rw.writing = (Writes # {})
      /\ Writes # {} => Reads = {}
      /\ \A d, e \in Writes : d = e
  BY Zenon DEF RwInv
<1>9. /\ [rw EXCEPT !.queue = Append(@, c)] = [readers |-> rw.readers, writing |-> rw.writing, queue |-> Append(rw.queue, c)]
      /\ rw.readers \in Nat /\ rw.writing \in BOOLEAN
  <2>1. rw \in [readers : Nat, writing : BOOLEAN, queue : Seq(Call)]
    BY <1>7
  <2>2. /\ rw = [readers |-> rw.readers, writing |-> rw.writing, queue |-> rw.queue]
        /\ rw.readers \in Nat /\ rw.writing \in BOOLEAN
    BY ONLY <2>1
  <2>3. ASSUME NEW x
        PROVE  [rw EXCEPT !.queue = x] = [readers |-> rw.readers, writing |-> rw.writing, queue |-> x]
    BY ONLY <2>2
  <2> QED
    BY <2>2, <2>3
<1> HIDE DEF q
<1>8. Unpumped([rw EXCEPT !.queue = Append(@, c)], c, "waiting")
  BY ONLY <1>1, <1>2, <1>3, <1>5, <1>6, <1>7, <1>9 DEF Unpumped, q
<1> QED
  BY <1>8 DEF AcquireRw

\* A call that leaves has been counted, and is not any more.
LEMMA ReleasedUnpumped ==
    ASSUME LifeInv, RwInv, NEW c \in Call, ReleaseRw(c)
    PROVE  Unpumped(RwWithout(c), c, "done") /\ Pump(RwWithout(c), c, "done")
<1> DEFINE q == [pc EXCEPT ![c] = "done"]
<1>1. /\ c \in RwCalls /\ pc[c] = "running" /\ c \notin abandoned /\ Rw(c) /\ arrived' = arrived
      /\ arrived \in [Call -> Nat]
      /\ pc \in [Call -> {"idle", "waiting", "granted", "running", "done"}]
  BY DEF ReleaseRw, LifeInv, RwCalls
<1>2. \A d \in RwKnown : pc[d] = "waiting" => q[d] = "waiting" /\ arrived'[d] = arrived[d]
  BY <1>1 DEF RwKnown, RwCalls
<1>3. ListOf(rw.queue, RwKnown, q, arrived')
  <2> HIDE DEF q
  <2> QED
    BY <1>2, ListKept DEF RwInv
<1>4. /\ rw = [readers |-> rw.readers, writing |-> rw.writing, queue |-> rw.queue]
      /\ rw.readers \in Nat /\ rw.writing \in BOOLEAN /\ rw.queue \in Seq(Call)
      /\ rw.readers = Cardinality(Reads) /\ rw.writing = (Writes # {})
      /\ Writes # {} => Reads = {}
      /\ \A d, e \in Writes : d = e
  BY DEF RwInv
<1>5. IsFiniteSet(Reads) /\ Cardinality(Reads) \in Nat
  BY KindsFinite DEF Reads
<1>6. CASE ModeOf[c] = "read"
  <2>1. c \in Reads /\ c \notin Writes
    BY <1>1, <1>6 DEF Reads, Writes, AdmittedIn, Admitted, Holding
  <2>2. Cardinality(Reads \ {c}) = Cardinality(Reads) - 1 /\ Cardinality(Reads \ {c}) \in Nat
    BY <1>5, <2>1, FS_RemoveElement, FS_CardinalityType
  <2>3. RwWithout(c) = [readers |-> Cardinality(Reads \ {c}), writing |-> rw.writing, queue |-> rw.queue]
    <3>1. rw.readers > 0 /\ rw.readers - 1 = Cardinality(Reads \ {c})
      BY <1>4, <1>5, <2>2
    <3>2. (IF rw.readers > 0 THEN rw.readers - 1 ELSE 0) = Cardinality(Reads \ {c})
      BY <3>1
    <3> QED
      BY <1>4, <1>6, <3>2 DEF RwWithout
  <2>4. Writes \ {c} = Writes
    BY <2>1
  <2> HIDE DEF q
  <2>5. Unpumped(RwWithout(c), c, "done")
    BY <1>1, <1>3, <1>4, <2>2, <2>3, <2>4 DEF Unpumped, q
  <2> QED
    BY <2>5 DEF ReleaseRw
<1>7. CASE ModeOf[c] = "write"
  <2>1. c \in Writes /\ Reads = {} /\ Reads \ {c} = Reads /\ Writes \ {c} = {}
    BY <1>1, <1>4, <1>7 DEF Reads, Writes, AdmittedIn, Admitted, Holding
  <2>2. RwWithout(c) = [readers |-> rw.readers, writing |-> FALSE, queue |-> rw.queue]
    BY <1>4, <1>7 DEF RwWithout
  <2> HIDE DEF q
  <2>4. RwWithout(c) \in [readers : Nat, writing : BOOLEAN, queue : Seq(Call)]
    BY ONLY <1>4, <2>2
  <2>5. /\ RwWithout(c).readers = Cardinality(Reads \ {c})
        /\ RwWithout(c).writing = (Writes \ {c} # {})
        /\ RwWithout(c).queue = rw.queue
    <3>1. /\ RwWithout(c).readers = rw.readers /\ RwWithout(c).writing = FALSE
          /\ RwWithout(c).queue = rw.queue
      BY ONLY <2>2
    <3> QED
      BY <1>4, <2>1, <3>1
  <2>3. Unpumped(RwWithout(c), c, "done")
    BY ONLY <1>1, <1>3, <2>1, <2>4, <2>5 DEF Unpumped, q
  <2> QED
    BY <2>3 DEF ReleaseRw
<1> QED
  BY <1>1, <1>6, <1>7 DEF Rw

\* Every step keeps the readers and writers counted, excluded and pumped.
LEMMA RwKept ==
    ASSUME LifeInv, SlotInv, RwInv, [Next]_fakeVars
    PROVE  RwInv'
<1>1. ASSUME NEW c \in Call, AcquireRw(c) PROVE RwInv'
  BY <1>1, AcquiredUnpumped, Pumped
<1>2. ASSUME NEW c \in Call, ReleaseRw(c) PROVE RwInv'
  BY <1>2, ReleasedUnpumped, Pumped
<1>3. ASSUME NEW c \in Call, SlotStep(c) PROVE RwInv'
  BY <1>3, SlotStepMoves, RwAside
<1>4. CASE (\E c \in Call : SideStep(c)) \/ TestStep \/ UNCHANGED fakeVars
  BY <1>4, SideStepMoves, RwAside DEF history
<1>5. CASE ResetQueueState
  BY <1>5, ResetEmpties
<1> QED
  BY <1>1, <1>2, <1>3, <1>4, <1>5, Steps DEF RwStep

-----------------------------------------------------------------------------
(* Lives of calls.                                                         *)

\* The calls of C are granted their place, and c goes to the given one.
Moves(C, c, place) ==
    /\ pc' = [d \in Call |-> IF d \in C THEN "granted" ELSE IF d = c THEN place ELSE pc[d]]
    /\ Granted(C)
    /\ UNCHANGED <<locked, fence, token, aborted, bounds>>

\* They have not been admitted before, and c comes or goes.
Movable(C, c, place) ==
    /\ C \subseteq SlotsKnown \cup RwKnown
    /\ \A d, e \in C : Rw(d) = Rw(e)
    /\ \A d \in C : pc[d] = "waiting" \/ (d = c /\ pc[c] = "idle")
    /\ \/ pc[c] = "idle" /\ place = "waiting" /\ c \in SlotCalls \cup RwCalls
       \/ pc[c] = "running" /\ place = "done" /\ c \notin Leaked
    /\ arrived' \in [Call -> Nat] /\ Numbered(arrived')
    /\ \A d \in Call : d # c => arrived'[d] = arrived[d]

\* The call moves, with those it hands over to.
Lives(c) == \E C \in SUBSET Call : \E place : Movable(C, c, place) /\ Moves(C, c, place)

\* The lives of all calls go on as they should.
LEMMA MovesKeep ==
    ASSUME LifeInv, NEW c \in Call, NEW C, NEW place, Movable(C, c, place), Moves(C, c, place)
    PROVE  LifeInv'
<1>1. /\ C \in SUBSET Call /\ C \subseteq SlotCalls \cup RwCalls /\ C \cap abandoned = {}
      /\ \A d, e \in C : Rw(d) = Rw(e)
      /\ \A d \in C : pc[d] = "waiting" \/ (d = c /\ pc[c] = "idle")
      /\ \/ pc[c] = "idle" /\ place = "waiting" /\ c \in SlotCalls \cup RwCalls
         \/ pc[c] = "running" /\ place = "done" /\ c \notin Leaked
  BY DEF Movable, SlotsKnown, RwKnown, SlotCalls, RwCalls
<1>2. arrived' \in [Call -> Nat] /\ Numbered(arrived)' /\ \A d \in Call : d # c => arrived'[d] = arrived[d]
  BY DEF Movable, Numbered, Number
<1>3. /\ pc' = [d \in Call |-> IF d \in C THEN "granted" ELSE IF d = c THEN place ELSE pc[d]]
      /\ Granted(C) /\ abandoned' = abandoned
      /\ UNCHANGED <<locked, fence, token, aborted, resets, toggles>>
  BY DEF Moves, Granted, bounds
<1>4. \A d \in C : order[d] = 0 /\ token[d] = 0
  BY <1>1 DEF LifeInv
<1>5. /\ order' \in [Call -> Nat] /\ Numbered(order)'
      /\ \A d \in Call \ C : order'[d] = order[d]
      /\ \A d \in C : order'[d] # 0
  <2>1. /\ order' \in [Call -> Nat] /\ Numbered(order')
        /\ \A d \in Call \ C : order'[d] = order[d]
        /\ \A d \in C : order'[d] # 0 /\ \A e \in Call \ C : Rw(d) = Rw(e) => order[e] < order'[d]
    BY <1>1, <1>2, <1>3, <1>4, NextGrants
  <2> QED
    BY <2>1 DEF Numbered, Number
<1>6. pc' \in [Call -> {"idle", "waiting", "granted", "running", "done"}]
  BY <1>1, <1>3 DEF LifeInv
<1>7. \A d \in abandoned' : pc'[d] = "waiting" \/ (d \in Leaked /\ pc'[d] = "running")
  <2>1. \A d \in abandoned : d \in Call /\ (pc[d] = "waiting" \/ (d \in Leaked /\ pc[d] = "running"))
    BY DEF LifeInv
  <2> QED
    BY <1>1, <1>3, <2>1
<1>8. ASSUME NEW d \in Call
      PROVE  /\ pc'[d] \in {"waiting", "granted"} => d \in SlotCalls \cup RwCalls
             /\ pc'[d] = "idle" => arrived'[d] = 0
             /\ pc'[d] \in {"idle", "waiting"} => order'[d] = 0
             /\ pc'[d] \in {"idle", "waiting", "granted"} => token'[d] = 0
             /\ Holding(d)' /\ d \in SlotCalls \cup RwCalls => order'[d] # 0
             /\ token'[d] # 0 /\ d \in SlotCalls \cup RwCalls => order'[d] # 0
             /\ token'[d] <= fence'
  <2>1. /\ pc[d] \in {"waiting", "granted"} => d \in SlotCalls \cup RwCalls
        /\ pc[d] = "idle" => arrived[d] = 0
        /\ pc[d] \in {"idle", "waiting"} => order[d] = 0
        /\ pc[d] \in {"idle", "waiting", "granted"} => token[d] = 0
        /\ pc[d] \in {"granted", "running"} /\ d \in SlotCalls \cup RwCalls => order[d] # 0
        /\ token[d] # 0 /\ d \in SlotCalls \cup RwCalls => order[d] # 0
        /\ token[d] <= fence
    BY DEF LifeInv, Holding
  <2>2. CASE d \in C
    <3>1. pc'[d] = "granted" /\ order'[d] # 0 /\ token'[d] = 0 /\ d \in SlotCalls \cup RwCalls
      BY <1>1, <1>3, <1>4, <1>5, <2>2
    <3> QED
      BY <1>3, <1>4, <2>1, <2>2, <3>1
  <2>3. CASE d \notin C /\ d = c
    <3>1. pc'[d] = place /\ order'[d] = order[d] /\ token'[d] = token[d] /\ fence' = fence
      BY <1>3, <1>5, <2>3
    <3> QED
      BY <1>1, <2>1, <2>3, <3>1 DEF Holding
  <2>4. CASE d \notin C /\ d # c
    <3>1. /\ pc'[d] = pc[d] /\ order'[d] = order[d] /\ token'[d] = token[d] /\ fence' = fence
          /\ arrived'[d] = arrived[d]
      BY <1>2, <1>3, <1>5, <2>4
    <3> QED
      BY <2>1, <3>1 DEF Holding
  <2> QED
    BY <2>2, <2>3, <2>4
<1>9. /\ locked' \in BOOLEAN /\ aborted' \subseteq Call /\ fence' \in Nat /\ token' \in [Call -> Nat]
      /\ resets' \in Nat /\ toggles' \in Nat /\ abandoned' \subseteq Call
  BY <1>3 DEF LifeInv
<1> QED
  BY <1>2, <1>5, <1>6, <1>7, <1>8, <1>9 DEF LifeInv, SlotCalls, RwCalls, Rw

\* Pumping moves the front of the queue, and the others keep their turn.
LEMMA PumpSplits ==
    ASSUME LifeInv, NEW c, NEW s, NEW place, Unpumped(s, c, place), Pump(s, c, place)
    PROVE  \E C \in SUBSET RwKnown :
            /\ pc' = [d \in Call |-> IF d \in C THEN "granted" ELSE IF d = c THEN place ELSE pc[d]]
            /\ Granted(C)
            /\ \A d \in C : pc[d] = "waiting" \/ (d = c /\ place = "waiting")
            /\ \A i \in 1 .. Len(s.queue) :
                \/ s.queue[i] \in C
                \/ /\ \E j \in 1 .. Len(rw'.queue) : rw'.queue[j] = s.queue[i]
                   /\ \A d \in C : arrived'[d] < arrived'[s.queue[i]]
<1> PICK n \in 0 .. Len(s.queue) :
        LET C == {s.queue[i] : i \in 1 .. n}
            Of(mode) == {d \in C : ModeOf[d] = mode}
        IN  /\ Grants(s, n)
            /\ rw' = [readers |-> s.readers + Cardinality(Of("read")),
                      writing |-> s.writing \/ Of("write") # {},
                      queue |-> SubSeq(s.queue, n + 1, Len(s.queue))]
            /\ pc' = [d \in Call |-> IF d \in C THEN "granted"
                                     ELSE IF d = c THEN place ELSE pc[d]]
            /\ Granted(C)
  BY DEF Pump
<1> DEFINE C == {s.queue[i] : i \in 1 .. n}
           rest == SubSeq(s.queue, n + 1, Len(s.queue))
           q == [pc EXCEPT ![c] = place]
<1>1. /\ pc' = [d \in Call |-> IF d \in C THEN "granted" ELSE IF d = c THEN place ELSE pc[d]]
      /\ Granted(C) /\ rw'.queue = rest
  BY Zenon
<1>2. /\ c \in Call /\ place \in {"waiting", "done"} /\ s.queue \in Seq(Call) /\ Len(s.queue) \in Nat
      /\ ListOf(s.queue, RwKnown, q, arrived')
      /\ pc \in [Call -> {"idle", "waiting", "granted", "running", "done"}]
      /\ n \in Nat /\ n <= Len(s.queue) /\ \A i \in 1 .. n : i \in 1 .. Len(s.queue)
  BY DEF Unpumped, RwCalls, LifeInv
<1>3. \A i \in 1 .. Len(s.queue) : s.queue[i] \in RwKnown /\ q[s.queue[i]] = "waiting"
  BY <1>2 DEF ListOf
<1>4. C \in SUBSET RwKnown /\ \A d \in C : d \in Call /\ q[d] = "waiting"
  <2>1. C \in SUBSET RwKnown /\ \A d \in C : q[d] = "waiting"
    BY <1>2, <1>3
  <2> QED
    BY <2>1 DEF RwKnown, RwCalls
<1>5. ASSUME NEW d \in C PROVE pc[d] = "waiting" \/ (d = c /\ place = "waiting")
  BY <1>2, <1>4
<1>6. ASSUME NEW i \in 1 .. Len(s.queue), s.queue[i] \notin C
      PROVE  /\ \E j \in 1 .. Len(rw'.queue) : rw'.queue[j] = s.queue[i]
             /\ \A d \in C : arrived'[d] < arrived'[s.queue[i]]
  <2>1. i > n
    <3>1. i \notin 1 .. n
      BY <1>6
    <3> QED
      BY ONLY <1>2, <3>1, i \in 1 .. Len(s.queue)
  <2>2. \A d \in C : arrived'[d] < arrived'[s.queue[i]]
    <3>1. \A j \in 1 .. n : j \in 1 .. Len(s.queue) /\ j < i
      BY <1>2, <2>1
    <3>2. \A j \in 1 .. n : arrived'[s.queue[j]] < arrived'[s.queue[i]]
      BY <1>2, <3>1 DEF ListOf
    <3> QED
      BY <3>2
  <2>3. /\ rest \in Seq(Call) /\ Len(rest) = Len(s.queue) - n
        /\ \A k \in 1 .. Len(s.queue) - n : rest[k] = s.queue[n + k]
    <3>1. \A k \in n + 1 .. Len(s.queue) : s.queue[k] \in Call
      BY <1>2
    <3> QED
      BY <1>2, <3>1, SubSeqProperties
  <2>4. i - n \in 1 .. Len(s.queue) - n /\ n + (i - n) = i
    BY <1>2, <2>1
  <2> HIDE DEF C, rest
  <2>5. rest[i - n] = s.queue[i] /\ i - n \in 1 .. Len(rest)
    BY ONLY <2>3, <2>4
  <2>6. rw'.queue = rest
    BY <1>1
  <2> QED
    BY ONLY <2>2, <2>5, <2>6
<1> HIDE DEF C
<1> QED
  BY <1>1, <1>4, <1>5, <1>6

\* Only readers and writers are granted a place by pumping.
LEMMA RwGrants ==
    ASSUME LifeInv, RwInv, NEW c \in Call, RwStep(c)
    PROVE  \E C \in SUBSET RwCalls : Granted(C)
<1> DEFINE s == IF AcquireRw(c) THEN [rw EXCEPT !.queue = Append(@, c)] ELSE RwWithout(c)
           place == IF AcquireRw(c) THEN "waiting" ELSE "done"
<1>1. Unpumped(s, c, place) /\ Pump(s, c, place)
  BY AcquiredUnpumped, ReleasedUnpumped DEF RwStep
<1> HIDE DEF s, place
<1>2. \E C \in SUBSET RwKnown : Granted(C)
  BY <1>1, PumpSplits
<1> QED
  BY <1>2 DEF RwKnown

\* The calls that use the queue go on as they should.
LEMMA RwStepLives ==
    ASSUME LifeInv, RwInv, NEW c \in Call, RwStep(c)
    PROVE  Lives(c)
<1>0. RwKnown \subseteq Call
  BY DEF RwKnown, RwCalls
<1>1. CASE AcquireRw(c)
  <2>1. PICK C \in SUBSET RwKnown :
          /\ pc' = [d \in Call |-> IF d \in C THEN "granted" ELSE IF d = c THEN "waiting" ELSE pc[d]]
          /\ Granted(C)
          /\ \A d \in C : pc[d] = "waiting" \/ (d = c /\ "waiting" = "waiting")
    <3> DEFINE s == [rw EXCEPT !.queue = Append(@, c)]
    <3>1. Unpumped(s, c, "waiting") /\ Pump(s, c, "waiting")
      BY <1>1, AcquiredUnpumped
    <3> HIDE DEF s
    <3> QED
      BY <3>1, PumpSplits
  <2>2. /\ c \in SlotCalls \cup RwCalls /\ pc[c] = "idle"
        /\ arrived' \in [Call -> Nat] /\ Numbered(arrived') /\ \A d \in Call : d # c => arrived'[d] = arrived[d]
    BY <1>1, NextArrival DEF AcquireRw, RwCalls
  <2>3. \A d, e \in C : Rw(d) = Rw(e)
    BY DEF RwKnown, RwCalls, Rw
  <2>4. Movable(C, c, "waiting")
    BY <2>1, <2>2, <2>3 DEF Movable
  <2>5. Moves(C, c, "waiting")
    BY <1>1, <2>1 DEF Moves, AcquireRw, bounds
  <2> QED
    BY <1>0, <2>4, <2>5 DEF Lives
<1>2. CASE ReleaseRw(c)
  <2>1. PICK C \in SUBSET RwKnown :
          /\ pc' = [d \in Call |-> IF d \in C THEN "granted" ELSE IF d = c THEN "done" ELSE pc[d]]
          /\ Granted(C)
          /\ \A d \in C : pc[d] = "waiting" \/ (d = c /\ "done" = "waiting")
    BY <1>2, ReleasedUnpumped, PumpSplits
  <2>2. /\ pc[c] = "running" /\ c \notin Leaked
        /\ arrived' \in [Call -> Nat] /\ Numbered(arrived') /\ arrived' = arrived
    BY <1>2 DEF ReleaseRw, LifeInv
  <2>3. \A d, e \in C : Rw(d) = Rw(e)
    BY DEF RwKnown, RwCalls, Rw
  <2>4. Movable(C, c, "done")
    BY <2>1, <2>2, <2>3 DEF Movable
  <2>5. Moves(C, c, "done")
    BY <1>2, <2>1 DEF Moves, ReleaseRw, bounds
  <2> QED
    BY <1>0, <2>4, <2>5 DEF Lives
<1> QED
  BY <1>1, <1>2 DEF RwStep

\* So does a call that leaves and hands over to nobody.
LEMMA LeaveLives ==
    ASSUME LifeInv, NEW c \in Call, pc[c] = "running", c \notin Leaked,
           pc' = [pc EXCEPT ![c] = "done"],
           UNCHANGED <<locked, fence, token, aborted, bounds, history>>
    PROVE  Lives(c)
<1>1. Movable({}, c, "done")
  BY DEF Movable, LifeInv, history
<1>2. pc' = [d \in Call |-> IF d \in {} THEN "granted" ELSE IF d = c THEN "done" ELSE pc[d]]
  BY DEF LifeInv
<1>3. order' = [d \in Call |-> IF d \in {} THEN Number(order, d) + Cardinality({e \in {} : arrived'[e] < arrived'[d]}) ELSE order[d]]
  BY DEF LifeInv, history
<1>4. Moves({}, c, "done")
  BY <1>2, <1>3 DEF Moves, Granted, bounds, history
<1> QED
  BY <1>1, <1>4 DEF Lives

\* So do those that use the slots.
LEMMA SlotStepLives ==
    ASSUME LifeInv, SlotInv, NEW c \in Call, SlotStep(c)
    PROVE  Lives(c)
<1>1. CASE TakeSlot(c)
  <2>1. /\ c \in SlotCalls \cup RwCalls /\ c \in SlotsKnown
        /\ pc[c] = "idle" /\ pc' = [pc EXCEPT ![c] = "granted"]
        /\ arrived' \in [Call -> Nat] /\ Numbered(arrived') /\ \A d \in Call : d # c => arrived'[d] = arrived[d]
    BY <1>1, NextArrival DEF TakeSlot, SlotsKnown, SlotCalls, LifeInv
  <2>2. Movable({c}, c, "waiting")
    BY <2>1 DEF Movable
  <2>3. pc' = [d \in Call |-> IF d \in {c} THEN "granted" ELSE IF d = c THEN "waiting" ELSE pc[d]]
    BY <2>1 DEF LifeInv
  <2>4. Moves({c}, c, "waiting")
    BY <1>1, <2>3 DEF Moves, TakeSlot, bounds
  <2> QED
    BY <2>2, <2>4 DEF Lives
<1>2. CASE WaitForSlot(c)
  <2>1. /\ c \in SlotCalls \cup RwCalls /\ pc[c] = "idle" /\ pc' = [pc EXCEPT ![c] = "waiting"]
        /\ arrived' \in [Call -> Nat] /\ Numbered(arrived') /\ \A d \in Call : d # c => arrived'[d] = arrived[d]
    BY <1>2, NextArrival DEF WaitForSlot, SlotCalls
  <2>2. Movable({}, c, "waiting")
    BY <2>1 DEF Movable
  <2>3. pc' = [d \in Call |-> IF d \in {} THEN "granted" ELSE IF d = c THEN "waiting" ELSE pc[d]]
    BY <2>1 DEF LifeInv
  <2>4. order' = [d \in Call |-> IF d \in {} THEN Number(order, d) + Cardinality({e \in {} : arrived'[e] < arrived'[d]}) ELSE order[d]]
    BY <1>2 DEF WaitForSlot, LifeInv
  <2>5. Moves({}, c, "waiting")
    BY <1>2, <2>3, <2>4 DEF Moves, WaitForSlot, Granted, bounds
  <2> QED
    BY <2>2, <2>5 DEF Lives
<1>3. CASE HandSlot(c)
  <2> DEFINE h == Head(sem.waiters)
  <2>1. /\ h \in SlotsKnown /\ h \in Call /\ pc[h] = "waiting" /\ pc[c] = "running" /\ c \notin Leaked
        /\ pc' = [pc EXCEPT ![c] = "done", ![h] = "granted"] /\ Granted({h})
        /\ arrived' = arrived /\ arrived \in [Call -> Nat] /\ Numbered(arrived)
    BY <1>3, HandSlotKeeps DEF HandSlot, LifeInv, SlotsKnown, SlotCalls
  <2> HIDE DEF h
  <2>2. Movable({h}, c, "done")
    BY <2>1 DEF Movable
  <2>3. pc' = [d \in Call |-> IF d \in {h} THEN "granted" ELSE IF d = c THEN "done" ELSE pc[d]]
    BY <2>1 DEF LifeInv
  <2>4. Moves({h}, c, "done")
    BY <1>3, <2>1, <2>3 DEF Moves, HandSlot, bounds
  <2> QED
    BY <2>1, <2>2, <2>4 DEF Lives
<1>4. CASE DropSlot(c)
  BY <1>4, LeaveLives DEF DropSlot
<1> QED
  BY <1>1, <1>2, <1>3, <1>4 DEF SlotStep

\* Every step does, if a test resets only between its calls.
LEMMA LivesKept ==
    ASSUME Careful, LifeInv, SlotInv, RwInv, [Next]_fakeVars
    PROVE  LifeInv'
<1>0. UNCHANGED history => Numbered(arrived)' /\ Numbered(order)'
  BY DEF history, LifeInv, Numbered, Number
<1>1. ASSUME NEW c \in Call, EndPlain(c) PROVE LifeInv'
  BY <1>1, LeaveLives, MovesKeep DEF EndPlain, Lives
<1>2. ASSUME NEW c \in Call, Refuse(c) PROVE LifeInv'
  BY <1>0, <1>2 DEF Refuse, LifeInv, Holding, history, bounds, SlotCalls, RwCalls, Rw
<1>3. ASSUME NEW c \in Call, Plain(c) \/ Resume(c) PROVE LifeInv'
  <2> DEFINE place == pc'[c]
  <2>1. /\ pc \in [Call -> {"idle", "waiting", "granted", "running", "done"}]
        /\ token \in [Call -> Nat] /\ fence \in Nat /\ \A d \in Call : token[d] <= fence
        /\ \A d \in abandoned : pc[d] \in {"waiting", "running"}
    BY DEF LifeInv
  <2>2. /\ pc' = [pc EXCEPT ![c] = place] /\ place \in {"running", "done"} /\ c \notin abandoned
        /\ fence' = fence + 1 /\ token' = [token EXCEPT ![c] = fence + 1]
        /\ pc[c] = "granted" \/ c \notin SlotCalls \cup RwCalls
        /\ UNCHANGED <<locked, aborted, bounds, history>>
    BY <1>3, <2>1 DEF Plain, Resume, IssueToken, SlotCalls, RwCalls, Rw
  <2>3. /\ token' \in [Call -> Nat] /\ fence' \in Nat /\ token'[c] = fence' /\ fence' # 0
        /\ \A d \in Call \ {c} : token'[d] = token[d] /\ pc'[d] = pc[d]
        /\ \A d \in Call : token'[d] <= fence'
        /\ pc' \in [Call -> {"idle", "waiting", "granted", "running", "done"}]
    BY ONLY <2>1, <2>2
  <2> HIDE DEF place
  <2>4. ASSUME NEW d \in Call
        PROVE  /\ pc'[d] \in {"waiting", "granted"} => d \in SlotCalls \cup RwCalls
               /\ pc'[d] = "idle" => arrived'[d] = 0
               /\ pc'[d] \in {"idle", "waiting"} => order'[d] = 0
               /\ pc'[d] \in {"idle", "waiting", "granted"} => token'[d] = 0
               /\ Holding(d)' /\ d \in SlotCalls \cup RwCalls => order'[d] # 0
               /\ token'[d] # 0 /\ d \in SlotCalls \cup RwCalls => order'[d] # 0
    <3>1. CASE d = c
      BY <2>1, <2>2, <2>3, <3>1 DEF LifeInv, Holding, history, place
    <3>2. CASE d # c
      BY <2>2, <2>3, <3>2 DEF LifeInv, Holding, history
    <3> QED
      BY <3>1, <3>2
  <2> QED
    BY <1>0, <2>2, <2>3, <2>4 DEF LifeInv, history, bounds, SlotCalls, RwCalls, Rw
<1>4. ASSUME NEW c \in Call, SlotStep(c) PROVE LifeInv'
  BY <1>4, SlotStepLives, MovesKeep DEF Lives
<1>5. ASSUME NEW c \in Call, RwStep(c) PROVE LifeInv'
  BY <1>5, RwStepLives, MovesKeep DEF Lives
<1>6. CASE TestStep \/ UNCHANGED fakeVars
  <2>1. /\ UNCHANGED <<pc, fence, token, resets, history>>
        /\ locked' \in BOOLEAN /\ aborted' \subseteq Call /\ toggles' \in Nat
    <3>1. locked \in BOOLEAN /\ aborted \subseteq Call /\ toggles \in Nat
      BY DEF LifeInv
    <3>2. CASE SimulateLocked
      BY ONLY <3>1, <3>2 DEF SimulateLocked
    <3>3. CASE SimulateLockLoss
      BY ONLY <3>1, <3>3 DEF SimulateLockLoss
    <3>4. CASE UNCHANGED fakeVars
      BY ONLY <3>1, <3>4 DEF fakeVars, bounds
    <3> QED
      BY <1>6, <3>2, <3>3, <3>4 DEF TestStep
  <2> QED
    BY <1>0, <2>1 DEF LifeInv, Holding, history, SlotCalls, RwCalls, Rw
<1>7. CASE ResetQueueState
  <2>1. arrived' = arrived /\ order' = order
    BY <1>7 DEF ResetQueueState
  <2>2. Numbered(arrived)' /\ Numbered(order)'
    BY <2>1 DEF LifeInv, Numbered, Number
  <2>3. \A d \in abandoned' : pc[d] = "waiting" \/ (d \in Leaked /\ pc[d] = "running")
    BY <1>7 DEF ResetQueueState, LifeInv
  <2> QED
    BY <1>7, <2>2, <2>3 DEF ResetQueueState, LifeInv, Holding, SlotCalls, RwCalls, Rw
<1> QED
  BY <1>1, <1>2, <1>3, <1>4, <1>5, <1>6, <1>7, Steps DEF SideStep

-----------------------------------------------------------------------------
(* Theorems.                                                               *)

\* Nobody holds or waits at first.
LEMMA InitInv ==
    Init => FakeInv
<1> SUFFICES ASSUME Init PROVE FakeInv
  OBVIOUS
<1>1. Admitted = {} /\ Slots = {} /\ Reads = {} /\ Writes = {}
  BY DEF Init, Admitted, Holding, Slots, Reads, Writes, AdmittedIn
<1>2. << >> \in Seq(Call) /\ \A k : ListOf(<< >>, k, pc, arrived)
  BY EmptySeq DEF ListOf
<1>3. SlotInv
  BY <1>1, <1>2, FS_EmptySet DEF Init, NoSem, SlotInv, SlotsKnown, SlotCalls
<1>4. RwInv
  BY <1>1, <1>2, FS_EmptySet DEF Init, NoRw, RwInv, RwKnown, RwCalls, Rw
<1>5. Numbered(arrived) /\ Numbered(order)
  <2>1. arrived \in [Call -> Nat] /\ order \in [Call -> Nat] /\ \A c \in Call : arrived[c] = 0 /\ order[c] = 0
    BY DEF Init
  <2>2. \A c \in Call : Number(arrived, c) > 0 /\ Number(order, c) > 0
    BY <2>1, NumberType
  <2> QED
    BY <2>1, <2>2 DEF Numbered
<1>6. LifeInv
  <2>1. locked \in BOOLEAN /\ abandoned \subseteq Call /\ aborted \subseteq Call
    BY DEF Init
  <2>2. /\ fence \in Nat /\ resets \in Nat /\ toggles \in Nat /\ token \in [Call -> Nat]
        /\ arrived \in [Call -> Nat] /\ order \in [Call -> Nat]
        /\ pc \in [Call -> {"idle", "waiting", "granted", "running", "done"}]
    BY DEF Init
  <2>3. /\ \A c \in Call : pc[c] = "idle" /\ arrived[c] = 0 /\ order[c] = 0 /\ token[c] = 0 /\ token[c] <= fence
        /\ abandoned = {}
    BY DEF Init
  <2> QED
    BY ONLY <1>5, <2>1, <2>2, <2>3 DEF LifeInv, Holding
<1> QED
  BY <1>3, <1>4, <1>6 DEF FakeInv

\* Every step keeps what all theorems below rest on.
LEMMA FakeKept ==
    ASSUME Careful, FakeInv, [Next]_fakeVars
    PROVE  FakeInv'
  BY SlotsKept, RwKept, LivesKept DEF FakeInv

\* The three parts hold at all times.
LEMMA FakeInvariant ==
    ASSUME Careful
    PROVE  Spec => []FakeInv
  BY InitInv, FakeKept, PTL DEF Spec

\* Variables have their types; the count of taken slots does not go below zero.
THEOREM FakeTypeCorrect ==
    ASSUME Careful
    PROVE  Spec => []TypeOK
<1>1. FakeInv => TypeOK
  <2> SUFFICES ASSUME FakeInv PROVE TypeOK
    OBVIOUS
  <2>1. sem.count >= 0
    BY KindsFinite DEF FakeInv, SlotInv, Slots
  <2>2. abandoned \subseteq Call
    BY DEF FakeInv, LifeInv
  <2> QED
    BY <2>1, <2>2 DEF FakeInv, LifeInv, SlotInv, RwInv, TypeOK
<1> QED
  BY <1>1, FakeInvariant, PTL

\* The counters of semaphores and rw in testing.ts never drift from the calls
\* they count: neither the hand-over in releaseSlot nor pumpRw, nor a reset
\* between the calls of a test, counts a call twice or not at all.
THEOREM CountsTheorem ==
    ASSUME Careful
    PROVE  Spec => []CountsMatchHolders
<1>1. FakeInv => CountsMatchHolders
  <2>1. /\ {c \in Admitted : ModeOf[c] = "slot"} = Slots /\ {c \in Admitted : ModeOf[c] = "read"} = Reads
        /\ (\E c \in Admitted : ModeOf[c] = "write") <=> Writes # {}
    BY DEF Slots, Reads, Writes, AdmittedIn
  <2>2. ASSUME FakeInv
        PROVE  /\ sem.count = Cardinality(Slots) /\ rw.readers = Cardinality(Reads)
               /\ rw.writing = (Writes # {}) /\ rw.writing \in BOOLEAN
    BY <2>2 DEF FakeInv, SlotInv, RwInv
  <2> HIDE DEF FakeInv
  <2> QED
    BY <2>1, <2>2 DEF CountsMatchHolders
<1> QED
  BY <1>1, FakeInvariant, PTL

-----------------------------------------------------------------------------
(* Limits and turns, where all slot calls give the same max.               *)

SameMax == \A c, d \in SlotCalls : MaxOf[c] = MaxOf[d]

\* No more slots are taken than there are, and nobody waits while one is free.
LimitInv ==
    \A c \in SlotCalls :
        /\ Cardinality(Slots) <= MaxOf[c]
        /\ sem.waiters # << >> => Cardinality(Slots) = MaxOf[c]
        /\ sem.made => sem.max = MaxOf[c]

\* Every step keeps the limit: a slot is taken only if one is free, and a slot
\* that is given back goes to those that wait first.
LEMMA LimitsKept ==
    ASSUME SameMax, LifeInv, SlotInv, RwInv, LimitInv, [Next]_fakeVars
    PROVE  LimitInv'
<1>1. /\ Cardinality(Slots) \in Nat /\ sem.count = Cardinality(Slots) /\ IsFiniteSet(Slots)
      /\ \A d \in SlotCalls : MaxOf[d] \in Nat \ {0}
  BY KindsFinite, FakeAssumption DEF Slots, SlotInv, SlotCalls
<1>2. ASSUME NEW c \in Call, TakeSlot(c) PROVE LimitInv'
  <2>1. /\ c \in SlotCalls /\ sem.count < MaxOf[c]
        /\ sem'.waiters = sem.waiters /\ sem'.max = MaxOf[c]
        /\ Slots' = Slots \cup {c} /\ c \notin Slots
    BY <1>2, TakeSlotKeeps DEF TakeSlot, SlotFree, Resized, SlotInv, SlotCalls, Slots, AdmittedIn, Admitted, Holding
  <2>2. Cardinality(Slots') = Cardinality(Slots) + 1
    BY <1>1, <2>1, FS_AddElement
  <2>3. \A d \in SlotCalls : MaxOf[d] = MaxOf[c] /\ sem.waiters = << >>
    BY <1>1, <2>1 DEF SameMax, LimitInv
  <2> QED
    BY <1>1, <2>1, <2>2, <2>3 DEF LimitInv, SlotCalls
<1>3. ASSUME NEW c \in Call, WaitForSlot(c) PROVE LimitInv'
  <2>1. c \in SlotCalls /\ ~(sem.count < MaxOf[c]) /\ Slots' = Slots /\ sem'.max = MaxOf[c]
    BY <1>3, WaitForSlotKeeps DEF WaitForSlot, SlotFree, Resized, SlotInv, SlotCalls
  <2>2. \A d \in SlotCalls : MaxOf[d] = MaxOf[c] /\ Cardinality(Slots) <= MaxOf[d]
    BY <2>1 DEF SameMax, LimitInv
  <2> QED
    BY <1>1, <2>1, <2>2 DEF LimitInv, SlotCalls
<1>4. ASSUME NEW c \in Call, HandSlot(c) PROVE LimitInv'
  <2>1. /\ Cardinality(Slots') = Cardinality(Slots) /\ sem.waiters # << >>
        /\ sem'.made = sem.made /\ sem'.max = sem.max
    BY <1>4, HandSlotKeeps DEF HandSlot, SlotInv
  <2> QED
    BY <2>1 DEF LimitInv, SlotCalls
<1>5. ASSUME NEW c \in Call, DropSlot(c) PROVE LimitInv'
  <2>1. /\ c \in Slots /\ Slots' = Slots \ {c} /\ sem'.waiters = << >>
        /\ sem'.made = sem.made /\ sem'.max = sem.max
    BY <1>5, DropSlotKeeps DEF DropSlot, SlotInv, LifeInv, SlotCalls, Slots, AdmittedIn, Admitted, Holding
  <2>2. Cardinality(Slots') = Cardinality(Slots) - 1
    BY <1>1, <2>1, FS_RemoveElement
  <2> QED
    BY <1>1, <2>1, <2>2 DEF LimitInv, SlotCalls
<1>6. ASSUME sem' = sem, abandoned' = abandoned, Aside(SlotCalls) PROVE LimitInv'
  <2>1. Slots' = Slots
    BY <1>6 DEF Aside, SlotCalls, Slots, AdmittedIn, Admitted, Holding
  <2> QED
    BY <1>6, <2>1 DEF LimitInv, SlotCalls
<1>7. CASE ResetQueueState
  <2>1. Slots' = {} /\ sem'.waiters = << >> /\ sem'.made = FALSE
    BY <1>7 DEF ResetQueueState, NoSem, Slots, AdmittedIn, Admitted, Holding
  <2> QED
    BY <1>1, <2>1, FS_EmptySet DEF LimitInv, SlotCalls
<1> QED
  BY <1>2, <1>3, <1>4, <1>5, <1>6, <1>7, Steps, RwStepMoves, SideStepMoves DEF SlotStep, RwStep, history

\* No slot is taken at first.
LEMMA InitLimits ==
    Init => LimitInv
<1> SUFFICES ASSUME Init PROVE LimitInv
  OBVIOUS
<1>1. Slots = {} /\ sem.waiters = << >> /\ sem.made = FALSE
  BY DEF Init, NoSem, Slots, AdmittedIn, Admitted, Holding
<1>2. Cardinality(Slots) = 0 /\ \A c \in SlotCalls : MaxOf[c] \in Nat
  BY <1>1, FS_EmptySet, FakeAssumption DEF SlotCalls
<1> QED
  BY <1>1, <1>2 DEF LimitInv

\* Two slots that are taken are no more than the max.
LEMMA TwoSlots ==
    ASSUME LimitInv, NEW c \in Slots, NEW d \in Slots, MaxOf[d] = 1
    PROVE  c = d
<1>1. /\ IsFiniteSet(Slots) /\ Cardinality(Slots) \in Nat /\ Cardinality(Slots) <= 1
  BY KindsFinite DEF LimitInv, Slots, AdmittedIn, Admitted, SlotCalls
<1>2. IsFiniteSet({c, d}) /\ {c, d} \in SUBSET Slots
  BY FS_AddElement, FS_Singleton, FS_Subset, <1>1
<1>3. Cardinality({c, d}) <= 1
  BY <1>1, <1>2, FS_Subset, FS_CardinalityType
<1>4. c # d => Cardinality({c, d}) = 2
  <2> SUFFICES ASSUME c # d PROVE Cardinality({c, d}) = 2
    OBVIOUS
  <2>1. {c, d} = {c} \cup {d} /\ d \notin {c}
    OBVIOUS
  <2>2. Cardinality({c} \cup {d}) = Cardinality({c}) + 1 /\ Cardinality({c}) = 1
    BY <2>1, FS_AddElement, FS_Singleton
  <2> QED
    BY <2>1, <2>2
<1> QED
  BY <1>3, <1>4

\* A call never goes back to where it can be admitted, and stays abandoned.
Onward ==
    /\ abandoned \subseteq abandoned'
    /\ \A d \in Call : /\ pc[d] \notin {"idle", "waiting"} => pc'[d] \notin {"idle", "waiting"}
                       /\ pc[d] = "done" => pc'[d] = "done"

\* Calls that move go onward.
LEMMA MovesOnward ==
    ASSUME LifeInv, NEW c \in Call, NEW C, NEW place, Movable(C, c, place), Moves(C, c, place)
    PROVE  Onward
<1>1. /\ pc' = [d \in Call |-> IF d \in C THEN "granted" ELSE IF d = c THEN place ELSE pc[d]]
      /\ abandoned' = abandoned
      /\ \A d \in C : pc[d] = "waiting" \/ (d = c /\ pc[c] = "idle")
      /\ (pc[c] = "idle" /\ place = "waiting") \/ (pc[c] = "running" /\ place = "done")
  BY DEF Moves, Movable, Granted
<1> QED
  BY <1>1 DEF Onward

\* So does every step.
LEMMA StepOnward ==
    ASSUME FakeInv, [Next]_fakeVars
    PROVE  Onward
<1> USE DEF FakeInv
<1>0. pc \in [Call -> {"idle", "waiting", "granted", "running", "done"}]
  BY DEF LifeInv
<1>1. ASSUME NEW c \in Call, SideStep(c) PROVE Onward
  BY <1>0, <1>1 DEF SideStep, Refuse, Plain, Resume, EndPlain, Onward, history
<1>2. ASSUME NEW c \in Call, SlotStep(c) \/ RwStep(c) PROVE Onward
  BY <1>2, SlotStepLives, RwStepLives, MovesOnward DEF Lives
<1>3. CASE TestStep \/ ResetQueueState \/ UNCHANGED fakeVars
  BY <1>3 DEF TestStep, SimulateLocked, SimulateLockLoss, ResetQueueState, fakeVars, Onward, history
<1> QED
  BY <1>1, <1>2, <1>3, Steps

\* Readers and writers that are counted do not exclude each other.
LEMMA RwApart ==
    ASSUME RwInv, NEW c \in Admitted, NEW d \in Admitted, Rw(c), Rw(d), "write" \in {ModeOf[c], ModeOf[d]}
    PROVE  c = d
  BY DEF RwInv, Reads, Writes, AdmittedIn, Rw

\* acquireSlot and acquireRw of the test double admit what the service admits:
\* at most max slots, readers together or one writer alone.
THEOREM FakeRefinement ==
    ASSUME Careful, SameMax
    PROVE  Spec => ImplementsAdmission
<1> DEFINE Fit(c, S) ==
               /\ ModeOf[c] = "slot" => Cardinality({d \in S : ModeOf[d] = "slot"}) <= MaxOf[c]
               /\ \A d, e \in S : Rw(d) /\ Rw(e) => d = e \/ {ModeOf[d], ModeOf[e]} = {"read"}
           shut == {c \in Call : pc[c] \notin {"idle", "waiting"}}
<1>1. Init => Abstract!Init
  BY DEF Init, Abstract!Init, Admitted, Holding
<1>2. Init => LimitInv
  BY InitLimits
<1>3. FakeInv /\ LimitInv /\ [Next]_fakeVars => LimitInv'
  BY LimitsKept DEF FakeInv
<1>4. FakeInv /\ LimitInv => Admitted \subseteq Call /\ \A c \in Admitted : Fit(c, Admitted)
  <2> SUFFICES ASSUME FakeInv, LimitInv
               PROVE  Admitted \subseteq Call /\ \A c \in Admitted : Fit(c, Admitted)
    OBVIOUS
  <2>1. {d \in Admitted : ModeOf[d] = "slot"} = Slots /\ Admitted \subseteq Call
    BY DEF Slots, AdmittedIn, Admitted
  <2>2. \A c \in Admitted : ModeOf[c] = "slot" => Cardinality(Slots) <= MaxOf[c]
    BY <2>1 DEF LimitInv, SlotCalls
  <2>3. \A c, d \in Admitted : Rw(c) /\ Rw(d) => c = d \/ {ModeOf[c], ModeOf[d]} = {"read"}
    BY RwApart DEF FakeInv, Rw
  <2> QED
    BY <2>1, <2>2, <2>3
<1> DEFINE Fits == Admitted \subseteq Call /\ \A c \in Admitted : Fit(c, Admitted)
<1>5. FakeInv /\ Fits' /\ [Next]_fakeVars => [Abstract!Next]_<<Admitted, shut>>
  <2> SUFFICES ASSUME FakeInv, Fits', [Next]_fakeVars PROVE Abstract!Next
    OBVIOUS
  <2>1. Onward /\ pc \in [Call -> {"idle", "waiting", "granted", "running", "done"}]
    BY StepOnward DEF FakeInv, LifeInv
  <2>2. shut \subseteq shut'
    BY <2>1 DEF Onward
  <2>3. Admitted' \ Admitted \subseteq Call \ shut
    BY <2>1 DEF Onward, Admitted, Holding, Rw
  <2> HIDE DEF FakeInv
  <2>4. ASSUME NEW c \in Admitted' \ Admitted
        PROVE  Admitted' \in [d \in Call |-> {S \in SUBSET Call : Fit(d, S)}][c]
    BY <2>3
  <2>5. Abstract!Admit
    BY <2>3, <2>4 DEF Abstract!Admit
  <2> QED
    BY <2>2, <2>5 DEF Abstract!Next
<1>6. (FakeInv /\ LimitInv => Fits)'
  BY <1>4, PTL
<1> QED
  BY <1>1, <1>2, <1>3, <1>4, <1>5, <1>6, FakeInvariant, PTL DEF Spec, ImplementsAdmission, Abstract!Spec

-----------------------------------------------------------------------------
(* Turns.                                                                  *)

\* Whoever waits is on a list, unless a reset has forgotten it.
Listed(list, c) == \E i \in 1 .. Len(list) : list[i] = c
WaitInv ==
    \A c \in Call \ abandoned : pc[c] = "waiting" =>
        \/ c \in SlotCalls /\ Listed(sem.waiters, c)
        \/ c \in RwCalls /\ Listed(rw.queue, c)

\* Who has come last is on the list, and so are the others.
LEMMA ListedLast ==
    ASSUME NEW list \in Seq(Call), NEW c \in Call
    PROVE  Listed(Append(list, c), c) /\ \A d : Listed(list, d) => Listed(Append(list, c), d)
<1>1. /\ Len(list) \in Nat /\ Len(Append(list, c)) = Len(list) + 1
      /\ \A i \in 1 .. Len(list) : Append(list, c)[i] = list[i]
      /\ Append(list, c)[Len(list) + 1] = c
  BY AppendProperties
<1>2. Len(list) + 1 \in 1 .. Len(Append(list, c)) /\ \A i \in 1 .. Len(list) : i \in 1 .. Len(Append(list, c))
  BY <1>1
<1> QED
  BY <1>1, <1>2 DEF Listed

\* Whoever is admitted has come before d.
Later(d) == \A e \in Call : order[e] = 0 /\ order'[e] # 0 => arrived'[e] < arrived'[d]

\* Pumping takes those off the queue that it grants a place, and they have come
\* before the others.
LEMMA PumpListed ==
    ASSUME LifeInv, WaitInv, RwInv, NEW c \in Call, RwStep(c)
    PROVE  \A d \in RwKnown : pc'[d] = "waiting" => Listed(rw'.queue, d) /\ Later(d)
<1>1. \A d \in RwKnown : pc[d] = "waiting" => Listed(rw.queue, d)
  BY DEF WaitInv, SlotCalls, RwKnown, RwCalls, Rw
<1>2. rw.queue \in Seq(Call) /\ rw = [readers |-> rw.readers, writing |-> rw.writing, queue |-> rw.queue]
  BY DEF RwInv
<1>3. ASSUME NEW s, NEW place, Unpumped(s, c, place), Pump(s, c, place),
             \A d \in RwKnown : (pc[d] = "waiting" /\ d # c) \/ (d = c /\ place = "waiting") => Listed(s.queue, d)
      PROVE  \A d \in RwKnown : pc'[d] = "waiting" => Listed(rw'.queue, d) /\ Later(d)
  <2>1. PICK C \in SUBSET RwKnown :
            /\ pc' = [d \in Call |-> IF d \in C THEN "granted" ELSE IF d = c THEN place ELSE pc[d]]
            /\ Granted(C)
            /\ \A d \in C : pc[d] = "waiting" \/ (d = c /\ place = "waiting")
            /\ \A i \in 1 .. Len(s.queue) :
                \/ s.queue[i] \in C
                \/ /\ \E j \in 1 .. Len(rw'.queue) : rw'.queue[j] = s.queue[i]
                   /\ \A d \in C : arrived'[d] < arrived'[s.queue[i]]
    BY <1>3, PumpSplits
  <2>2. ASSUME NEW d \in RwKnown, pc'[d] = "waiting" PROVE Listed(rw'.queue, d) /\ Later(d)
    <3>1. d \in Call /\ d \notin C /\ ((pc[d] = "waiting" /\ d # c) \/ (d = c /\ place = "waiting"))
      BY <2>1, <2>2 DEF RwKnown, RwCalls
    <3>2. PICK i \in 1 .. Len(s.queue) : s.queue[i] = d
      BY <1>3, <3>1 DEF Listed
    <3>3. \A e \in C : arrived'[e] < arrived'[d]
      BY <2>1, <3>1, <3>2
    <3>4. \A e \in Call : order[e] = 0 /\ order'[e] # 0 => e \in C
      BY <2>1 DEF Granted
    <3> QED
      BY <2>1, <3>1, <3>2, <3>3, <3>4 DEF Listed, Later
  <2> QED
    BY <2>2
<1>4. CASE AcquireRw(c)
  <2> DEFINE s == [rw EXCEPT !.queue = Append(@, c)]
  <2>1. s.queue = Append(rw.queue, c)
    BY <1>2
  <2>2. Unpumped(s, c, "waiting") /\ Pump(s, c, "waiting")
    BY <1>4, AcquiredUnpumped
  <2> HIDE DEF s
  <2>3. \A d \in RwKnown : (pc[d] = "waiting" /\ d # c) \/ (d = c /\ "waiting" = "waiting") => Listed(s.queue, d)
    BY <1>1, <1>2, <2>1, ListedLast
  <2> QED
    BY ONLY <1>3, <2>2, <2>3
<1>5. CASE ReleaseRw(c)
  <2>1. RwWithout(c).queue = rw.queue
    BY <1>2 DEF RwWithout
  <2>2. Unpumped(RwWithout(c), c, "done") /\ Pump(RwWithout(c), c, "done")
    BY <1>5, ReleasedUnpumped
  <2>3. \A d \in RwKnown : (pc[d] = "waiting" /\ d # c) \/ (d = c /\ "done" = "waiting") => Listed(RwWithout(c).queue, d)
    BY <1>1, <2>1
  <2> QED
    BY ONLY <1>3, <2>2, <2>3
<1> QED
  BY <1>4, <1>5 DEF RwStep

\* Every step keeps whoever waits on a list.
LEMMA WaitsKept ==
    ASSUME Careful, FakeInv, WaitInv, [Next]_fakeVars
    PROVE  WaitInv'
<1> USE DEF FakeInv
<1>0. pc \in [Call -> {"idle", "waiting", "granted", "running", "done"}] /\ sem.waiters \in Seq(Call)
  BY DEF LifeInv, SlotInv
<1>1. ASSUME Aside(SlotCalls), sem' = sem
      PROVE  \A d \in SlotsKnown : pc'[d] = "waiting" => Listed(sem'.waiters, d)
  BY <1>1 DEF Aside, WaitInv, SlotsKnown, SlotCalls, RwCalls, Rw
<1>2. ASSUME Aside(RwCalls), rw' = rw
      PROVE  \A d \in RwKnown : pc'[d] = "waiting" => Listed(rw'.queue, d)
  BY <1>2 DEF Aside, WaitInv, SlotCalls, RwKnown, RwCalls, Rw
<1>3. ASSUME LifeInv', abandoned' = abandoned,
             \A d \in SlotsKnown : pc'[d] = "waiting" => Listed(sem'.waiters, d),
             \A d \in RwKnown : pc'[d] = "waiting" => Listed(rw'.queue, d)
      PROVE  WaitInv'
  BY <1>3 DEF LifeInv, WaitInv, SlotsKnown, RwKnown, SlotCalls, RwCalls, Rw
<1>4. LifeInv'
  BY LivesKept
<1>5. ASSUME NEW c \in Call, SlotStep(c)
      PROVE  \A d \in SlotsKnown : pc'[d] = "waiting" => Listed(sem'.waiters, d)
  <2>0. \A d \in SlotsKnown : pc[d] = "waiting" => Listed(sem.waiters, d)
    BY DEF WaitInv, SlotsKnown, SlotCalls, RwCalls, Rw
  <2>1. CASE TakeSlot(c)
    <3>1. sem'.waiters = sem.waiters /\ pc' = [pc EXCEPT ![c] = "granted"]
      BY <2>1 DEF TakeSlot, Resized, SlotInv
    <3> QED
      BY <1>0, <2>0, <3>1 DEF SlotsKnown, SlotCalls
  <2>2. CASE WaitForSlot(c)
    <3>1. sem'.waiters = Append(sem.waiters, c) /\ pc' = [pc EXCEPT ![c] = "waiting"]
      BY <2>2 DEF WaitForSlot, Resized, SlotInv
    <3> QED
      BY <1>0, <2>0, <3>1, ListedLast DEF SlotsKnown, SlotCalls
  <2>3. CASE HandSlot(c)
    <3> DEFINE h == Head(sem.waiters)
    <3>1. /\ sem'.waiters = Tail(sem.waiters) /\ pc' = [pc EXCEPT ![c] = "done", ![h] = "granted"]
          /\ sem.waiters # << >> /\ h \in Call
      BY <2>3, HandSlotKeeps DEF HandSlot, SlotInv, SlotCalls
    <3>2. \A i \in 1 .. Len(sem.waiters) : sem.waiters[i] # h => Listed(Tail(sem.waiters), sem.waiters[i])
      <4>1. /\ ListOf(sem.waiters, SlotsKnown, pc, arrived) /\ arrived \in [Call -> Nat]
            /\ SlotsKnown \in SUBSET Call
            /\ \A d \in SlotsKnown : d # Head(sem.waiters) /\ pc[d] = "waiting" => pc[d] = "waiting"
        BY DEF SlotInv, LifeInv, SlotsKnown, SlotCalls
      <4>2. \A i \in 1 .. Len(sem.waiters) : sem.waiters[i] # Head(sem.waiters) =>
                \E j \in 1 .. Len(Tail(sem.waiters)) : Tail(sem.waiters)[j] = sem.waiters[i]
        BY ONLY <3>1, <4>1, ListShifts
      <4> QED
        BY <4>2 DEF Listed
    <3>3. ASSUME NEW d \in SlotsKnown, pc'[d] = "waiting" PROVE Listed(sem'.waiters, d)
      <4>1. d # h /\ pc[d] = "waiting"
        BY <1>0, <3>1, <3>3 DEF SlotsKnown, SlotCalls
      <4>2. PICK i \in 1 .. Len(sem.waiters) : sem.waiters[i] = d
        BY <2>0, <4>1 DEF Listed
      <4> QED
        BY <3>1, <3>2, <4>1, <4>2
    <3> QED
      BY <3>3
  <2>4. CASE DropSlot(c)
    <3>1. sem'.waiters = sem.waiters /\ pc' = [pc EXCEPT ![c] = "done"]
      BY <2>4 DEF DropSlot, SlotInv
    <3> QED
      BY <1>0, <2>0, <3>1 DEF SlotsKnown, SlotCalls
  <2> QED
    BY <1>5, <2>1, <2>2, <2>3, <2>4 DEF SlotStep
<1>6. ASSUME NEW c \in Call, SlotStep(c) PROVE WaitInv'
  BY <1>2, <1>3, <1>4, <1>5, <1>6, SlotStepMoves
<1>7. ASSUME NEW c \in Call, RwStep(c) PROVE WaitInv'
  BY <1>1, <1>3, <1>4, <1>7, PumpListed, RwStepMoves DEF RwStep
<1>8. CASE (\E c \in Call : SideStep(c)) \/ TestStep \/ UNCHANGED fakeVars
  BY <1>1, <1>2, <1>3, <1>4, <1>8, SideStepMoves DEF history
<1>9. CASE ResetQueueState
  <2>1. \A c \in Call \ abandoned' : pc'[c] # "waiting"
    BY <1>9 DEF ResetQueueState
  <2> QED
    BY <2>1 DEF WaitInv
<1> QED
  BY <1>6, <1>7, <1>8, <1>9, Steps

\* Two calls that may not hold together.
Conflict(c, d) ==
    \/ ModeOf[c] = "slot" /\ ModeOf[d] = "slot" /\ MaxOf[d] = 1
    \/ Rw(c) /\ Rw(d) /\ "write" \in {ModeOf[c], ModeOf[d]}

\* Of two such calls, the first has its token when the second is admitted.
TurnInv ==
    /\ \A c \in Call : order[c] # 0 /\ token[c] = 0 => pc[c] = "granted"
    /\ \A c, d \in Call :
        order[c] # 0 /\ order[c] < order[d] /\ Conflict(c, d)
        => token[c] # 0 /\ (token[d] # 0 => token[c] < token[d])

\* Holders that are counted may hold together.
AllApart == \A c, d \in Admitted : Conflict(c, d) => c = d

\* The limit and the exclusion say so.
LEMMA Apart ==
    RwInv /\ LimitInv => AllApart
<1> SUFFICES ASSUME RwInv, LimitInv, NEW c \in Admitted, NEW d \in Admitted, Conflict(c, d)
             PROVE  c = d
  BY DEF AllApart
<1>1. ModeOf[c] = "slot" /\ ModeOf[d] = "slot" /\ MaxOf[d] = 1 => c \in Slots /\ d \in Slots
  BY DEF Slots, AdmittedIn
<1> QED
  BY <1>1, RwApart, TwoSlots DEF Conflict

\* Calls that are admitted come after those that have a token already.
LEMMA MovesTurns ==
    ASSUME LifeInv, TurnInv, AllApart', NEW c \in Call, Lives(c)
    PROVE  TurnInv'
<1> PICK C \in SUBSET Call : \E place : Movable(C, c, place) /\ Moves(C, c, place)
  BY DEF Lives
<1> PICK place : Movable(C, c, place) /\ Moves(C, c, place)
  OBVIOUS
<1>1. /\ C \subseteq SlotCalls \cup RwCalls /\ C \cap abandoned = {}
      /\ \A d, e \in C : Rw(d) = Rw(e)
      /\ \A d \in C : pc[d] = "waiting" \/ (d = c /\ pc[c] = "idle")
      /\ (pc[c] = "idle" /\ place = "waiting") \/ (pc[c] = "running" /\ place = "done")
      /\ arrived' \in [Call -> Nat]
  BY DEF Movable, SlotsKnown, RwKnown
<1>2. /\ pc' = [d \in Call |-> IF d \in C THEN "granted" ELSE IF d = c THEN place ELSE pc[d]]
      /\ Granted(C) /\ abandoned' = abandoned /\ token' = token
  BY DEF Moves, Granted
<1>3. /\ \A d \in C : order[d] = 0 /\ token[d] = 0 /\ d \notin abandoned
      /\ token \in [Call -> Nat] /\ order \in [Call -> Nat]
      /\ \A d \in Call : pc[d] \in {"idle", "waiting"} => order[d] = 0
      /\ \A d \in abandoned : pc[d] \in {"waiting", "running"}
  BY <1>1 DEF LifeInv
<1>4. /\ order' \in [Call -> Nat] /\ \A d \in Call \ C : order'[d] = order[d]
      /\ \A d \in C : order'[d] # 0 /\ \A e \in Call \ C : Rw(d) = Rw(e) => order[e] < order'[d]
  BY <1>1, <1>2, <1>3, NextGrants
<1>5. ASSUME NEW d \in Call, order'[d] # 0, token'[d] = 0
      PROVE  pc'[d] = "granted" /\ d \notin abandoned'
  <2>1. CASE d \in C
    BY <1>2, <1>3, <2>1
  <2>2. CASE d \notin C
    <3>1. pc[d] = "granted"
      BY <1>2, <1>4, <1>5, <2>2 DEF TurnInv
    <3> QED
      BY <1>1, <1>2, <1>3, <2>2, <3>1
  <2> QED
    BY <2>1, <2>2
<1>6. ASSUME NEW d \in Call, NEW e \in Call, order'[d] # 0, order'[d] < order'[e], Conflict(d, e)
      PROVE  token'[d] # 0 /\ (token'[e] # 0 => token'[d] < token'[e])
  <2>1. Rw(d) = Rw(e) /\ (Rw(d) \/ ModeOf[d] = "slot") /\ (Rw(e) \/ ModeOf[e] = "slot")
    BY <1>6 DEF Conflict, Rw
  <2>2. CASE e \notin C /\ d \notin C
    BY <1>2, <1>4, <1>6, <2>2 DEF TurnInv
  <2>3. CASE e \notin C /\ d \in C
    <3>1. order[e] < order'[d] /\ order'[e] = order[e]
      BY <1>4, <2>1, <2>3
    <3> QED
      BY <1>3, <1>4, <1>6, <3>1
  <2>4. CASE e \in C
    <3>1. token'[e] = 0 /\ pc'[e] = "granted" /\ e \notin abandoned' /\ e # d
      BY <1>2, <1>3, <1>4, <1>6, <2>4
    <3>2. ASSUME token'[d] = 0 PROVE FALSE
      <4>1. pc'[d] = "granted" /\ d \notin abandoned'
        BY <1>5, <1>6, <3>2
      <4>2. d \in Admitted' /\ e \in Admitted'
        BY <2>1, <3>1, <4>1 DEF Admitted, Holding, Rw
      <4> QED
        BY <1>6, <3>1, <4>2 DEF AllApart, Conflict, Rw
    <3> QED
      BY <3>1, <3>2
  <2> QED
    BY <2>2, <2>3, <2>4
<1> QED
  BY <1>5, <1>6 DEF TurnInv, Conflict, Rw

\* A token that is issued is larger than all the others.
LEMMA TokensKeep ==
    ASSUME LifeInv, TurnInv, NEW c \in Call, IssueToken(c), UNCHANGED history,
           \A d \in Call \ {c} : pc'[d] = pc[d],
           pc[c] = "granted" \/ c \notin SlotCalls \cup RwCalls
    PROVE  TurnInv'
<1>1. /\ fence \in Nat /\ token \in [Call -> Nat] /\ token' = [token EXCEPT ![c] = fence + 1]
      /\ order' = order /\ \A d \in Call : token[d] <= fence
      /\ pc[c] = "granted" => token[c] = 0
  BY DEF LifeInv, IssueToken, history
<1>2. token'[c] = fence + 1 /\ token'[c] # 0 /\ \A d \in Call \ {c} : token'[d] = token[d]
  BY ONLY <1>1
<1>3. ASSUME NEW d \in Call, order'[d] # 0, token'[d] = 0 PROVE pc'[d] = "granted"
  <2>1. d # c
    BY <1>2, <1>3
  <2> QED
    BY <1>1, <1>2, <1>3, <2>1 DEF TurnInv
<1>4. ASSUME NEW d \in Call, NEW e \in Call, order'[d] # 0, order'[d] < order'[e], Conflict(d, e)
      PROVE  token'[d] # 0 /\ (token'[e] # 0 => token'[d] < token'[e])
  <2>1. d \in SlotCalls \cup RwCalls
    BY <1>4 DEF Conflict, SlotCalls, RwCalls
  <2>2. token[d] # 0 /\ (token[e] # 0 => token[d] < token[e])
    BY <1>1, <1>4 DEF TurnInv
  <2>3. d # c
    BY <1>1, <2>1, <2>2
  <2>4. token[d] \in Nat /\ token[d] <= fence /\ fence \in Nat
    BY <1>1
  <2> QED
    BY <1>2, <2>2, <2>3, <2>4
<1> QED
  BY <1>3, <1>4 DEF TurnInv, Conflict, Rw

\* Every step keeps the turns.
LEMMA TurnsKept ==
    ASSUME FakeInv, TurnInv, AllApart', [Next]_fakeVars
    PROVE  TurnInv'
<1> USE DEF FakeInv
<1>0. pc \in [Call -> {"idle", "waiting", "granted", "running", "done"}]
  BY DEF LifeInv
<1>1. ASSUME NEW c \in Call, SlotStep(c) \/ RwStep(c) PROVE TurnInv'
  BY <1>1, SlotStepLives, RwStepLives, MovesTurns
<1>2. ASSUME NEW c \in Call, EndPlain(c) PROVE TurnInv'
  BY <1>2, LeaveLives, MovesTurns DEF EndPlain
<1>3. ASSUME NEW c \in Call, Plain(c) \/ Resume(c) PROVE TurnInv'
  <2>1. /\ IssueToken(c) /\ UNCHANGED history /\ \A d \in Call \ {c} : pc'[d] = pc[d]
        /\ pc[c] = "granted" \/ c \notin SlotCalls \cup RwCalls
    BY <1>0, <1>3 DEF Plain, Resume, SlotCalls, RwCalls, Rw
  <2> QED
    BY <2>1, TokensKeep
<1>4. ASSUME UNCHANGED <<token, order>>, \A d \in Call : pc[d] = "granted" => pc'[d] = "granted"
      PROVE  TurnInv'
  BY <1>4 DEF TurnInv, Conflict, Rw
<1>5. ASSUME NEW c \in Call, Refuse(c) PROVE TurnInv'
  BY <1>0, <1>4, <1>5 DEF Refuse, history
<1>6. CASE TestStep \/ ResetQueueState \/ UNCHANGED fakeVars
  BY <1>4, <1>6 DEF TestStep, SimulateLocked, SimulateLockLoss, ResetQueueState, fakeVars, history
<1> QED
  BY <1>1, <1>2, <1>3, <1>5, <1>6, Steps DEF SideStep

\* A fencing token of the test double follows the turns: of two calls that may
\* not hold together, the one admitted first has the smaller token, though it
\* draws it in a later microtask than it is granted its place.
THEOREM TokensTheorem ==
    ASSUME Careful, SameMax
    PROVE  Spec => []TokensFollowTurns
<1>1. Init => LimitInv /\ TurnInv
  <2> SUFFICES ASSUME Init PROVE LimitInv /\ TurnInv
    OBVIOUS
  <2>1. LimitInv
    BY InitLimits
  <2>2. \A c \in Call : order[c] = 0
    BY DEF Init
  <2> QED
    BY <2>1, <2>2 DEF TurnInv
<1>2. FakeInv /\ LimitInv /\ [Next]_fakeVars => LimitInv'
  BY LimitsKept DEF FakeInv
<1>4. FakeInv /\ LimitInv => AllApart
  BY Apart DEF FakeInv
<1>5. FakeInv /\ AllApart' /\ TurnInv /\ [Next]_fakeVars => TurnInv'
  BY TurnsKept
<1>3. FakeInv /\ TurnInv => TokensFollowTurns
  <2> SUFFICES ASSUME FakeInv, TurnInv, NEW c \in Call, NEW d \in Call,
                      token[c] # 0, token[d] # 0, order[c] < order[d], Conflict(c, d)
               PROVE  token[c] < token[d]
    BY DEF TokensFollowTurns, Conflict
  <2>1. c \in SlotCalls \cup RwCalls
    BY DEF Conflict, SlotCalls, RwCalls
  <2>2. order[c] # 0
    BY <2>1 DEF FakeInv, LifeInv
  <2> QED
    BY <2>2 DEF TurnInv
<1> QED
  BY <1>1, <1>2, <1>3, <1>4, <1>5, FakeInvariant, PTL DEF Spec

\* No wake-up of releaseSlot and pumpRw is lost: who waits is on its list, unless
\* a reset has forgotten it, and a list waits for a reason: all slots are taken, or
\* a reader and a writer exclude each other.
THEOREM WaitsTheorem ==
    ASSUME Careful, SameMax
    PROVE  Spec => []WaitsForAReason
<1>1. Init => LimitInv /\ WaitInv
  BY InitLimits DEF Init, WaitInv
<1>2. FakeInv /\ LimitInv /\ WaitInv /\ [Next]_fakeVars => LimitInv' /\ WaitInv'
  BY LimitsKept, WaitsKept DEF FakeInv
<1>3. FakeInv /\ LimitInv /\ WaitInv => WaitsForAReason
  <2> SUFFICES ASSUME FakeInv, LimitInv, WaitInv PROVE WaitsForAReason
    OBVIOUS
  <2>1. ASSUME NEW c \in Call \ abandoned, pc[c] = "waiting"
        PROVE  \E i \in 1 .. Len(IF Rw(c) THEN rw.queue ELSE sem.waiters) :
                   (IF Rw(c) THEN rw.queue ELSE sem.waiters)[i] = c
    BY <2>1 DEF WaitInv, Listed, SlotCalls, RwCalls, Rw
  <2>2. sem.waiters # << >> => Cardinality(Slots) = sem.max
    <3>1. sem.waiters # << >> => sem.made /\ \E c \in SlotCalls : TRUE
      BY DEF FakeInv, SlotInv, Slots, AdmittedIn, Admitted, SlotCalls
    <3> QED
      BY <3>1 DEF LimitInv
  <2>3. ASSUME rw.queue # << >>
        PROVE  \E d \in Admitted : Rw(d) /\ "write" \in {ModeOf[d], ModeOf[Head(rw.queue)]}
    <3>1. Writes # {} \/ (Reads # {} /\ ModeOf[Head(rw.queue)] = "write")
      BY <2>3 DEF FakeInv, RwInv
    <3> QED
      BY <3>1 DEF Reads, Writes, AdmittedIn, Rw
  <2> QED
    BY <2>1, <2>2, <2>3 DEF WaitsForAReason, Slots, AdmittedIn
<1> QED
  BY <1>1, <1>2, <1>3, FakeInvariant, PTL DEF Spec

\* releaseSlot and pumpRw grant from the front: nobody is admitted while a call
\* of the same kind has waited longer.
THEOREM ArrivalTheorem ==
    ASSUME Careful, SameMax
    PROVE  Spec => ArrivalOrder
<1>1. Init => LimitInv /\ WaitInv
  BY InitLimits DEF Init, WaitInv
<1>2. FakeInv /\ LimitInv /\ WaitInv /\ [Next]_fakeVars => LimitInv' /\ WaitInv'
  BY LimitsKept, WaitsKept DEF FakeInv
<1>3. FakeInv /\ LimitInv /\ WaitInv /\ [Next]_fakeVars =>
        [\A c, d \in Call :
            /\ order[c] = 0 /\ order'[c] # 0
            /\ pc'[d] = "waiting" /\ d \notin abandoned /\ Rw(c) = Rw(d)
            => arrived'[c] < arrived'[d]]_fakeVars
  <2> SUFFICES ASSUME FakeInv, LimitInv, WaitInv, [Next]_fakeVars, NEW c \in Call, NEW d \in Call,
                      order[c] = 0, order'[c] # 0, pc'[d] = "waiting", d \notin abandoned, Rw(c) = Rw(d)
               PROVE  arrived'[c] < arrived'[d]
    OBVIOUS
  <2> USE DEF FakeInv
  <2>0. pc \in [Call -> {"idle", "waiting", "granted", "running", "done"}]
    BY DEF LifeInv
  <2>1. ASSUME NEW e \in Call, TakeSlot(e) PROVE arrived'[c] < arrived'[d]
    <3>1. /\ Granted({e}) /\ pc' = [pc EXCEPT ![e] = "granted"] /\ e \in SlotCalls /\ sem.count < MaxOf[e]
      BY <2>1 DEF TakeSlot, SlotFree, Resized, SlotInv, SlotCalls
    <3>2. c = e /\ d # e /\ pc[d] = "waiting"
      BY <2>0, <3>1 DEF Granted
    <3>3. Listed(sem.waiters, d)
      BY <3>1, <3>2 DEF WaitInv, SlotCalls, RwCalls, Rw
    <3>4. sem.waiters # << >>
      BY <3>3, EmptySeq DEF Listed
    <3>5. sem.count = MaxOf[e] /\ sem.count \in Int
      BY <3>1, <3>4 DEF LimitInv, SlotInv
    <3> QED
      BY <3>1, <3>5
  <2>2. ASSUME NEW e \in Call, HandSlot(e) PROVE arrived'[c] < arrived'[d]
    <3> DEFINE h == Head(sem.waiters)
    <3>1. /\ Granted({h}) /\ pc' = [pc EXCEPT ![e] = "done", ![h] = "granted"] /\ arrived' = arrived
          /\ h \in SlotCalls /\ h \in Call /\ sem.waiters # << >>
      BY <2>2, HandSlotKeeps DEF HandSlot, SlotCalls
    <3> HIDE DEF h
    <3>2. c = h /\ d # h /\ pc[d] = "waiting"
      BY <2>0, <3>1 DEF Granted
    <3>3. Listed(sem.waiters, d)
      BY <3>1, <3>2 DEF WaitInv, SlotCalls, RwCalls, Rw
    <3>4. PICK i \in 1 .. Len(sem.waiters) : sem.waiters[i] = d
      BY <3>3 DEF Listed
    <3>5. 1 \in 1 .. Len(sem.waiters) /\ Head(sem.waiters) = sem.waiters[1]
      BY <3>1, ListFront DEF SlotInv
    <3>6. 1 < i
      BY <3>2, <3>4, <3>5 DEF h
    <3>7. arrived[sem.waiters[1]] < arrived[sem.waiters[i]]
      BY <3>5, <3>6 DEF SlotInv, ListOf
    <3> QED
      BY <3>1, <3>2, <3>4, <3>5, <3>7 DEF h
  <2>3. ASSUME NEW e \in Call, RwStep(e) PROVE arrived'[c] < arrived'[d]
    <3>1. d \in RwCalls
      <4>1. \E C \in SUBSET RwCalls : Granted(C)
        BY <2>3, RwGrants
      <4> QED
        BY <4>1 DEF Granted, RwCalls
    <3>2. d \in RwKnown
      BY <3>1 DEF RwKnown
    <3> QED
      BY <2>3, <3>2, PumpListed DEF Later
  <2>4. ~(order' = order)
    OBVIOUS
  <2> QED
    BY <2>1, <2>2, <2>3, <2>4, Steps
    DEF SideStep, SlotStep, TestStep, Refuse, Plain, Resume, EndPlain, WaitForSlot, DropSlot,
        SimulateLocked, SimulateLockLoss, ResetQueueState, fakeVars, history
<1> QED
  BY <1>1, <1>2, <1>3, FakeInvariant, PTL DEF Spec, ArrivalOrder
=============================================================================
