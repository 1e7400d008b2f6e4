-------------------------- MODULE ContentionProofs --------------------------
(* Theorems about Contention, for any number of nodes and of calls.         *)
EXTENDS Contention, FiniteSetTheorems, TLAPS

Ballot == {"none", "asked", "for", "locked", "lost", "odd"}

\* The types of what the votes depend on, and of the rest.
VoteType ==
    /\ keys \in [Node -> [Key -> Call \cup {Nobody}]]
    /\ pc \in [Call -> {"idle", "voting", "fencing", "owning", "done"}]
    /\ kind \in [Call -> {"none", "with", "try", "token", "health"}]
    /\ vote \in [Call -> [Node -> Ballot]]

Told == {"pending", "lock", "value", "null", "refused", "error", "up", "down"}
RestType ==
    /\ up \subseteq Node
    /\ attempts \in [Call -> Nat] /\ \A c \in Call : attempts[c] <= RetryCount[c]
    /\ outcome \in [Call -> Told]
    /\ outages \in 0 .. MaxOutages /\ faults \in 0 .. MaxFaults
    /\ dark \in [Call -> SUBSET Node] /\ cut \in [Call -> SUBSET Node]

\* TypeOK in two halves, the second of which no vote touches.
LEMMA TypeParts == TypeOK <=> VoteType /\ RestType
  BY DEF TypeOK, VoteType, RestType, Ballot, Told

\* The value of a call that is not over stands at every node that voted for
\* it, so that nobody else gets that node's vote.
VotesAreKept ==
    \A c \in Call, n \in Node :
        pc[c] # "done" /\ vote[c][n] = "for" => keys[n][KeyOf(c)] = c

\* An owner has its quorum for as long as it is one.
OwnersHaveQuorum == \A c \in Owners : Cardinality(For(c)) >= Quorum

IInv == VoteType /\ RestType /\ VotesAreKept /\ OwnersHaveQuorum

\* Two quorums of the nodes have a node in common.
LEMMA QuorumsMeet ==
    ASSUME NEW S \in SUBSET Node, NEW T \in SUBSET Node,
           Cardinality(S) >= Quorum, Cardinality(T) >= Quorum
    PROVE  S \cap T # {}
<1>1. /\ IsFiniteSet(Node) /\ Cardinality(Node) \in Nat
      /\ Cardinality(S) \in Nat /\ Cardinality(T) \in Nat
  BY ContentionAssumption, FS_Subset, FS_CardinalityType
<1>2. Cardinality(S) + Cardinality(T) > Cardinality(Node)
  BY <1>1 DEF Quorum
<1> QED
  BY <1>1, <1>2, FS_MajoritiesIntersect

\* The service starts with no votes and no owners.
LEMMA InitInv == Init => IInv
  BY ContentionAssumption DEF Init, IInv, VoteType, RestType, Told, VotesAreKept, OwnersHaveQuorum, Owners, Ballot

\* Deletions and new values leave every other call's values where they are.
LEMMA StoredKeeps ==
    ASSUME VoteType, NEW c \in Call, NEW n \in Node
    PROVE  /\ Stored(c, n) \in [Node -> [Key -> Call \cup {Nobody}]]
           /\ \A m \in Node, k \in Key : keys[m][k] # Nobody => Stored(c, n)[m][k] = keys[m][k]
           /\ Stored(c, n) # keys => Stored(c, n)[n][KeyOf(c)] = c
  BY DEF VoteType, Stored, KeyOf, Key

\* Giving back removes the call's own values and votes, nobody else's.
LEMMA GiveBackKeeps ==
    ASSUME VoteType, NEW c \in Call, GiveBack(c)
    PROVE  /\ keys' \in [Node -> [Key -> Call \cup {Nobody}]]
           /\ vote' \in [Call -> [Node -> Ballot]]
           /\ \A m \in Node, k \in Key : keys[m][k] # c => keys'[m][k] = keys[m][k]
           /\ \A d \in Call \ {c} : vote'[d] = vote[d]
  BY DEF VoteType, GiveBack, KeyOf, Key, Ballot

\* Every step keeps the types of the votes and keys.
LEMMA VoteTypeStep ==
    ASSUME VoteType, [Next]_vars
    PROVE  VoteType'
<1> USE DEF VoteType, Ballot, Goto, Says, Ask, calls, history
<1>1. ASSUME NEW c \in Call, Start(c) PROVE VoteType'
  <2>1. kind' \in [Call -> {"none", "with", "try", "token", "health"}]
    BY <1>1, ContentionAssumption DEF Start
  <2> QED
    BY <1>1, <2>1 DEF Start
<1>2. ASSUME NEW c \in Call, Win(c) PROVE VoteType'
  BY <1>2 DEF Win
<1>3. ASSUME NEW c \in Call, RetryAttempt(c) PROVE VoteType'
  BY <1>3 DEF RetryAttempt
<1>4. ASSUME NEW c \in Call, GiveUp(c) PROVE VoteType'
  BY <1>4, GiveBackKeeps DEF GiveUp
<1>5. ASSUME NEW c \in Call, Token(c) PROVE VoteType'
  BY <1>5 DEF Token
<1>6. ASSUME NEW c \in Call, NoToken(c) PROVE VoteType'
  BY <1>6, GiveBackKeeps DEF NoToken
<1>7. ASSUME NEW c \in Call, Release(c) PROVE VoteType'
  BY <1>7, GiveBackKeeps DEF Release
<1>8. ASSUME NEW c \in Call, NEW n \in Node, Vote(c, n) PROVE VoteType'
  <2>1. keys' \in [Node -> [Key -> Call \cup {Nobody}]]
    BY <1>8, StoredKeeps DEF Vote
  <2>2. PICK v \in Ballot : vote' = [vote EXCEPT ![c][n] = v]
    <3>1. CASE n \in up /\ keys' # keys
      BY <1>8, <3>1 DEF Vote
    <3>2. CASE n \in up /\ keys' = keys
      BY <1>8, <3>2 DEF Vote
    <3>3. CASE n \notin up
      BY <1>8, <3>3 DEF Vote, NoAnswer
    <3> QED
      BY <3>1, <3>2, <3>3
  <2> QED
    BY <1>8, <2>1, <2>2 DEF Vote
<1>9. ASSUME NEW c \in Call, NEW n \in Node, LoseReply(c, n) PROVE VoteType'
  <2>1. keys' \in [Node -> [Key -> Call \cup {Nobody}]]
    BY <1>9, StoredKeeps DEF LoseReply
  <2>2. PICK v \in Ballot : vote' = [vote EXCEPT ![c][n] = v]
    BY <1>9 DEF LoseReply, NoAnswer
  <2> QED
    BY <1>9, <2>1, <2>2 DEF LoseReply
<1>10. ASSUME NEW c \in Call, NEW n \in Node, Complain(c, n) PROVE VoteType'
  BY <1>10 DEF Complain
<1>11. ASSUME NEW c \in Call, NEW n \in Node, Expire(c, n) PROVE VoteType'
  BY <1>11 DEF Expire, KeyOf, Key
<1>12. ASSUME NEW lost \in SUBSET Node, Outage(lost) PROVE VoteType'
  BY <1>12 DEF Outage
<1>13. CASE Recovery
  BY <1>13 DEF Recovery
<1>14. CASE Finished \/ UNCHANGED vars
  BY <1>14 DEF Finished, vars
<1> QED
  BY <1>1, <1>2, <1>3, <1>4, <1>5, <1>6, <1>7, <1>8, <1>9, <1>10, <1>11, <1>12, <1>13, <1>14
  DEF Next

\* Every step keeps the other types, and the bounds on attempts and faults.
LEMMA RestTypeStep ==
    ASSUME VoteType, RestType, [Next]_vars
    PROVE  RestType'
<1> USE ContentionAssumption DEF RestType, Told, Goto, calls, history
<1>1. ASSUME NEW c \in Call, Start(c) \/ Win(c) \/ Token(c) \/ Release(c) PROVE RestType'
  BY <1>1 DEF Start, Win, Token, Release
<1>2. ASSUME NEW c \in Call, RetryAttempt(c) PROVE RestType'
  <2>1. attempts' \in [Call -> Nat] /\ \A d \in Call : attempts'[d] <= RetryCount[d]
    BY <1>2 DEF RetryAttempt
  <2> QED
    BY <1>2, <2>1 DEF RetryAttempt
<1>3. ASSUME NEW c \in Call, GiveUp(c) PROVE RestType'
  <2>1. Verdict(c) \in Told
    BY DEF Verdict
  <2> QED
    BY <1>3, <2>1 DEF GiveUp
<1>4. ASSUME NEW c \in Call, NoToken(c) PROVE RestType'
  <2>1. faults' \in 0 .. MaxFaults /\ cut' \in [Call -> SUBSET Node]
    BY <1>4 DEF NoToken, TokenFails
  <2> QED
    BY <1>4, <2>1 DEF NoToken
<1>5. ASSUME NEW c \in Call, NEW n \in Node, Vote(c, n) \/ Expire(c, n) PROVE RestType'
  BY <1>5 DEF Vote, Expire
<1>6. ASSUME NEW c \in Call, NEW n \in Node, LoseReply(c, n) \/ Complain(c, n) PROVE RestType'
  BY <1>6 DEF LoseReply, Complain
<1>7. ASSUME NEW lost \in SUBSET Node, Outage(lost) PROVE RestType'
  BY <1>7 DEF Outage
<1>8. CASE Recovery
  BY <1>8 DEF Recovery
<1>9. CASE Finished \/ UNCHANGED vars
  BY <1>9 DEF Finished, vars
<1> QED
  BY <1>1, <1>2, <1>3, <1>4, <1>5, <1>6, <1>7, <1>8, <1>9 DEF Next

\* No step takes a key away from a node whose vote still counts.
LEMMA VotesStep ==
    ASSUME IInv, [Next]_vars
    PROVE  VotesAreKept'
<1> SUFFICES ASSUME NEW d \in Call, NEW m \in Node, pc'[d] # "done", vote'[d][m] = "for"
             PROVE  keys'[m][KeyOf(d)'] = d
  BY DEF VotesAreKept
<1> USE DEF IInv, VoteType, VotesAreKept, Ballot, Goto, Says, Ask, calls, history
<1>0. d # Nobody /\ KeyOf(d) \in Key
  BY ContentionAssumption DEF KeyOf, Key
<1>a. ASSUME pc[d] # "done", vote[d][m] = "for", KeyOf(d)' = KeyOf(d),
             keys[m][KeyOf(d)] # Nobody => keys'[m][KeyOf(d)] = keys[m][KeyOf(d)]
      PROVE  keys'[m][KeyOf(d)'] = d
  BY <1>0, <1>a
<1>b. ASSUME UNCHANGED <<keys, pc, kind, vote>> PROVE keys'[m][KeyOf(d)'] = d
  BY <1>b DEF KeyOf
<1>1. ASSUME NEW c \in Call, Start(c) PROVE keys'[m][KeyOf(d)'] = d
  <2>1. d # c
    BY <1>1 DEF Start
  <2> QED
    BY <1>1, <2>1 DEF Start, KeyOf
<1>2. ASSUME NEW c \in Call, Win(c) \/ Token(c) PROVE keys'[m][KeyOf(d)'] = d
  BY <1>2 DEF Win, Token, KeyOf
<1>3. ASSUME NEW c \in Call, RetryAttempt(c) PROVE keys'[m][KeyOf(d)'] = d
  BY <1>3 DEF RetryAttempt, KeyOf
<1>4. ASSUME NEW c \in Call, GiveBack(c), pc'[c] = "done", UNCHANGED kind,
             \A e \in Call \ {c} : pc'[e] = pc[e]
      PROVE  keys'[m][KeyOf(d)'] = d
  <2>1. d # c /\ vote[d][m] = "for" /\ pc[d] # "done"
    BY <1>4, GiveBackKeeps
  <2>2. keys[m][KeyOf(d)] = d
    BY <2>1
  <2> QED
    BY <1>0, <1>4, <2>1, <2>2, GiveBackKeeps DEF KeyOf
<1>5. ASSUME NEW c \in Call, GiveUp(c) \/ Release(c) PROVE keys'[m][KeyOf(d)'] = d
  BY <1>4, <1>5 DEF GiveUp, Release
<1>6. ASSUME NEW c \in Call, NoToken(c) PROVE keys'[m][KeyOf(d)'] = d
  <2>1. CASE GiveBack(c)
    BY <1>4, <1>6, <2>1 DEF NoToken
  <2>2. CASE UNCHANGED <<keys, vote>>
    BY <1>6, <2>2 DEF NoToken, KeyOf
  <2> QED
    BY <1>6, <2>1, <2>2 DEF NoToken
<1>7. ASSUME NEW c \in Call, NEW n \in Node, Vote(c, n) PROVE keys'[m][KeyOf(d)'] = d
  <2>1. KeyOf(d)' = KeyOf(d) /\ pc[d] # "done" /\ keys' \in {keys, Stored(c, n)}
    BY <1>7 DEF Vote, KeyOf
  <2>2. CASE vote[d][m] = "for"
    BY <1>a, <1>0, <2>1, <2>2, StoredKeeps
  <2>3. CASE vote[d][m] # "for"
    <3>1. c = d /\ n = m /\ keys' = Stored(c, n) /\ keys' # keys
      BY <1>7, <2>3 DEF Vote, NoAnswer
    <3> QED
      BY <2>1, <3>1, StoredKeeps
  <2> QED
    BY <2>2, <2>3
<1>8. ASSUME NEW c \in Call, NEW n \in Node, LoseReply(c, n) PROVE keys'[m][KeyOf(d)'] = d
  <2>1. KeyOf(d)' = KeyOf(d) /\ pc[d] # "done" /\ keys' \in {keys, Stored(c, n)}
    BY <1>8 DEF LoseReply, KeyOf
  <2>2. vote[d][m] = "for"
    BY <1>8 DEF LoseReply, NoAnswer
  <2> QED
    BY <1>a, <1>0, <2>1, <2>2, StoredKeeps
<1>9. ASSUME NEW c \in Call, NEW n \in Node, Complain(c, n) PROVE keys'[m][KeyOf(d)'] = d
  BY <1>9 DEF Complain, KeyOf
<1>10. ASSUME NEW c \in Call, NEW n \in Node, Expire(c, n) PROVE keys'[m][KeyOf(d)'] = d
  <2>1. d # c /\ vote[d][m] = "for" /\ pc[d] # "done" /\ KeyOf(d)' = KeyOf(d)
    BY <1>10 DEF Expire, KeyOf
  <2>2. keys[m][KeyOf(d)] = d
    BY <2>1
  <2>3. keys'[m][KeyOf(d)] = keys[m][KeyOf(d)]
    BY <1>0, <1>10, <2>1, <2>2 DEF Expire
  <2> QED
    BY <2>1, <2>2, <2>3
<1>11. ASSUME NEW lost \in SUBSET Node, Outage(lost) PROVE keys'[m][KeyOf(d)'] = d
  BY <1>b, <1>11 DEF Outage
<1>12. CASE Recovery
  BY <1>b, <1>12 DEF Recovery
<1>13. CASE Finished \/ UNCHANGED vars
  BY <1>b, <1>13 DEF Finished, vars
<1> QED
  BY <1>1, <1>2, <1>3, <1>5, <1>6, <1>7, <1>8, <1>9, <1>10, <1>11, <1>12, <1>13 DEF Next

\* An owner has its quorum when it wins, and no step reduces it.
LEMMA QuorumStep ==
    ASSUME IInv, [Next]_vars
    PROVE  OwnersHaveQuorum'
<1> SUFFICES ASSUME NEW d \in Call, pc'[d] \in {"fencing", "owning"}
             PROVE  Cardinality(For(d)') >= Quorum
  BY DEF OwnersHaveQuorum, Owners
<1> USE DEF IInv, VoteType, Ballot, Goto, Says, Ask, calls, history
<1>a. ASSUME pc[d] \in {"fencing", "owning"},
             \A m \in Node : vote[d][m] = "for" => vote'[d][m] = "for"
      PROVE  Cardinality(For(d)') >= Quorum
  <2>1. For(d) \subseteq For(d)' /\ For(d)' \in SUBSET Node
    BY <1>a DEF For
  <2>2. IsFiniteSet(For(d)')
    BY <2>1, ContentionAssumption, FS_Subset
  <2>3. Cardinality(For(d)) <= Cardinality(For(d)')
    BY <2>1, <2>2, FS_Subset
  <2>4. Cardinality(For(d)) >= Quorum
    BY <1>a DEF OwnersHaveQuorum, Owners
  <2>5. Cardinality(For(d)) \in Nat /\ Cardinality(For(d)') \in Nat /\ Quorum \in Nat
    BY <2>1, <2>2, ContentionAssumption, FS_Subset, FS_CardinalityType DEF Quorum
  <2> QED
    BY <2>3, <2>4, <2>5
<1>1. ASSUME NEW c \in Call, Start(c) \/ RetryAttempt(c) PROVE Cardinality(For(d)') >= Quorum
  BY <1>a, <1>1 DEF Start, RetryAttempt
<1>2. ASSUME NEW c \in Call, Win(c) PROVE Cardinality(For(d)') >= Quorum
  <2>1. CASE d = c
    <3>1. For(d)' = For(d)
      BY <1>2 DEF Win, For
    <3> QED
      BY <1>2, <2>1, <3>1 DEF Win
  <2>2. CASE d # c
    BY <1>a, <1>2, <2>2 DEF Win
  <2> QED
    BY <2>1, <2>2
<1>3. ASSUME NEW c \in Call, Token(c) PROVE Cardinality(For(d)') >= Quorum
  BY <1>a, <1>3 DEF Token
<1>4. ASSUME NEW c \in Call, GiveUp(c) \/ NoToken(c) \/ Release(c)
      PROVE  Cardinality(For(d)') >= Quorum
  <2>1. d # c
    BY <1>4 DEF GiveUp, NoToken, Release
  <2> QED
    BY <1>a, <1>4, <2>1, GiveBackKeeps DEF GiveUp, NoToken, Release
<1>5. ASSUME NEW c \in Call, NEW n \in Node, Vote(c, n) \/ LoseReply(c, n) \/ Complain(c, n)
      PROVE  Cardinality(For(d)') >= Quorum
  BY <1>a, <1>5 DEF Vote, LoseReply, Complain
<1>6. ASSUME NEW c \in Call, NEW n \in Node, Expire(c, n) PROVE Cardinality(For(d)') >= Quorum
  BY <1>a, <1>6 DEF Expire
<1>7. ASSUME NEW lost \in SUBSET Node, Outage(lost) PROVE Cardinality(For(d)') >= Quorum
  BY <1>a, <1>7 DEF Outage
<1>8. CASE Recovery
  BY <1>a, <1>8 DEF Recovery
<1>9. CASE Finished \/ UNCHANGED vars
  BY <1>a, <1>9 DEF Finished, vars
<1> QED
  BY <1>1, <1>2, <1>3, <1>4, <1>5, <1>6, <1>7, <1>8, <1>9 DEF Next

\* Every variable keeps its type: in particular no call makes more attempts
\* than its service retries (RetryAttempt).
THEOREM TypeCorrect == Spec => []TypeOK
<1>1. IInv => TypeOK
  BY TypeParts DEF IInv
<1>2. IInv /\ [Next]_vars => IInv'
  BY VoteTypeStep, RestTypeStep, VotesStep, QuorumStep DEF IInv
<1> QED
  BY InitInv, <1>1, <1>2, PTL DEF Spec

\* However many nodes and calls there are, and whatever is lost on the way, no
\* key has two owners: acquireRedlock over several clients excludes.
THEOREM OneOwnerTheorem == Spec => []OneOwner
<1>1. IInv => OneOwner
  <2> SUFFICES ASSUME IInv, NEW c \in Owners, NEW d \in Owners, KeyOf(c) = KeyOf(d)
               PROVE  c = d
    BY DEF OneOwner
  <2>1. PICK n \in Node : vote[c][n] = "for" /\ vote[d][n] = "for"
    <3>1. For(c) \in SUBSET Node /\ For(d) \in SUBSET Node
      BY DEF For
    <3>2. For(c) \cap For(d) # {}
      BY <3>1, QuorumsMeet DEF IInv, OwnersHaveQuorum
    <3> QED
      BY <3>2 DEF For
  <2> QED
    BY <2>1 DEF IInv, VotesAreKept, Owners
<1>2. IInv /\ [Next]_vars => IInv'
  BY VoteTypeStep, RestTypeStep, VotesStep, QuorumStep DEF IInv
<1> QED
  BY InitInv, <1>1, <1>2, PTL DEF Spec

-----------------------------------------------------------------------------
(* What a call may conclude from its votes, and what it leaves behind.      *)

\* A call under way knows of every outage: who is unreachable is in its cut,
\* who has been all along has not voted, or with an error that is not on the
\* list; who is lost to it is in its cut.
Heard(c) ==
    /\ Node \ up \subseteq cut[c]
    /\ dark[c] \subseteq Node \ up
    /\ \A n \in Node :
        /\ vote[c][n] = "lost" => n \in cut[c]
        /\ vote[c][n] \in {"for", "locked"} => n \notin dark[c]
        /\ vote[c][n] = "odd" => n \notin dark[c] \/ n \in Unlisted
        /\ vote[c][n] # "none"
AllHeard == \A c \in Started : Heard(c)

Paths ==
    \A c \in Call :
        /\ pc[c] = "idle" => outcome[c] = "pending"
        /\ pc[c] = "fencing" => kind[c] \in {"with", "token"}

\* A call that has given back what it had has no vote outstanding.
Excused(c) == kind[c] = "token" /\ outcome[c] = "error"
NothingAsked ==
    \A c \in Call : pc[c] = "done" /\ ~Excused(c) => \A n \in Node : vote[c][n] = "none"

VerdictInv ==
    /\ IInv /\ AllHeard /\ Paths /\ NothingAsked
    /\ RecognisedOutageIsNotBusy /\ NoFalseAlarm /\ LeftBehind

\* The invariant behind the verdicts holds before any call.
LEMMA VerdictInit == Init => VerdictInv
<1> SUFFICES ASSUME Init PROVE VerdictInv
  OBVIOUS
<1>1. IInv
  BY InitInv
<1> QED
  BY <1>1 DEF Init, VerdictInv, AllHeard, Started, Paths, NothingAsked,
     RecognisedOutageIsNotBusy,     NoFalseAlarm, LeftBehind

\* Every step keeps what a vote says about the node that gave it.
LEMMA HeardStep ==
    ASSUME VerdictInv, [Next]_vars
    PROVE  AllHeard'
<1> SUFFICES ASSUME NEW d \in Call, pc'[d] \notin {"idle", "done"} PROVE Heard(d)'
  BY DEF AllHeard, Started
<1> USE DEF VerdictInv, IInv, VoteType, RestType, AllHeard, Started, Heard, Goto, Says, Ask, calls, history
<1>a. ASSUME pc[d] \notin {"idle", "done"}, UNCHANGED <<up, cut[d], dark[d], vote[d]>>
      PROVE  Heard(d)'
  BY <1>a
<1>1. ASSUME NEW c \in Call, Start(c) PROVE Heard(d)'
  BY <1>a, <1>1 DEF Start
<1>2. ASSUME NEW c \in Call, Win(c) \/ Token(c) PROVE Heard(d)'
  BY <1>a, <1>2 DEF Win, Token
<1>3. ASSUME NEW c \in Call, RetryAttempt(c) PROVE Heard(d)'
  BY <1>a, <1>3 DEF RetryAttempt
<1>4. ASSUME NEW c \in Call, GiveUp(c) \/ NoToken(c) \/ Release(c) PROVE Heard(d)'
  <2>1. d # c /\ pc[d] = pc'[d] /\ vote'[d] = vote[d]
    BY <1>4, GiveBackKeeps DEF GiveUp, NoToken, Release
  <2> QED
    BY <1>a, <1>4, <2>1 DEF GiveUp, NoToken, TokenFails, Release
<1>5. ASSUME NEW c \in Call, NEW n \in Node, Vote(c, n) PROVE Heard(d)'
  <2>1. CASE d # c
    BY <1>a, <1>5, <2>1 DEF Vote
  <2>2. CASE d = c /\ n \in up
    BY <1>5, <2>2 DEF Vote
  <2>3. CASE d = c /\ n \notin up
    BY <1>5, <2>3 DEF Vote, NoAnswer
  <2> QED
    BY <2>1, <2>2, <2>3
<1>6. ASSUME NEW c \in Call, NEW n \in Node, LoseReply(c, n) \/ Complain(c, n) PROVE Heard(d)'
  BY <1>a, <1>6 DEF LoseReply, Complain, NoAnswer
<1>7. ASSUME NEW c \in Call, NEW n \in Node, Expire(c, n) PROVE Heard(d)'
  BY <1>a, <1>7 DEF Expire
<1>8. ASSUME NEW lost \in SUBSET Node, Outage(lost) PROVE Heard(d)'
  BY <1>8 DEF Outage
<1>9. CASE Recovery
  BY <1>9 DEF Recovery
<1>10. CASE Finished \/ UNCHANGED vars
  BY <1>a, <1>10 DEF Finished, vars
<1> QED
  BY <1>1, <1>2, <1>3, <1>4, <1>5, <1>6, <1>7, <1>8, <1>9, <1>10 DEF Next

\* Every step keeps each kind of call on its own path.
LEMMA PathsStep ==
    ASSUME VerdictInv, [Next]_vars
    PROVE  Paths'
<1> USE DEF VerdictInv, IInv, VoteType, RestType, Paths, Goto, calls, history
<1>1. ASSUME NEW c \in Call, Start(c) PROVE Paths'
  BY <1>1 DEF Start
<1>2. ASSUME NEW c \in Call,
             Win(c) \/ Token(c) \/ RetryAttempt(c) \/ GiveUp(c) \/ NoToken(c) \/ Release(c)
      PROVE  Paths'
  BY <1>2 DEF Win, Token, RetryAttempt, GiveUp, NoToken, TokenFails, Release
<1>3. ASSUME NEW c \in Call, NEW n \in Node,
             Vote(c, n) \/ LoseReply(c, n) \/ Complain(c, n) \/ Expire(c, n)
      PROVE  Paths'
  BY <1>3 DEF Vote, LoseReply, Complain, Expire
<1>4. ASSUME NEW lost \in SUBSET Node, Outage(lost) PROVE Paths'
  BY <1>4 DEF Outage
<1>5. CASE Recovery \/ Finished \/ UNCHANGED vars
  BY <1>5 DEF Recovery, Finished, vars
<1> QED
  BY <1>1, <1>2, <1>3, <1>4, <1>5 DEF Next

\* A call with a quorum for it, or one that lost no vote, has heard from so
\* many nodes that those it never reached are no quorum.
LEMMA HeardFromQuorum ==
    ASSUME VerdictInv, NEW c \in Started, Cardinality(For(c)) >= Quorum
    PROVE  Cardinality(dark[c]) < Quorum
<1>1. dark[c] \in SUBSET Node /\ For(c) \in SUBSET Node /\ For(c) \cap dark[c] = {}
  BY DEF VerdictInv, IInv, RestType, AllHeard, Heard, For, Started
<1>2. Cardinality(dark[c]) \in Nat /\ Quorum \in Nat
  BY <1>1, ContentionAssumption, FS_Subset, FS_CardinalityType DEF Quorum
<1> QED
  BY <1>1, <1>2, QuorumsMeet

\* When every node has answered and isContention says busy, those that were
\* unreachable all along have given errors that are not on the list.
LEMMA HeardFromAll ==
    ASSUME VerdictInv, NEW c \in Started, IsContention(c),
           \A n \in Node : vote[c][n] # "asked"
    PROVE  dark[c] \subseteq Unlisted
  BY DEF VerdictInv, IInv, VoteType, RestType, Ballot, AllHeard, Heard, IsContention, Against, Started

\* The verdict on d is right when it is passed, and stays so.
Right(d) ==
    /\ outcome[d] \in {"lock", "value"} => Cardinality(dark[d]) < Quorum
    /\ outcome[d] \in {"null", "up"} =>
           Cardinality(dark[d]) < Quorum \/ dark[d] \subseteq Unlisted
    /\ outcome[d] \in {"error", "down"} => cut[d] # {}

\* A verdict is right when it is passed, and no later step makes it wrong.
LEMMA RightStep ==
    ASSUME VerdictInv, [Next]_vars
    PROVE  RecognisedOutageIsNotBusy' /\ NoFalseAlarm'
<1> SUFFICES ASSUME NEW d \in Call PROVE Right(d)'
  BY DEF RecognisedOutageIsNotBusy, NoFalseAlarm, Right
<1> USE DEF VerdictInv, IInv, VoteType, RestType, Goto, calls, history
<1>0. Right(d)
  BY DEF RecognisedOutageIsNotBusy, NoFalseAlarm, Right
<1>a. ASSUME outcome'[d] = outcome[d], dark'[d] \subseteq dark[d], cut[d] \subseteq cut'[d]
      PROVE  Right(d)'
  <2>1. IsFiniteSet(dark[d]) /\ IsFiniteSet(dark'[d])
    BY <1>a, ContentionAssumption, FS_Subset
  <2>2. Cardinality(dark'[d]) <= Cardinality(dark[d])
    BY <1>a, <2>1, FS_Subset
  <2>3. Cardinality(dark'[d]) \in Nat /\ Cardinality(dark[d]) \in Nat /\ Quorum \in Nat
    BY <2>1, ContentionAssumption, FS_CardinalityType DEF Quorum
  <2> QED
    BY <1>0, <1>a, <2>2, <2>3 DEF Right
<1>1. ASSUME NEW c \in Call, Start(c) PROVE Right(d)'
  <2>1. CASE d # c
    BY <1>a, <1>1, <2>1 DEF Start
  <2>2. CASE d = c
    BY <1>1, <2>2 DEF Start, Right, Paths
  <2> QED
    BY <2>1, <2>2
<1>2. ASSUME NEW c \in Call, Win(c) \/ Token(c) \/ GiveUp(c) \/ Release(c), d # c
      PROVE  Right(d)'
  BY <1>a, <1>2 DEF Win, Token, GiveUp, Release
<1>3. ASSUME Win(d) \/ Token(d) \/ Release(d) PROVE Right(d)'
  <2>1. d \in Started /\ Cardinality(For(d)) >= Quorum
    BY <1>3 DEF Win, Token, Release, Started, OwnersHaveQuorum, Owners
  <2>2. Cardinality(dark[d]) < Quorum
    BY <2>1, HeardFromQuorum
  <2>3. UNCHANGED <<dark, cut>> /\ (outcome'[d] \in {"pending", "lock", "value", "up"} \/ outcome'[d] = outcome[d])
    BY <1>3 DEF Win, Token, Release
  <2> QED
    BY <1>0, <2>2, <2>3 DEF Right
<1>4. ASSUME GiveUp(d) PROVE Right(d)'
  <2>1. d \in Started /\ UNCHANGED <<dark, cut>> /\ outcome'[d] = Verdict(d)
    BY <1>4 DEF GiveUp, Started
  <2>2. CASE IsContention(d)
    <3>1. dark[d] \subseteq Unlisted
      BY <1>4, <2>1, <2>2, HeardFromAll DEF GiveUp
    <3> QED
      BY <2>1, <2>2, <3>1 DEF Right, Verdict
  <2>3. CASE ~IsContention(d)
    <3>1. PICK n \in Node : vote[d][n] = "lost"
      BY <2>3 DEF IsContention, Against
    <3>2. cut[d] # {}
      BY <2>1, <3>1 DEF AllHeard, Heard
    <3> QED
      BY <2>1, <2>3, <3>2 DEF Right, Verdict
  <2> QED
    BY <2>2, <2>3
<1>5. ASSUME NEW c \in Call, NoToken(c) PROVE Right(d)'
  <2>1. CASE d # c
    BY <1>a, <1>5, <2>1 DEF NoToken, TokenFails
  <2>2. CASE d = c
    <3>0. Heard(c) /\ pc[c] = "fencing"
      BY <1>5 DEF NoToken, TokenFails, AllHeard, Started
    <3>a. ASSUME First \notin up, UNCHANGED cut PROVE First \in cut'[d]
      BY <2>2, <3>0, <3>a, ContentionAssumption DEF Heard
    <3>b. ASSUME cut' = [cut EXCEPT ![c] = @ \cup {First}] PROVE First \in cut'[d]
      BY <2>2, <3>b DEF RestType
    <3>1. First \in cut'[d]
      BY <1>5, <3>a, <3>b DEF NoToken, TokenFails
    <3>2. outcome'[d] = "error"
      BY <1>5, <2>2 DEF NoToken
    <3> QED
      BY <3>1, <3>2 DEF Right
  <2> QED
    BY <2>1, <2>2
<1>6. ASSUME NEW c \in Call, RetryAttempt(c) PROVE Right(d)'
  BY <1>a, <1>6 DEF RetryAttempt
<1>7. ASSUME NEW c \in Call, NEW n \in Node,
             Vote(c, n) \/ LoseReply(c, n) \/ Complain(c, n) \/ Expire(c, n)
      PROVE  Right(d)'
  BY <1>a, <1>7 DEF Vote, LoseReply, Complain, Expire
<1>8. ASSUME NEW lost \in SUBSET Node, Outage(lost) PROVE Right(d)'
  BY <1>a, <1>8 DEF Outage
<1>9. CASE Recovery
  BY <1>a, <1>9 DEF Recovery
<1>10. CASE Finished \/ UNCHANGED vars
  BY <1>a, <1>10 DEF Finished, vars
<1> QED
  BY <1>1, <1>2, <1>3, <1>4, <1>5, <1>6, <1>7, <1>8, <1>9, <1>10 DEF Next

\* What d leaves behind lies where d could not reach.
Tidy(d) ==
    pc[d] = "done" /\ ~Excused(d) =>
        \A n \in Node : vote[d][n] = "none" /\ (keys[n][KeyOf(d)] = d => n \in cut[d])

\* A finished call leaves nothing where it could reach, and nothing is asked of
\* a node on its behalf any more.
LEMMA TidyStep ==
    ASSUME VerdictInv, [Next]_vars
    PROVE  NothingAsked' /\ LeftBehind'
<1> SUFFICES ASSUME NEW d \in Call PROVE Tidy(d)'
  BY DEF NothingAsked, LeftBehind, Tidy, Excused
<1> USE DEF VerdictInv, IInv, VoteType, RestType, Goto, Says, Ask, calls, history
<1>0. Tidy(d) /\ d # Nobody /\ KeyOf(d) \in Key
  BY ContentionAssumption DEF NothingAsked, LeftBehind, Tidy, Excused, KeyOf, Key
<1>a. ASSUME UNCHANGED <<pc[d], outcome[d], kind[d]>>, vote'[d] = vote[d], cut[d] \subseteq cut'[d],
             \A n \in Node : keys'[n][KeyOf(d)] = d => keys[n][KeyOf(d)] = d
      PROVE  Tidy(d)'
  BY <1>0, <1>a DEF Tidy, Excused, KeyOf
<1>b. ASSUME pc'[d] # "done" PROVE Tidy(d)'
  BY <1>b DEF Tidy
<1>1. ASSUME NEW c \in Call, Start(c) \/ Win(c) \/ Token(c) \/ RetryAttempt(c) PROVE Tidy(d)'
  <2>1. CASE d = c
    BY <1>b, <1>1, <2>1 DEF Start, Win, Token, RetryAttempt
  <2>2. CASE d # c
    BY <1>a, <1>1, <2>2 DEF Start, Win, Token, RetryAttempt
  <2> QED
    BY <2>1, <2>2
<1>2. ASSUME NEW c \in Call, GiveBack(c), d # c, kind' = kind, cut[d] \subseteq cut'[d],
             UNCHANGED <<pc[d], outcome[d]>>
      PROVE  Tidy(d)'
  <2>1. \A n \in Node : keys'[n][KeyOf(d)] = d => keys[n][KeyOf(d)] = d
    BY <1>0, <1>2 DEF GiveBack, KeyOf, Key
  <2> QED
    BY <1>a, <1>2, <2>1, GiveBackKeeps
<1>3. ASSUME GiveBack(d), kind' = kind, up' = up, d \in Started, cut[d] \subseteq cut'[d]
      PROVE  Tidy(d)'
  <2>1. ASSUME NEW n \in Node, keys'[n][KeyOf(d)] = d PROVE n \in cut'[d]
    <3>1. n \notin up
      BY <1>0, <1>3, <2>1 DEF GiveBack, KeyOf, Key
    <3> QED
      BY <1>3, <3>1 DEF AllHeard, Heard
  <2>2. \A n \in Node : vote'[d][n] = "none" /\ KeyOf(d)' = KeyOf(d)
    BY <1>3 DEF GiveBack, KeyOf
  <2> QED
    BY <2>1, <2>2 DEF Tidy
<1>4. ASSUME NEW c \in Call, GiveUp(c) \/ Release(c) PROVE Tidy(d)'
  <2>1. CASE d = c
    BY <1>3, <1>4, <2>1 DEF GiveUp, Release, Started
  <2>2. CASE d # c
    BY <1>2, <1>4, <2>2 DEF GiveUp, Release
  <2> QED
    BY <2>1, <2>2
<1>5. ASSUME NEW c \in Call, NoToken(c) PROVE Tidy(d)'
  <2>1. cut[d] \subseteq cut'[d] /\ kind' = kind /\ up' = up /\ c \in Started
    BY <1>5 DEF NoToken, TokenFails, Started
  <2>2. CASE d = c /\ kind[c] = "with"
    BY <1>3, <1>5, <2>1, <2>2 DEF NoToken
  <2>3. CASE d = c /\ kind[c] = "token"
    BY <1>5, <2>1, <2>3 DEF NoToken, Tidy, Excused
  <2>4. CASE d # c /\ kind[c] = "with"
    BY <1>2, <1>5, <2>1, <2>4 DEF NoToken
  <2>5. CASE d # c /\ kind[c] # "with"
    BY <1>a, <1>5, <2>1, <2>5 DEF NoToken
  <2> QED
    BY <1>5, <2>2, <2>3, <2>4, <2>5 DEF NoToken, TokenFails, Paths
<1>6. ASSUME NEW c \in Call, NEW n \in Node, Vote(c, n) \/ LoseReply(c, n) PROVE Tidy(d)'
  <2>1. /\ vote[c][n] = "asked" /\ keys' \in {keys, Stored(c, n)}
        /\ UNCHANGED <<pc, kind, outcome>> /\ cut[d] \subseteq cut'[d]
    <3>1. CASE Vote(c, n)
      <4>1. keys' \in {keys, Stored(c, n)}
        BY <3>1 DEF Vote
      <4> QED
        BY <3>1, <4>1 DEF Vote
    <3>2. CASE LoseReply(c, n)
      BY <3>2 DEF LoseReply
    <3> QED
      BY <1>6, <3>1, <3>2
  <2>2. CASE d = c
    BY <1>0, <2>1, <2>2 DEF Tidy, Excused
  <2>3. CASE d # c
    <3>1. \A m \in Node : keys'[m][KeyOf(d)] = d => keys[m][KeyOf(d)] = d
      <4> TAKE m \in Node
      <4>1. CASE keys' = keys
        BY <4>1
      <4>2. CASE keys' = [keys EXCEPT ![n][KeyOf(c)] = c]
        BY <1>0, <2>3, <4>2
      <4> QED
        BY <2>1, <4>1, <4>2 DEF Stored
    <3>2. vote'[d] = vote[d]
      BY <1>6, <2>3 DEF Vote, LoseReply
    <3> QED
      BY <1>a, <2>1, <3>1, <3>2
  <2> QED
    BY <2>2, <2>3
<1>7. ASSUME NEW c \in Call, NEW n \in Node, Complain(c, n) PROVE Tidy(d)'
  <2>1. CASE d = c
    BY <1>0, <1>7, <2>1 DEF Complain, Tidy, Excused
  <2>2. CASE d # c
    BY <1>a, <1>7, <2>2 DEF Complain
  <2> QED
    BY <2>1, <2>2
<1>8. ASSUME NEW c \in Call, NEW n \in Node, Expire(c, n) PROVE Tidy(d)'
  <2>1. \A m \in Node : keys'[m][KeyOf(d)] = d => keys[m][KeyOf(d)] = d
    BY <1>0, <1>8 DEF Expire, KeyOf, Key
  <2> QED
    BY <1>a, <1>8, <2>1 DEF Expire
<1>9. ASSUME NEW lost \in SUBSET Node, Outage(lost) PROVE Tidy(d)'
  BY <1>a, <1>9 DEF Outage
<1>10. CASE Recovery \/ Finished \/ UNCHANGED vars
  BY <1>a, <1>10 DEF Recovery, Finished, vars
<1> QED
  BY <1>1, <1>4, <1>5, <1>6, <1>7, <1>8, <1>9, <1>10 DEF Next

\* The parts of the invariant need each other, and together are inductive.
LEMMA VerdictStep == VerdictInv /\ [Next]_vars => VerdictInv'
  BY VoteTypeStep, RestTypeStep, VotesStep, QuorumStep, HeardStep, PathsStep, RightStep, TidyStep
  DEF VerdictInv, IInv

\* For any number of nodes, outages and lost replies: a call that never had a
\* quorum of reachable nodes gets no lock, and is told of an outage, never that
\* the resource is busy, if one of the nodes that were dark all along fails with
\* an error that isConnectionError knows (isContention, isHealthy).
THEOREM RecognisedOutageTheorem == Spec => []RecognisedOutageIsNotBusy
<1>1. VerdictInv => RecognisedOutageIsNotBusy
  BY DEF VerdictInv
<1> QED
  BY VerdictInit, VerdictStep, <1>1, PTL DEF Spec

\* And one whose nodes were reachable and answered throughout never is.
THEOREM NoFalseAlarmTheorem == Spec => []NoFalseAlarm
<1>1. VerdictInv => NoFalseAlarm
  BY DEF VerdictInv
<1> QED
  BY VerdictInit, VerdictStep, <1>1, PTL DEF Spec

\* Only the lock of a tryLockWithToken whose token was rejected stays on nodes
\* that its call could reach.
THEOREM LeftBehindTheorem == Spec => []LeftBehind
<1>1. VerdictInv => LeftBehind
  BY DEF VerdictInv
<1> QED
  BY VerdictInit, VerdictStep, <1>1, PTL DEF Spec
=============================================================================
