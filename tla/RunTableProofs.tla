------------------------------- MODULE RunTableProofs -------------------------
(***************************************************************************)
(* The rows of ExportRun: the properties of RunAdmission for any number of *)
(* requests, any limit and any number of runs a job has already, and those *)
(* of RunExpiration for any runs, users, requests and intervals between    *)
(* warnings.                                                               *)
(*                                                                         *)
(* Admission.  A request makes room as it counted the runs, and others may *)
(* commit theirs meanwhile.  What has to be known is that it sees no more  *)
(* runs than it has counted and others have committed since, and that of   *)
(* those others and the requests under way all but one have raced.         *)
(*                                                                         *)
(* Expiration.  A deletion looks at a copy of a row, and at the warning    *)
(* this copy knows of.  What has to be known is that no copy, in the       *)
(* table, in the pass or in a request, knows of a warning that was not     *)
(* made, and what a pass says of the runs it leaves alone.                 *)
(***************************************************************************)
EXTENDS RunAdmission, RunExpiration, FiniteSetTheorems, TLAPS

Accepted == {q \in Requests : pc[q] = "accepted"}
Numbers == {q \in Requests : pc[q] \in {"commit", "accepted", "refused"}}

Phases == {"waiting", "evict", "save", "commit", "accepted", "refused"}

PcOK == pc \in [Requests -> Phases] /\ raced \subseteq Requests
RunsOK == /\ next \in Nat \ {0} /\ live \subseteq 1..(next - 1)
          /\ deleted \in [Requests -> SUBSET (1..(next - 1))]
          /\ victim \in [Requests -> 0..(next - 1)] /\ mine \in [Requests -> 0..(next - 1)]
CountOK == count \in [Requests -> 0..(OldRuns + Cardinality(Requests))]

\* Runs are numbered by the requests that have created one, or have ended since.
Numbered == next <= OldRuns + 1 + Cardinality(Numbers)

\* A request deletes as long as it counts too many, and creates when there is room.
Room == \A q \in Requests : /\ pc[q] = "save" => count[q] >= MaxRuns /\ victim[q] # 0
                            /\ pc[q] = "commit" => count[q] < MaxRuns /\ mine[q] # 0

\* The runs that will be left when the one about to be deleted has gone, and how
\* many q believes these are.
Left(q) == IF pc[q] = "save" THEN Visible(q) \ {victim[q]} ELSE Visible(q)
Believed(q) == IF pc[q] = "save" THEN count[q] - 1 ELSE count[q]

AllButOneRaced(S) == \A p, q \in S : p \notin raced /\ q \notin raced => p = q

\* Those of S have committed since q counted.
Since(q, S) == /\ S \subseteq Accepted
               /\ Cardinality(Left(q)) <= Believed(q) + Cardinality(S)
               /\ AllButOneRaced(S \cup UnderWay)

Accounted == \A q \in UnderWay : \E S \in SUBSET Requests : Since(q, S)

IInv == /\ PcOK /\ RunsOK /\ CountOK
        /\ Numbered /\ Room /\ Accounted /\ AllButOneRaced(UnderWay)
        /\ BoundedExcess

-------------------------------------------------------------------------------
(* Numbers and cardinalities *)

LEMMA RequestsCounted ==
    /\ Cardinality(Requests) \in Nat /\ OldRuns \in Nat
    /\ MaxRuns \in Nat /\ MaxRuns > 0
    /\ \A S \in SUBSET Requests : /\ IsFiniteSet(S) /\ Cardinality(S) \in Nat
                                  /\ Cardinality(S) <= Cardinality(Requests)
<1>1. Cardinality(Requests) \in Nat BY FS_CardinalityType, RequestsAssumption
<1>2. ASSUME NEW S \in SUBSET Requests
      PROVE  /\ IsFiniteSet(S) /\ Cardinality(S) \in Nat
             /\ Cardinality(S) <= Cardinality(Requests)
  <2>1. IsFiniteSet(S) /\ Cardinality(S) <= Cardinality(Requests)
    BY FS_Subset, RequestsAssumption
  <2> QED BY <2>1, FS_CardinalityType
<1> QED BY <1>1, <1>2, MaxRunsAssumption, OldRunsAssumption

LEMMA NumberBounded == ASSUME Numbered, next \in Nat PROVE next <= OldRuns + Cardinality(Requests) + 1
<1>1. Cardinality(Numbers) \in Nat /\ Cardinality(Numbers) <= Cardinality(Requests)
  BY RequestsCounted DEF Numbers
<1> QED BY <1>1, RequestsCounted DEF Numbered

LEMMA TypesImplyTypeOK == ASSUME PcOK, RunsOK, CountOK, Numbered PROVE TypeOK
<1>1. next \in 1..(OldRuns + Cardinality(Requests) + 1)
  BY NumberBounded, RequestsCounted DEF RunsOK
<1> QED BY <1>1 DEF TypeOK, PcOK, Phases, RunsOK, CountOK

\* No number is given without a request that took it.
LEMMA NumbersGiven ==
    ASSUME RunsOK, Numbered, next' = next, \A q \in Numbers : q \in Numbers'
    PROVE  Numbered'
<1>1. /\ Numbers \in SUBSET Requests /\ Numbers' \in SUBSET Requests
      /\ Numbers \subseteq Numbers'
  BY DEF Numbers
<1>2. /\ Cardinality(Numbers) \in Nat /\ Cardinality(Numbers') \in Nat
      /\ IsFiniteSet(Numbers')
  BY <1>1, RequestsCounted
<1>3. Cardinality(Numbers) <= Cardinality(Numbers') BY <1>1, <1>2, FS_Subset
<1>4. next' <= OldRuns + 1 + Cardinality(Numbers')
  BY <1>2, <1>3, RequestsCounted DEF RunsOK, Numbered
<1> QED BY <1>4 DEF Numbered

\* Sets of runs are finite, and no larger than the numbers given so far.
LEMMA RunsCounted ==
    ASSUME NEW n \in Nat \ {0}, NEW L \in SUBSET (1..(n - 1))
    PROVE  IsFiniteSet(L) /\ Cardinality(L) \in Nat /\ Cardinality(L) <= n - 1
<1>1. IsFiniteSet(1..(n - 1)) /\ Cardinality(1..(n - 1)) = n - 1 BY FS_Interval
<1>2. IsFiniteSet(L) /\ Cardinality(L) <= Cardinality(1..(n - 1)) BY <1>1, FS_Subset
<1> QED BY <1>1, <1>2, FS_CardinalityType

LEMMA LeftTyped ==
    ASSUME RunsOK, NEW q \in Requests
    PROVE  /\ Visible(q) \subseteq 1..(next - 1) /\ Left(q) \subseteq 1..(next - 1)
           /\ IsFiniteSet(Visible(q)) /\ Cardinality(Visible(q)) \in Nat
           /\ IsFiniteSet(Left(q)) /\ Cardinality(Left(q)) \in Nat
<1>1. Visible(q) \subseteq 1..(next - 1) /\ Left(q) \subseteq 1..(next - 1)
  BY DEF RunsOK, Visible, Left
<1> QED BY <1>1, RunsCounted DEF RunsOK

\* One more element, whatever else has gone.
LEMMA OneMore ==
    ASSUME NEW L, IsFiniteSet(L), NEW x, NEW K \in SUBSET (L \cup {x})
    PROVE  IsFiniteSet(K) /\ Cardinality(K) \in Nat /\ Cardinality(K) <= Cardinality(L) + 1
<1>0. Cardinality(L) \in Nat BY FS_CardinalityType
<1>1. IsFiniteSet(L \cup {x}) /\ Cardinality(L \cup {x}) <= Cardinality(L) + 1
  BY <1>0, FS_AddElement
<1>2. IsFiniteSet(K) /\ Cardinality(K) <= Cardinality(L \cup {x}) BY <1>1, FS_Subset
<1>3. /\ Cardinality(K) \in Nat /\ Cardinality(L) \in Nat
      /\ Cardinality(L \cup {x}) \in Nat
  BY <1>1, <1>2, FS_CardinalityType
<1> QED BY <1>1, <1>2, <1>3

-------------------------------------------------------------------------------
(* What a step of one request leaves to the others *)

\* The state of every request but o.
OnlyOf(o) ==
    \A q \in Requests : q # o => /\ pc'[q] = pc[q] /\ count'[q] = count[q]
                                 /\ victim'[q] = victim[q] /\ deleted'[q] = deleted[q]

\* A step by o that commits nothing and, when o begins beside others, counts it as raced.
LEMMA OthersKeep ==
    ASSUME IInv, NEW o \in Requests, OnlyOf(o), live' = live, Accepted \subseteq Accepted',
           raced \subseteq raced', UnderWay' \subseteq UnderWay \cup {o},
           o \in UnderWay \/ o \notin UnderWay' \/ UnderWay = {} \/ o \in raced',
           NEW q \in UnderWay', q # o
    PROVE  \E S \in SUBSET Requests : Since(q, S)'
<1>1. q \in UnderWay /\ q \in Requests BY DEF UnderWay
<1>2. PICK S \in SUBSET Requests : Since(q, S) BY <1>1 DEF IInv, Accounted
<1>3. Left(q)' = Left(q) /\ Believed(q)' = Believed(q)
  BY <1>1 DEF OnlyOf, Left, Believed, Visible
<1>4. AllButOneRaced(S \cup UnderWay)' BY <1>1, <1>2 DEF Since, AllButOneRaced
<1> QED BY <1>2, <1>3, <1>4 DEF Since

LEMMA ExcessKept ==
    ASSUME IInv, live' = live, raced \subseteq raced', raced' \subseteq Requests,
           Accepted' = Accepted
    PROVE  BoundedExcess'
<1>1. Cardinality(raced) \in Nat /\ Cardinality(raced') \in Nat
      /\ Cardinality(raced) <= Cardinality(raced')
  BY FS_Subset, RequestsCounted DEF IInv, PcOK
<1>2. Cardinality(live) \in Nat BY RunsCounted DEF IInv, RunsOK
<1>3. (\E q \in Requests : pc'[q] = "accepted") <=> (\E q \in Requests : pc[q] = "accepted")
  BY DEF Accepted
<1>4. CASE \E q \in Requests : pc[q] = "accepted"
  <2>1. Cardinality(live) <= MaxRuns + Cardinality(raced) BY <1>4 DEF IInv, BoundedExcess
  <2>2. Cardinality(live) <= MaxRuns + Cardinality(raced')
    BY ONLY <1>1, <1>2, <2>1, RequestsCounted
  <2> QED BY <2>2 DEF BoundedExcess
<1> QED BY <1>3, <1>4 DEF BoundedExcess

\* A request that ends without committing leaves no trace.
LEMMA EndsPreserve ==
    ASSUME IInv, NEW o \in Requests, Refuse(o) \/ NothingToEvict(o) \/ Abort(o)
    PROVE  IInv'
<1>1. /\ pc[o] \in {"waiting", "evict", "save", "commit"} /\ pc' = [pc EXCEPT ![o] = "refused"]
      /\ \/ UNCHANGED <<count, victim, deleted, mine>>
         \/ /\ count' = [count EXCEPT ![o] = 0] /\ victim' = [victim EXCEPT ![o] = 0]
            /\ deleted' = [deleted EXCEPT ![o] = {}] /\ mine' = [mine EXCEPT ![o] = 0]
      /\ UNCHANGED <<live, next, raced>>
  BY DEF Refuse, NothingToEvict, Abort, EndAs, UnderWay
<1>2. PcOK' /\ RunsOK' /\ CountOK'
  <2>1. PcOK' BY <1>1 DEF IInv, PcOK, Phases
  <2>2. RunsOK' BY <1>1 DEF IInv, RunsOK
  <2>3. CountOK' BY <1>1, RequestsCounted DEF IInv, CountOK
  <2> QED BY <2>1, <2>2, <2>3
<1>3. Numbered' BY <1>1, NumbersGiven DEF IInv, PcOK, Numbers
<1>4. Room' BY <1>1 DEF IInv, PcOK, RunsOK, CountOK, Room
<1>5. Accepted' = Accepted /\ UnderWay' = UnderWay \ {o}
  BY <1>1 DEF IInv, PcOK, Accepted, UnderWay
<1>6. OnlyOf(o) BY <1>1 DEF IInv, PcOK, RunsOK, CountOK, OnlyOf
<1>7. Accounted' BY <1>1, <1>5, <1>6, OthersKeep DEF Accounted
<1>8. AllButOneRaced(UnderWay)' BY <1>1, <1>5 DEF IInv, AllButOneRaced
<1>9. BoundedExcess' BY <1>1, <1>2, <1>5, ExcessKept DEF PcOK
<1> QED BY <1>2, <1>3, <1>4, <1>7, <1>8, <1>9 DEF IInv

LEMMA CountRunsPreserves == ASSUME IInv, NEW o \in Requests, CountRuns(o) PROVE IInv'
<1>1. /\ pc[o] = "waiting" /\ pc' = [pc EXCEPT ![o] = "evict"]
      /\ count' = [count EXCEPT ![o] = Cardinality(Visible(o))]
      /\ raced' = IF UnderWay = {} THEN raced ELSE raced \cup {o}
      /\ UNCHANGED <<live, next, victim, deleted, mine>>
  BY DEF CountRuns
<1>2. PcOK' /\ RunsOK' BY <1>1 DEF IInv, PcOK, Phases, RunsOK
<1>3. CountOK'
  <2>1. /\ Cardinality(Visible(o)) \in Nat /\ Cardinality(Visible(o)) <= next - 1
        /\ next \in Nat /\ next <= OldRuns + Cardinality(Requests) + 1
    BY LeftTyped, RunsCounted, NumberBounded DEF IInv, RunsOK
  <2>2. Cardinality(Visible(o)) \in 0..(OldRuns + Cardinality(Requests))
    BY ONLY <2>1, RequestsCounted
  <2> QED BY <1>1, <2>2 DEF IInv, CountOK
<1>4. Numbered' BY <1>1, NumbersGiven DEF IInv, PcOK, Numbers
<1>5. Room' BY <1>1 DEF IInv, PcOK, CountOK, Room
<1>6. Accepted' = Accepted /\ UnderWay' = UnderWay \cup {o} /\ o \notin UnderWay
  BY <1>1 DEF IInv, PcOK, Accepted, UnderWay
<1>7. OnlyOf(o) BY <1>1 DEF IInv, PcOK, CountOK, OnlyOf
<1>8. AllButOneRaced(UnderWay)' BY <1>1, <1>6 DEF IInv, AllButOneRaced
<1>9. Since(o, {})'
  <2>1. Left(o)' = Visible(o) /\ Believed(o)' = Cardinality(Visible(o))
    BY <1>1 DEF IInv, PcOK, CountOK, Left, Believed, Visible
  <2>2. Cardinality(Visible(o)) \in Nat /\ Cardinality({}) = 0
    BY LeftTyped, FS_EmptySet DEF IInv
  <2>3. Cardinality(Left(o))' <= Believed(o)' + Cardinality({}) BY <2>1, <2>2
  <2>4. AllButOneRaced({} \cup UnderWay)' BY <1>8 DEF AllButOneRaced
  <2> QED BY <2>3, <2>4 DEF Since
<1>10. ASSUME NEW q \in UnderWay', q # o PROVE \E S \in SUBSET Requests : Since(q, S)'
  BY <1>1, <1>6, <1>7, <1>10, OthersKeep
<1>11. Accounted' BY <1>9, <1>10 DEF Accounted
<1>12. BoundedExcess' BY <1>1, <1>2, <1>6, ExcessKept DEF PcOK
<1> QED BY <1>2, <1>3, <1>4, <1>5, <1>8, <1>11, <1>12 DEF IInv

\* Steps of a request under way that commit nothing.
LEMMA WorkPreserves ==
    ASSUME IInv, NEW o \in Requests, PickEarliest(o) \/ SoftDelete(o) \/ CreateRun(o),
           PcOK', RunsOK', CountOK', Numbered', Room', OnlyOf(o),
           Cardinality(Left(o))' - Believed(o)' <= Cardinality(Left(o)) - Believed(o)
    PROVE  IInv'
<1>1. /\ pc[o] \in {"evict", "save"} /\ pc'[o] \in {"evict", "save", "commit"}
      /\ live' = live /\ raced' = raced
  BY DEF PickEarliest, SoftDelete, CreateRun, IInv, PcOK
<1>2. UnderWay' = UnderWay /\ Accepted' = Accepted /\ o \in UnderWay
  BY <1>1 DEF OnlyOf, UnderWay, Accepted
<1>3. PICK S \in SUBSET Requests : Since(o, S) BY <1>2 DEF IInv, Accounted
<1>4. Since(o, S)'
  <2>1. /\ Cardinality(Left(o)) \in Nat /\ Cardinality(Left(o))' \in Nat
        /\ Cardinality(S) \in Nat /\ Believed(o) \in Int /\ Believed(o)' \in Int
    <3>1. Cardinality(Left(o)) \in Nat BY LeftTyped DEF IInv
    <3>2. Cardinality(Left(o))' \in Nat
      <4>1. next' \in Nat \ {0} /\ Left(o)' \subseteq 1..(next' - 1)
        BY DEF RunsOK, Left, Visible
      <4> QED BY <4>1, RunsCounted
    <3>3. count[o] \in Nat /\ count'[o] \in Nat BY RequestsCounted DEF IInv, CountOK
    <3> QED BY <3>1, <3>2, <3>3, RequestsCounted DEF Believed
  <2>2. Cardinality(Left(o)) <= Believed(o) + Cardinality(S) BY <1>3 DEF Since
  <2>3. Cardinality(Left(o))' <= Believed(o)' + Cardinality(S) BY <2>1, <2>2
  <2> QED BY <1>1, <1>2, <1>3, <2>3 DEF Since, AllButOneRaced
<1>5. ASSUME NEW q \in UnderWay', q # o PROVE \E T \in SUBSET Requests : Since(q, T)'
  BY <1>1, <1>2, <1>5, OthersKeep
<1>6. Accounted' BY <1>4, <1>5 DEF Accounted
<1>7. AllButOneRaced(UnderWay)' BY <1>1, <1>2 DEF IInv, AllButOneRaced
<1>8. BoundedExcess' BY <1>1, <1>2, ExcessKept DEF PcOK
<1> QED BY <1>6, <1>7, <1>8 DEF IInv

LEMMA PickEarliestPreserves == ASSUME IInv, NEW o \in Requests, PickEarliest(o) PROVE IInv'
<1>0. PICK r \in Visible(o) : victim' = [victim EXCEPT ![o] = r] BY DEF PickEarliest
<1>1. /\ pc[o] = "evict" /\ count[o] > MaxRuns - 1 /\ pc' = [pc EXCEPT ![o] = "save"]
      /\ UNCHANGED <<live, next, count, deleted, mine, raced>>
  BY DEF PickEarliest
<1>2. r \in 1..(next - 1) /\ next \in Nat BY LeftTyped DEF IInv, RunsOK
<1>3. r \in 0..(next - 1) BY ONLY <1>2
<1>4. count[o] \in Nat /\ count[o] >= MaxRuns BY <1>1, RequestsCounted DEF IInv, CountOK
<1>5. PcOK' /\ RunsOK' /\ CountOK' BY <1>0, <1>1, <1>3 DEF IInv, PcOK, Phases, RunsOK, CountOK
<1>7. Numbered' /\ Room'
  <2>1. r # 0 BY ONLY <1>2
  <2>2. Numbered' BY <1>1, NumbersGiven DEF IInv, PcOK, Numbers
  <2>3. Room' BY <1>0, <1>1, <1>4, <2>1 DEF IInv, PcOK, RunsOK, Room
  <2> QED BY <2>2, <2>3
<1>8. OnlyOf(o) BY <1>0, <1>1 DEF IInv, PcOK, RunsOK, OnlyOf
<1>9. Cardinality(Left(o))' - Believed(o)' <= Cardinality(Left(o)) - Believed(o)
  <2>1. /\ Left(o)' = Visible(o) \ {r} /\ Left(o) = Visible(o)
        /\ Believed(o)' = count[o] - 1 /\ Believed(o) = count[o]
    BY <1>0, <1>1 DEF IInv, PcOK, RunsOK, Left, Believed, Visible
  <2>2. IsFiniteSet(Visible(o)) /\ Cardinality(Visible(o)) \in Nat BY LeftTyped DEF IInv
  <2>3. Cardinality(Visible(o) \ {r}) = Cardinality(Visible(o)) - 1
    BY <2>2, FS_RemoveElement
  <2> QED BY <1>4, <2>1, <2>2, <2>3
<1> QED BY <1>5, <1>7, <1>8, <1>9, WorkPreserves

LEMMA SoftDeletePreserves == ASSUME IInv, NEW o \in Requests, SoftDelete(o) PROVE IInv'
<1>1. /\ pc[o] = "save" /\ pc' = [pc EXCEPT ![o] = "evict"]
      /\ deleted' = [deleted EXCEPT ![o] = deleted[o] \cup {victim[o]}]
      /\ count' = [count EXCEPT ![o] = count[o] - 1]
      /\ victim' = [victim EXCEPT ![o] = 0]
      /\ UNCHANGED <<live, next, mine, raced>>
  BY DEF SoftDelete
<1>2. count[o] \in Nat /\ count[o] >= MaxRuns /\ victim[o] # 0
  BY <1>1, RequestsCounted DEF IInv, CountOK, Room
<1>3. count[o] - 1 \in 0..(OldRuns + Cardinality(Requests))
  BY <1>2, RequestsCounted DEF IInv, CountOK
<1>4. deleted[o] \cup {victim[o]} \subseteq 1..(next - 1)
  <2>1. victim[o] \in 0..(next - 1) /\ next \in Nat BY DEF IInv, RunsOK
  <2>2. victim[o] \in 1..(next - 1) BY ONLY <1>2, <2>1
  <2> QED BY <2>2 DEF IInv, RunsOK
<1>5. PcOK' /\ CountOK' BY <1>1, <1>3 DEF IInv, PcOK, Phases, CountOK
<1>6. RunsOK' BY <1>1, <1>4 DEF IInv, RunsOK
<1>7. Numbered' BY <1>1, NumbersGiven DEF IInv, PcOK, Numbers
<1>8. Room' BY <1>1 DEF IInv, PcOK, CountOK, RunsOK, Room
<1>9. OnlyOf(o) BY <1>1 DEF IInv, PcOK, RunsOK, CountOK, OnlyOf
<1>10. /\ Left(o)' = Left(o) /\ Believed(o)' = Believed(o)
       /\ Cardinality(Left(o)) \in Nat /\ Believed(o) \in Int
  <2>1. Left(o)' = Left(o)
    BY <1>1 DEF IInv, PcOK, RunsOK, Left, Visible
  <2>2. Believed(o)' = Believed(o) /\ Believed(o) \in Int
    BY <1>1, <1>2 DEF IInv, PcOK, CountOK, Believed
  <2> QED BY <2>1, <2>2, LeftTyped DEF IInv
<1>11. Cardinality(Left(o))' - Believed(o)' <= Cardinality(Left(o)) - Believed(o) BY <1>10
<1> QED BY <1>5, <1>6, <1>7, <1>8, <1>9, <1>11, WorkPreserves

LEMMA CreateRunPreserves == ASSUME IInv, NEW o \in Requests, CreateRun(o) PROVE IInv'
<1>1. /\ pc[o] = "evict" /\ count[o] <= MaxRuns - 1 /\ pc' = [pc EXCEPT ![o] = "commit"]
      /\ mine' = [mine EXCEPT ![o] = next] /\ next' = next + 1
      /\ UNCHANGED <<live, count, victim, deleted, raced>>
  BY DEF CreateRun
<1>2. count[o] \in Nat /\ count[o] < MaxRuns
  BY <1>1, RequestsCounted DEF IInv, CountOK
<1>3. next \in Nat \ {0} /\ next' \in Nat \ {0} /\ next # 0 /\ next \in 0..(next' - 1)
      /\ 1..(next - 1) \subseteq 1..(next' - 1) /\ 0..(next - 1) \subseteq 0..(next' - 1)
  BY <1>1 DEF IInv, RunsOK
<1>4. PcOK' /\ CountOK' BY <1>1 DEF IInv, PcOK, Phases, CountOK
<1>5. RunsOK'
  <2>1. live' \subseteq 1..(next' - 1) /\ deleted' \in [Requests -> SUBSET (1..(next' - 1))]
    BY <1>1, <1>3 DEF IInv, RunsOK
  <2>2. victim' \in [Requests -> 0..(next' - 1)] BY <1>1, <1>3 DEF IInv, RunsOK
  <2>3. mine \in [Requests -> 0..(next' - 1)] BY <1>3 DEF IInv, RunsOK
  <2>4. mine' \in [Requests -> 0..(next' - 1)] BY <1>1, <1>3, <2>3
  <2> QED BY <1>3, <2>1, <2>2, <2>4 DEF RunsOK
<1>6. Numbered'
  <2>1. Numbers' = Numbers \cup {o} /\ o \notin Numbers
    BY <1>1 DEF IInv, PcOK, Numbers
  <2>2. IsFiniteSet(Numbers) /\ Cardinality(Numbers) \in Nat
    BY RequestsCounted DEF Numbers
  <2>3. Cardinality(Numbers') = Cardinality(Numbers) + 1 BY <2>1, <2>2, FS_AddElement
  <2>4. next <= OldRuns + 1 + Cardinality(Numbers) BY DEF IInv, Numbered
  <2>5. next' <= OldRuns + 1 + Cardinality(Numbers')
    BY <1>1, <1>3, <2>2, <2>3, <2>4, RequestsCounted
  <2> QED BY <2>5 DEF Numbered
<1>7. Room' BY <1>1, <1>2, <1>3 DEF IInv, PcOK, RunsOK, Room
<1>8. OnlyOf(o) BY <1>1 DEF IInv, PcOK, OnlyOf
<1>9. /\ Left(o)' = Left(o) /\ Believed(o)' = Believed(o)
      /\ Cardinality(Left(o)) \in Nat /\ Believed(o) \in Int
  <2>1. Left(o)' = Left(o) /\ Believed(o)' = Believed(o) /\ Believed(o) = count[o]
    BY <1>1 DEF IInv, PcOK, Left, Visible, Believed
  <2> QED BY <1>2, <2>1, LeftTyped DEF IInv
<1>10. Cardinality(Left(o))' - Believed(o)' <= Cardinality(Left(o)) - Believed(o) BY <1>9
<1> QED BY <1>4, <1>5, <1>6, <1>7, <1>8, <1>10, WorkPreserves

\* The commit of one request is one more that the others have not counted; and what
\* it leaves is its room and the requests since it counted, all of which but one
\* have raced, and if one has not then it has itself.
LEMMA CommitPreserves == ASSUME IInv, NEW o \in Requests, Commit(o) PROVE IInv'
<1>1. /\ pc[o] = "commit" /\ live' = (live \ deleted[o]) \cup {mine[o]}
      /\ deleted' = [deleted EXCEPT ![o] = {}] /\ pc' = [pc EXCEPT ![o] = "accepted"]
      /\ count' = [count EXCEPT ![o] = 0] /\ victim' = [victim EXCEPT ![o] = 0]
      /\ mine' = [mine EXCEPT ![o] = 0] /\ UNCHANGED <<next, raced>>
  BY DEF Commit, EndAs
<1>2. PcOK' /\ CountOK' BY <1>1, RequestsCounted DEF IInv, PcOK, Phases, CountOK
<1>3. RunsOK'
  <2>1. mine[o] \in 1..(next - 1)
    <3>1. mine[o] \in 0..(next - 1) /\ next \in Nat BY DEF IInv, RunsOK
    <3>2. mine[o] # 0 BY <1>1 DEF IInv, Room
    <3> QED BY ONLY <3>1, <3>2
  <2>2. 0 \in 0..(next - 1) BY DEF IInv, RunsOK
  <2>3. live' \subseteq 1..(next' - 1) BY <1>1, <2>1 DEF IInv, RunsOK
  <2>4. deleted' \in [Requests -> SUBSET (1..(next' - 1))] BY <1>1 DEF IInv, RunsOK
  <2>5. /\ victim' \in [Requests -> 0..(next' - 1)]
        /\ mine' \in [Requests -> 0..(next' - 1)]
    BY <1>1, <2>2 DEF IInv, RunsOK
  <2> QED BY <1>1, <2>3, <2>4, <2>5 DEF IInv, RunsOK
<1>4. Numbered' BY <1>1, NumbersGiven DEF IInv, PcOK, Numbers
<1>5. Room' BY <1>1 DEF IInv, PcOK, RunsOK, CountOK, Room
<1>6. /\ Accepted' = Accepted \cup {o} /\ o \notin Accepted
      /\ UnderWay' = UnderWay \ {o} /\ o \in UnderWay
  BY <1>1 DEF IInv, PcOK, Accepted, UnderWay
<1>7. ASSUME NEW q \in UnderWay' PROVE \E S \in SUBSET Requests : Since(q, S)'
  <2>0. q \in UnderWay /\ q \in Requests /\ q # o BY <1>6, <1>7 DEF UnderWay
  <2>1. PICK S \in SUBSET Requests : Since(q, S) BY <2>0 DEF IInv, Accounted
  <2>2. o \notin S /\ S \cup {o} \subseteq Accepted' /\ S \cup {o} \in SUBSET Requests
    BY <1>6, <2>1 DEF Since
  <2>3. Believed(q)' = Believed(q) /\ Left(q)' \subseteq Left(q) \cup {mine[o]}
    BY <1>1, <2>0 DEF IInv, PcOK, RunsOK, CountOK, Believed, Left, Visible
  <2>4. IsFiniteSet(Left(q)) /\ Cardinality(Left(q)) \in Nat BY <2>0, LeftTyped DEF IInv
  <2>5. Cardinality(Left(q)') <= Cardinality(Left(q)) + 1 /\ Cardinality(Left(q)') \in Nat
    BY <2>3, <2>4, OneMore
  <2>6. IsFiniteSet(S) /\ Cardinality(S) \in Nat BY RequestsCounted
  <2>7. Cardinality(S \cup {o}) = Cardinality(S) + 1 BY <2>2, <2>6, FS_AddElement
  <2>8. Cardinality(Left(q)') <= Believed(q)' + Cardinality(S \cup {o})
    <3>1. count[q] \in Nat BY <2>0, RequestsCounted DEF IInv, CountOK
    <3>2. Believed(q) \in Int BY <3>1 DEF Believed
    <3>3. Cardinality(Left(q)) <= Believed(q) + Cardinality(S) BY <2>1 DEF Since
    <3> QED BY <2>3, <2>4, <2>5, <2>6, <2>7, <3>2, <3>3
  <2>9. AllButOneRaced((S \cup {o}) \cup UnderWay)'
    BY <1>1, <1>6, <2>1 DEF Since, AllButOneRaced
  <2> QED BY <2>2, <2>8, <2>9 DEF Since
<1>8. Accounted' BY <1>7 DEF Accounted
<1>9. AllButOneRaced(UnderWay)' BY <1>1, <1>6 DEF IInv, AllButOneRaced
<1>10. Cardinality(live') <= MaxRuns + Cardinality(raced')
  <2>1. PICK S \in SUBSET Requests : Since(o, S) BY <1>6 DEF IInv, Accounted
  <2>2. /\ count[o] \in Nat /\ count[o] < MaxRuns
        /\ Left(o) = Visible(o) /\ Believed(o) = count[o]
    BY <1>1, RequestsCounted DEF IInv, CountOK, Room, Left, Believed
  <2>3. Cardinality(Visible(o)) <= count[o] + Cardinality(S) BY <2>1, <2>2 DEF Since
  <2>4. /\ IsFiniteSet(Visible(o)) /\ Cardinality(Visible(o)) \in Nat
        /\ live' \subseteq Visible(o) \cup {mine[o]}
    BY <1>1, LeftTyped DEF IInv, Visible
  <2>5. Cardinality(live') \in Nat /\ Cardinality(live') <= Cardinality(Visible(o)) + 1
    BY <2>4, OneMore
  <2>6. /\ IsFiniteSet(S) /\ IsFiniteSet(raced) /\ raced \subseteq Requests
        /\ Cardinality(S) \in Nat /\ Cardinality(raced) \in Nat
    BY RequestsCounted DEF IInv, PcOK
  <2>7. Cardinality(S) <= Cardinality(raced)
    <3>1. o \notin S /\ AllButOneRaced(S \cup {o}) BY <1>6, <2>1 DEF Since, AllButOneRaced
    <3>2. CASE o \notin raced
      <4>1. S \subseteq raced BY <3>1, <3>2 DEF AllButOneRaced
      <4> QED BY <2>6, <4>1, FS_Subset
    <3>3. CASE o \in raced
      <4>1. \E p \in Requests : S \subseteq (raced \ {o}) \cup {p}
        <5>1. CASE S \subseteq raced BY <3>1, <5>1
        <5>2. CASE \E p \in S : p \notin raced BY <3>1, <5>2 DEF AllButOneRaced
        <5> QED BY <5>1, <5>2
      <4>2. /\ IsFiniteSet(raced \ {o})
            /\ Cardinality(raced \ {o}) = Cardinality(raced) - 1
        BY <2>6, <3>3, FS_RemoveElement
      <4>3. Cardinality(S) <= Cardinality(raced \ {o}) + 1 BY <4>1, <4>2, OneMore
      <4> QED BY <2>6, <4>2, <4>3
    <3> QED BY <3>2, <3>3
  <2> QED BY <1>1, <2>2, <2>3, <2>4, <2>5, <2>6, <2>7, RequestsCounted
<1> QED BY <1>2, <1>3, <1>4, <1>5, <1>8, <1>9, <1>10 DEF IInv, BoundedExcess

-------------------------------------------------------------------------------
(* The theorems *)

LEMMA InitIInv == ASSUME Init PROVE IInv
<1> USE DEF Init
<1>1. PcOK BY DEF PcOK, Phases
<1>2. RunsOK BY RequestsCounted DEF RunsOK
<1>3. CountOK BY RequestsCounted DEF CountOK
<1>4. Numbers = {} BY DEF Numbers
<1>5. Numbered BY <1>4, FS_EmptySet, RequestsCounted DEF Numbered
<1>6. UnderWay = {} BY DEF UnderWay
<1>7. Room /\ Accounted /\ AllButOneRaced(UnderWay) BY <1>6 DEF Room, Accounted, AllButOneRaced
<1>8. BoundedExcess BY DEF BoundedExcess
<1> QED BY <1>1, <1>2, <1>3, <1>5, <1>7, <1>8 DEF IInv

LEMMA StutterPreserves == ASSUME IInv, UNCHANGED vars PROVE IInv'
<1> USE DEF vars
<1>1. PcOK' /\ RunsOK' /\ CountOK' /\ Room' BY DEF IInv, PcOK, RunsOK, CountOK, Room
<1>3. Numbered' BY NumbersGiven DEF IInv, Numbers
<1>4. Accounted' /\ AllButOneRaced(UnderWay)'
  BY DEF IInv, Accounted, Since, Accepted, Left, Believed, Visible, AllButOneRaced, UnderWay
<1>5. BoundedExcess' BY DEF IInv, BoundedExcess
<1> QED BY <1>1, <1>3, <1>4, <1>5 DEF IInv

LEMMA StepIInv == ASSUME IInv, [Next]_vars PROVE IInv'
<1>1. ASSUME NEW q \in Requests, CountRuns(q) PROVE IInv' BY <1>1, CountRunsPreserves
<1>2. ASSUME NEW q \in Requests, PickEarliest(q) PROVE IInv' BY <1>2, PickEarliestPreserves
<1>3. ASSUME NEW q \in Requests, SoftDelete(q) PROVE IInv' BY <1>3, SoftDeletePreserves
<1>4. ASSUME NEW q \in Requests, CreateRun(q) PROVE IInv' BY <1>4, CreateRunPreserves
<1>5. ASSUME NEW q \in Requests, Commit(q) PROVE IInv' BY <1>5, CommitPreserves
<1>6. ASSUME NEW q \in Requests, Refuse(q) \/ NothingToEvict(q) \/ Abort(q) PROVE IInv'
  BY <1>6, EndsPreserve
<1>7. CASE UNCHANGED vars BY <1>7, StutterPreserves
<1> QED BY <1>1, <1>2, <1>3, <1>4, <1>5, <1>6, <1>7 DEF Next, Run, Rollback, BreakDeadlock

LEMMA Inductive == Spec => []IInv
BY InitIInv, StepIInv, PTL DEF Spec

\* Counters, rows and numbers of runs keep their types; create_run counts below no run.
THEOREM TypeCorrect == Spec => []TypeOK
<1>1. IInv => TypeOK BY TypesImplyTypeOK DEF IInv
<1> QED BY <1>1, Inductive, PTL

\* After create_run has accepted a request, EXPORT_MAX_RUNS is exceeded by no more runs
\* than requests have counted while another was under way.
THEOREM ExcessIsBounded == Spec => []BoundedExcess
<1>1. IInv => BoundedExcess BY DEF IInv
<1> QED BY <1>1, Inductive, PTL

-------------------------------------------------------------------------------
(***************************************************************************)
(* Expiration.                                                             *)
(***************************************************************************)

Patches == [run : Runs, day : Days, row : Row]

RowsOK == rows \in [Runs -> Row \cup {NoRun}]
ReadOK == DOMAIN read \subseteq Runs /\ \A r \in DOMAIN read : read[r] \in Row
PatchOK == patch \in [Changes -> Patches \cup {Idle}]
DatesOK == {handled, quiet} \subseteq [Runs -> Days \cup {Never}]
DaysOK == today \in Days /\ pass \in {"due", "running", "over"}
WarnedOK == /\ warned \in [Runs -> Days \cup {Never}]
            /\ \A r \in Runs : warned[r] # Never => warned[r] <= today

Types == RowsOK /\ ReadOK /\ PatchOK /\ DatesOK /\ DaysOK /\ WarnedOK

\* The warning a copy of r's row knows of was made, and it was not after the last.
Noted(r, row) == row.notified # Never => warned[r] # Never /\ row.notified <= warned[r]

WarningsMade ==
    /\ \A r \in Runs : rows[r] # NoRun => Noted(r, rows[r])
    /\ \A r \in DOMAIN read : Noted(r, read[r])
    /\ \A q \in Changes : patch[q] # Idle => Noted(patch[q].run, patch[q].row)

\* What the pass of day d leaves of r, if it expires soon after, has been warned about
\* in its last days.
Spared(r, row, d) ==
    d # Never /\ row.expiration <= d + ShortLead =>
        warned[r] # Never /\ row.expiration <= warned[r] + ShortLead

HandledSpared == \A r \in Runs : rows[r] # NoRun => Spared(r, rows[r], handled[r])
QuietSpared == \A r \in DOMAIN read : Spared(r, read[r], quiet[r])

ExpiryInv == Types /\ WarningsMade /\ HandledSpared /\ QuietSpared

LEMMA DaysTyped ==
    /\ Days \subseteq Nat /\ Never \in Nat /\ Never \notin Days
    /\ ShortLead \in Nat /\ ShortLead > 0 /\ Lifetime \in Days /\ 0 \in Days
BY DaysAssumption DEF Days, Never

LEMMA ExpiryTypes == ASSUME Types PROVE ExpirationTypeOK
<1>1. \A q \in Pending : patch[q] \in Patches BY DEF Types, PatchOK, Pending
<1>2. \A q \in Pending : /\ patch[q].run \in Runs /\ patch[q].day \in Days
                          /\ patch[q].row \in Row
  BY <1>1 DEF Patches
<1> QED BY <1>2 DEF Types, ExpirationTypeOK, RowsOK, ReadOK, DatesOK, DaysOK, WarnedOK

LEMMA ExpiryStart == ASSUME ExpirationInit PROVE ExpiryInv
<1> USE DEF ExpirationInit
<1>1. RowsOK
  <2>1. [expiration |-> Lifetime, notified |-> Never] \in Row BY DaysTyped DEF Row
  <2> QED BY <2>1 DEF RowsOK
<1>2. Types BY <1>1, DaysTyped DEF Types, ReadOK, PatchOK, DatesOK, DaysOK, WarnedOK
<1>3. WarningsMade
  <2>1. \A r \in Runs : rows[r] # NoRun => rows[r].notified = Never OBVIOUS
  <2> QED BY <2>1 DEF WarningsMade, Noted
<1>4. HandledSpared /\ QuietSpared BY DEF HandledSpared, QuietSpared, Spared
<1> QED BY <1>2, <1>3, <1>4 DEF ExpiryInv

LEMMA TickPreserves == ASSUME ExpiryInv, Tick PROVE ExpiryInv'
<1> USE DEF Tick, ExpiryInv, Types
<1>0. today \in Days /\ today < LastDay /\ today' = today + 1 BY DEF DaysOK
<1>1. today \in Nat /\ today' = today + 1 /\ today' \in Days
  BY ONLY <1>0, DaysAssumption DEF Days
<1>2. DaysOK' /\ RowsOK' /\ ReadOK' /\ PatchOK' /\ DatesOK'
  BY <1>1 DEF DaysOK, RowsOK, ReadOK, PatchOK, DatesOK
<1>3. WarnedOK'
  <2>1. ASSUME NEW r \in Runs, warned[r] # Never PROVE warned[r] <= today + 1
    <3>1. warned[r] <= today /\ warned[r] \in Nat BY <2>1, DaysTyped DEF WarnedOK
    <3> QED BY ONLY <3>1, <1>1
  <2> QED BY <1>1, <2>1 DEF WarnedOK, Never
<1>4. WarningsMade' BY DEF WarningsMade, Noted
<1>5. HandledSpared' /\ QuietSpared' BY DEF HandledSpared, QuietSpared, Spared
<1> QED BY <1>2, <1>3, <1>4, <1>5

LEMMA ReadRunsPreserves == ASSUME ExpiryInv, ReadRuns PROVE ExpiryInv'
<1> USE DEF ReadRuns, ExpiryInv, Types
<1>1. /\ DOMAIN read' \subseteq Runs
      /\ \A r \in DOMAIN read' : read'[r] = rows[r] /\ rows[r] # NoRun
  BY DEF Kept
<1>2. DaysOK' /\ RowsOK' /\ PatchOK' /\ DatesOK' /\ WarnedOK'
  BY DEF DaysOK, RowsOK, PatchOK, DatesOK, WarnedOK
<1>3. ReadOK' BY <1>1 DEF ReadOK, RowsOK
<1>4. WarningsMade' BY <1>1 DEF WarningsMade, Noted
<1>5. HandledSpared' BY DEF HandledSpared, Spared
<1>6. QuietSpared' BY <1>1 DEF QuietSpared, HandledSpared, Spared
<1> QED BY <1>2, <1>3, <1>4, <1>5, <1>6

\* A pass that ends, breaks off or is lost keeps what it has said of the runs it came to.
LEMMA PassEnds == ASSUME ExpiryInv, Break \/ EndPass \/ LosePass PROVE ExpiryInv'
<1> USE DEF Break, EndPass, LosePass, ExpiryInv, Types
<1>1. DOMAIN read' = {} BY DEF Break, EndPass, LosePass
<1>2. DaysOK' /\ RowsOK' /\ PatchOK' /\ WarnedOK' BY DEF DaysOK, RowsOK, PatchOK, WarnedOK
<1>3. ReadOK' /\ DatesOK' BY <1>1 DEF ReadOK, DatesOK
<1>4. WarningsMade' BY <1>1 DEF WarningsMade, Noted
<1>5. HandledSpared' BY DEF HandledSpared, Spared
<1>6. QuietSpared' BY <1>1 DEF QuietSpared
<1> QED BY <1>2, <1>3, <1>4, <1>5, <1>6

\* What the pass does to a run leaves the other copies alone; the run itself it
\* deletes, warns about, or has looked at and found warned about or not due.
LEMMA HandlePreserves ==
    ASSUME ExpiryInv, NEW r \in Runs, Delete(r) \/ Warn(r) \/ PassOver(r)
    PROVE  ExpiryInv'
<1> USE DEF ExpiryInv, Types
<1>0. /\ Handled(r) /\ pass = "running" /\ pass' = "running" /\ r \in DOMAIN read
      /\ today' = today /\ patch' = patch /\ quiet' = quiet
      /\ read' = Done(r)
      /\ handled' = [handled EXCEPT ![r] = IF rows[r] = read[r] THEN today ELSE Never]
  BY DEF Delete, Warn, PassOver, Handled
<1>1. /\ DOMAIN read' = DOMAIN read \ {r}
      /\ \A s \in DOMAIN read' : read'[s] = read[s] /\ s # r
  BY <1>0 DEF Done
<1>2. today \in Days /\ today \in Nat /\ read[r] \in Row BY <1>0, DaysTyped DEF DaysOK, ReadOK
<1>3. /\ read[r].expiration \in Nat /\ read[r].notified \in Days \cup {Never}
      /\ Noted(r, read[r]) /\ warned[r] \in Days \cup {Never}
      /\ warned[r] # Never => warned[r] <= today
  BY <1>0, <1>2, DaysTyped DEF Row, WarningsMade, WarnedOK
<1>4. DaysOK' /\ PatchOK' /\ DatesOK' /\ ReadOK'
  <2>1. handled' \in [Runs -> Days \cup {Never}] BY <1>0, <1>2 DEF DatesOK
  <2> QED BY <1>0, <1>1, <2>1 DEF DaysOK, PatchOK, DatesOK, ReadOK
<1>9. /\ (handled'[r] = today /\ rows[r] = read[r]) \/ handled'[r] = Never
      /\ \A s \in Runs \ {r} : handled'[s] = handled[s]
  BY <1>0 DEF DatesOK
<1>5. ASSUME NEW s \in Runs, s # r PROVE rows'[s] = rows[s] /\ warned'[s] = warned[s]
  BY <1>5 DEF Delete, Warn, PassOver, RowsOK, WarnedOK
<1>6. CASE Delete(r)
  <2>1. RowsOK' /\ WarnedOK' /\ rows'[r] = NoRun /\ warned' = warned
    BY <1>0, <1>6 DEF Delete, RowsOK, WarnedOK
  <2>2. WarningsMade' BY <1>0, <1>1, <1>5, <2>1 DEF WarningsMade, Noted, PatchOK, ReadOK
  <2>3. HandledSpared'
    BY <1>0, <1>5, <1>9, <2>1 DEF HandledSpared, Spared
  <2>4. QuietSpared' BY <1>0, <1>1, <2>1 DEF QuietSpared, Spared
  <2> QED BY <1>4, <2>1, <2>2, <2>3, <2>4
<1>7. CASE Warn(r)
  <2>0. /\ rows'[r] = [read[r] EXCEPT !.notified = today] /\ warned'[r] = today
        /\ today # Never /\ today < read[r].expiration
    BY <1>2, <1>3, <1>7, DaysTyped DEF Warn, RowsOK, WarnedOK, Expired
  <2>1. /\ rows'[r] \in Row /\ rows'[r].notified = today
        /\ rows'[r].expiration = read[r].expiration
    BY <1>2, <2>0 DEF Row
  <2>2. RowsOK' /\ WarnedOK'
    BY <1>0, <1>2, <1>5, <1>7, <2>0, <2>1 DEF Warn, RowsOK, WarnedOK
  <2>3. ASSUME NEW row \in Row, NEW s \in Runs, Noted(s, row) PROVE Noted(s, row)'
    <3>1. CASE s = r
      <4>1. row.notified # Never => row.notified \in Nat /\ warned[r] \in Nat
        BY <1>3, <2>3, <3>1, DaysTyped DEF Row, Noted
      <4> QED BY <1>2, <1>3, <2>0, <2>3, <3>1, <4>1 DEF Noted
    <3>2. CASE s # r BY <1>5, <2>3, <3>2 DEF Noted
    <3> QED BY <3>1, <3>2
  <2>4. WarningsMade'
    <3>1. ASSUME NEW s \in Runs, rows'[s] # NoRun PROVE Noted(s, rows[s])'
      <4>1. CASE s = r
        <5>1. rows'[r].notified = today /\ warned'[r] = today /\ today # Never'
          BY <2>0, <2>1 DEF Never
        <5>2. rows'[r].notified <= warned'[r] BY ONLY <1>2, <5>1
        <5> QED BY <4>1, <5>1, <5>2 DEF Noted
      <4>2. CASE s # r BY <1>5, <3>1, <4>2 DEF WarningsMade, Noted
      <4> QED BY <4>1, <4>2
    <3>2. ASSUME NEW s \in DOMAIN read' PROVE Noted(s, read[s])'
      <4>1. read'[s] = read[s] /\ read[s] \in Row /\ s \in Runs /\ Noted(s, read[s])
        BY <1>1, <3>2 DEF ReadOK, WarningsMade
      <4> QED BY <1>1, <1>5, <4>1 DEF Noted
    <3>3. ASSUME NEW q \in Changes, patch'[q] # Idle PROVE Noted(patch[q].run, patch[q].row)'
      <4>1. /\ patch[q].run \in Runs /\ patch[q].row \in Row
            /\ Noted(patch[q].run, patch[q].row)
        BY <1>0, <3>3 DEF PatchOK, Patches, WarningsMade
      <4>2. patch' = patch BY <1>0
      <4>3. PICK row \in Row, s \in Runs : row = patch[q].row /\ s = patch[q].run BY <4>1
      <4>4. Noted(s, row)' BY <2>3, <4>1, <4>3
      <4> QED BY <4>2, <4>3, <4>4 DEF Noted
    <3> QED BY <3>1, <3>2, <3>3 DEF WarningsMade
  <2>5. HandledSpared'
    <3>1. Spared(r, rows[r], handled[r])'
      BY <1>2, <1>3, <1>9, <2>0, <2>1, DaysTyped DEF Spared, Never
    <3>2. ASSUME NEW s \in Runs, s # r, rows'[s] # NoRun
          PROVE  Spared(s, rows[s], handled[s])'
      BY <1>5, <1>9, <3>2 DEF HandledSpared, Spared, Never
    <3> QED BY <3>1, <3>2 DEF HandledSpared
  <2>6. QuietSpared' BY <1>0, <1>1, <1>5 DEF QuietSpared, Spared, ReadOK
  <2> QED BY <1>4, <2>2, <2>4, <2>5, <2>6
<1>8. CASE PassOver(r)
  <2>0. /\ rows' = rows /\ warned' = warned
        /\ ~Expired(r) /\ ~SecondDue(r)
    BY <1>8 DEF PassOver
  <2>1. RowsOK' /\ WarnedOK' BY <1>0, <2>0 DEF RowsOK, WarnedOK
  <2>2. WarningsMade' BY <1>0, <1>1, <2>0 DEF WarningsMade, Noted
  <2>3. Spared(r, read[r], today)
    <3>1. ASSUME read[r].expiration <= today + ShortLead
          PROVE  warned[r] # Never /\ read[r].expiration <= warned[r] + ShortLead
      <4>1. /\ read[r].notified # Never
            /\ ~(read[r].notified + ShortLead < read[r].expiration)
        BY <2>0, <3>1 DEF SecondDue
      <4>2. warned[r] # Never /\ read[r].notified <= warned[r] BY <1>3, <4>1 DEF Noted
      <4>3. read[r].notified \in Nat /\ warned[r] \in Nat BY <1>3, <4>1, <4>2, DaysTyped
      <4> QED BY <1>3, <4>1, <4>2, <4>3, DaysTyped
    <3> QED BY <3>1 DEF Spared
  <2>4. HandledSpared'
    BY <1>9, <2>0, <2>3 DEF HandledSpared, Spared, Never
  <2>5. QuietSpared' BY <1>0, <1>1, <2>0 DEF QuietSpared, Spared
  <2> QED BY <1>4, <2>1, <2>2, <2>4, <2>5
<1> QED BY <1>6, <1>7, <1>8

LEMMA BeginPatchPreserves == ASSUME ExpiryInv, NEW q \in Changes, BeginPatch(q)
                              PROVE  ExpiryInv'
<1> USE DEF ExpiryInv, Types
<1>1. PICK r \in Kept, date \in Days :
          patch' = [patch EXCEPT ![q] = [run |-> r, day |-> today,
                                         row |-> [rows[r] EXCEPT !.expiration = date]]]
  BY DEF BeginPatch
<1>2. rows[r] \in Row /\ r \in Runs /\ Noted(r, rows[r])
  BY DEF Kept, RowsOK, WarningsMade
<1> DEFINE row == [rows[r] EXCEPT !.expiration = date]
<1>3. row \in Row /\ row.notified = rows[r].notified BY <1>2 DEF Row
<1>4. UNCHANGED <<today, rows, pass, read, warned, handled, quiet>> BY DEF BeginPatch
<1>5. DaysOK' /\ RowsOK' /\ ReadOK' /\ DatesOK' /\ WarnedOK'
  BY <1>4 DEF DaysOK, RowsOK, ReadOK, DatesOK, WarnedOK
<1>6. PatchOK' BY <1>1, <1>2, <1>3 DEF PatchOK, Patches, DaysOK
<1>7. \A p \in Changes : \/ patch'[p] = patch[p]
                         \/ patch'[p].run = r /\ patch'[p].row = row
  BY <1>1 DEF PatchOK
<1>8. WarningsMade' BY <1>2, <1>3, <1>4, <1>7 DEF WarningsMade, Noted
<1>9. HandledSpared' /\ QuietSpared'
  BY <1>4 DEF HandledSpared, QuietSpared, Spared
<1> QED BY <1>5, <1>6, <1>8, <1>9

\* A request saves what it read: an older warning, if any, and no longer a run that
\* the pass has been quiet about.
LEMMA SavePatchPreserves == ASSUME ExpiryInv, NEW q \in Changes, SavePatch(q) PROVE ExpiryInv'
<1> USE DEF ExpiryInv, Types
<1> DEFINE r == patch[q].run
<1>1. /\ r # NoRun /\ rows' = [rows EXCEPT ![r] = patch[q].row]
      /\ patch' = [patch EXCEPT ![q] = Idle]
      /\ handled' = [handled EXCEPT ![r] = Never]
      /\ UNCHANGED <<today, pass, read, warned, quiet>>
  BY DEF SavePatch
<1>2. patch[q] \in Patches /\ patch[q] # Idle BY <1>1 DEF PatchOK, Idle
<1>3. r \in Runs /\ patch[q].row \in Row /\ Noted(r, patch[q].row)
  BY <1>2 DEF Patches, WarningsMade
<1>4. DaysOK' /\ RowsOK' /\ ReadOK' /\ DatesOK' /\ WarnedOK'
  BY <1>1, <1>3 DEF DaysOK, RowsOK, ReadOK, DatesOK, WarnedOK
<1>5. PatchOK' BY <1>1 DEF PatchOK
<1>6. /\ \A s \in Runs : s # r => rows'[s] = rows[s]
      /\ rows'[r] = patch[q].row
      /\ \A p \in Changes : patch'[p] = patch[p] \/ patch'[p] = Idle
      /\ handled'[r] = Never /\ \A s \in Runs : s # r => handled'[s] = handled[s]
  BY <1>1, <1>3 DEF RowsOK, PatchOK, DatesOK
<1>7. WarningsMade' BY <1>1, <1>3, <1>6 DEF WarningsMade, Noted
<1>8. HandledSpared' BY <1>1, <1>6 DEF HandledSpared, Spared, Never
<1>9. QuietSpared' BY <1>1 DEF QuietSpared, Spared
<1> QED BY <1>4, <1>5, <1>7, <1>8, <1>9

LEMMA ExpiryStutters == ASSUME ExpiryInv, UNCHANGED expirationVars PROVE ExpiryInv'
BY DEF expirationVars, ExpiryInv, Types, DaysOK, RowsOK, ReadOK, PatchOK, DatesOK, WarnedOK,
       WarningsMade, Noted, HandledSpared, QuietSpared, Spared

LEMMA ExpirySteps == ASSUME ExpiryInv, [ExpirationNext]_expirationVars PROVE ExpiryInv'
<1>1. CASE Tick BY <1>1, TickPreserves
<1>2. CASE ReadRuns BY <1>2, ReadRunsPreserves
<1>3. CASE Break \/ EndPass \/ LosePass BY <1>3, PassEnds
<1>4. CASE \E r \in Runs : Delete(r) \/ Warn(r) \/ PassOver(r) BY <1>4, HandlePreserves
<1>5. CASE \E q \in Changes : BeginPatch(q) BY <1>5, BeginPatchPreserves
<1>6. CASE \E q \in Changes : SavePatch(q) BY <1>6, SavePatchPreserves
<1>7. CASE UNCHANGED expirationVars BY <1>7, ExpiryStutters
<1> QED BY <1>1, <1>2, <1>3, <1>4, <1>5, <1>6, <1>7 DEF ExpirationNext, Pass

LEMMA ExpiryInductive == ExpirationSpec => []ExpiryInv
BY ExpiryStart, ExpirySteps, PTL DEF ExpirationSpec

\* Rows, copies of rows and warnings keep the types expire_runs and partial_update
\* rely on.
THEOREM ExpiryTypeCorrect == ExpirationSpec => []ExpirationTypeOK
<1>1. ExpiryInv => ExpirationTypeOK BY ExpiryTypes DEF ExpiryInv
<1> QED BY <1>1, ExpiryInductive, PTL

\* expire_runs deletes no run that a pass of its last days came to, and nobody changed
\* since, without a warning of its last days having been made: whatever other passes were
\* lost or broken off, and whatever rows were saved over others.
THEOREM WarnedBeforeDeleted == ExpirationSpec => DeletedWasWarned
<1>1. ASSUME ExpiryInv, [ExpirationNext]_expirationVars, NEW r \in Runs, Delete(r),
             InLastDays(quiet, r)
      PROVE  InLastDays(warned, r)
  <2>1. r \in DOMAIN read BY <1>1 DEF Delete, Handled
  <2>2. Spared(r, read[r], quiet[r]) BY <1>1, <2>1 DEF ExpiryInv, QuietSpared
  <2>3. /\ read[r].expiration \in Nat /\ ShortLead \in Nat
        /\ quiet[r] \in Days \cup {Never} /\ warned[r] \in Days \cup {Never}
    BY <1>1, <2>1, DaysTyped DEF ExpiryInv, Types, DatesOK, WarnedOK, ReadOK, Row
  <2>4. quiet[r] \in Nat /\ warned[r] \in Nat BY <2>3, DaysTyped
  <2>5. quiet[r] # Never /\ read[r].expiration <= quiet[r] + ShortLead
    BY <1>1, <2>3, <2>4 DEF InLastDays
  <2>6. warned[r] # Never /\ read[r].expiration <= warned[r] + ShortLead
    BY <2>2, <2>5 DEF Spared
  <2> QED BY <2>3, <2>4, <2>6 DEF InLastDays
<1>2. ExpiryInv /\ [ExpirationNext]_expirationVars =>
      [\A r \in Runs : Delete(r) /\ InLastDays(quiet, r) => InLastDays(warned, r)]_expirationVars
  BY <1>1
<1> QED BY <1>2, ExpiryInductive, PTL DEF ExpirationSpec, DeletedWasWarned
===============================================================================
