----------------------------- MODULE IdAlloc_proofs -----------------------------
(***************************************************************************)
(* Theorems about IdAlloc, for any number of callers, any ranges and any   *)
(* graph, as long as the counter does not wrap.                            *)
(***************************************************************************)
EXTENDS IdAlloc, FiniteSetTheorems, TLAPS

\* The range of an instance lies within the counter's width.
LEMMA Ranges ==
    /\ Floor \in Nat /\ Limit \in Nat /\ Modulus \in Nat
    /\ Floor <= Limit /\ Limit < Modulus
<1>1. Floor \in Nat /\ Modulus \in Nat /\ Limit \in Nat /\ Floor <= Limit
    BY RangeAssumption DEF Floor, Modulus, Limit
<1>2. Instance + 1 <= Instances
    BY RangeAssumption
<1>3. (Instance + 1) * RangeSize <= Instances * RangeSize
    BY <1>2, RangeAssumption
<1>4. (Instance + 1) * RangeSize = Instance * RangeSize + RangeSize
    BY RangeAssumption
<1> QED
    BY <1>1, <1>3, <1>4, RangeAssumption DEF Floor, Modulus, Limit

\* The numbers of calls that run and that fail are numbers, bounded by the calls.
LEMMA Counts ==
    /\ IsFiniteSet(Pending) /\ IsFiniteSet(Failing)
    /\ Cardinality(Pending) \in Nat /\ Cardinality(Failing) \in Nat
    /\ Cardinality(Callers) \in Nat
    /\ Cardinality(Failing) <= Cardinality(Callers)
<1>1. Pending \subseteq Callers /\ Failing \subseteq Callers
    BY DEF Pending, Failing
<1> QED
    BY <1>1, CallersAssumption, FS_Subset, FS_CardinalityType

-----------------------------------------------------------------------------
(***************************************************************************)
(* The inductive invariant.                                                *)
(***************************************************************************)
Types ==
    /\ base \in BaseCounts
    /\ counter \in 0..(Modulus - 1)
    /\ seen \in [Callers -> 0..Modulus]
    /\ issued \subseteq 0..(Limit - 1) /\ IsFiniteSet(issued)

\* While a call fails, the counter is beyond the limit by the bumps that are not
\* yet put back; it is never further beyond.
BumpsCounted ==
    /\ Failing # {} => Limit + Cardinality(Failing) <= counter
    /\ \/ counter <= Limit + Cardinality(Failing)
       \/ counter <= Start(base) + Cardinality(Failing)

\* What was handed out, or is about to be, is behind the counter.
Behind ==
    /\ \A id \in issued : Start(base) <= id /\ id < counter
    /\ \A c \in Pending \ Failing : Start(base) <= seen[c] /\ seen[c] < counter

Counted == counter = Start(base) + Cardinality(issued) + Cardinality(Pending)

IInv == Types /\ BumpsCounted /\ Behind /\ UniqueIds /\ Counted

\* Init establishes it.
LEMMA Initially == ASSUME NoWrap, Init PROVE IInv
<1>1. base \in Nat /\ Start(base) \in Nat /\ counter = Start(base)
    BY RangeAssumption, Ranges DEF Init, Start
<1>2. counter \in 0..(Modulus - 1)
    BY <1>1, Ranges, Counts DEF Init, NoWrap
<1>3. Pending = {} /\ Failing = {}
    BY DEF Init, Pending, Failing
<1>4. Cardinality(Pending) = 0 /\ Cardinality(Failing) = 0 /\ Cardinality(issued) = 0
      /\ IsFiniteSet(issued)
    BY <1>3, FS_EmptySet DEF Init
<1>5. Types
    BY <1>2, <1>4, Ranges DEF Init, Types, NoId
<1>6. BumpsCounted /\ Behind /\ UniqueIds /\ Counted
    BY <1>1, <1>3, <1>4 DEF Init, BumpsCounted, Behind, UniqueIds, Counted
<1> QED
    BY <1>5, <1>6 DEF IInv

\* What a call sees when it bumps the counter decides whether it fails; the
\* counter has room for the bump.
LEMMA BumpStep ==
    ASSUME NoWrap, IInv, NEW c \in Callers, FetchAdd(c)
    PROVE  /\ counter' = counter + 1 /\ counter + 1 < Modulus
           /\ Pending' = Pending \cup {c}
           /\ counter < Limit => Failing' = Failing
           /\ Limit <= counter => Failing' = Failing \cup {c}
           /\ c \notin Failing
<1>1. /\ c \notin Pending /\ c \notin Failing
      /\ seen' = [seen EXCEPT ![c] = counter]
      /\ seen \in [Callers -> 0..Modulus] /\ counter \in 0..(Modulus - 1)
    BY DEF FetchAdd, Failing, IInv, Types
<1>2. \A d \in Callers : seen'[d] = IF d = c THEN counter ELSE seen[d]
    BY <1>1
<1>3. Pending' = Pending \cup {c}
    BY <1>1, <1>2, Ranges DEF Pending, NoId
<1>4. /\ counter < Limit => Failing' = Failing
      /\ Limit <= counter => Failing' = Failing \cup {c}
    BY <1>1, <1>2, <1>3, Ranges DEF Failing, Pending
<1>5. Failing \subseteq Callers \ {c}
    BY <1>1 DEF Failing, Pending
<1>6. Cardinality(Failing) + 1 <= Cardinality(Callers)
    <2>1. IsFiniteSet(Callers \ {c}) /\ Cardinality(Callers \ {c}) = Cardinality(Callers) - 1
        BY CallersAssumption, FS_RemoveElement
    <2> QED
        BY <2>1, <1>5, Counts, FS_Subset
<1>7. counter + 1 < Modulus
    <2>1. base \in BaseCounts /\ Start(base) \in Nat
        BY RangeAssumption, Ranges DEF IInv, Types, Start
    <2>2. Limit + Cardinality(Callers) < Modulus /\ Start(base) + Cardinality(Callers) < Modulus
        BY <2>1 DEF NoWrap
    <2> QED
        BY <2>1, <2>2, <1>1, <1>6, Counts, Ranges DEF IInv, BumpsCounted
<1> QED
    BY <1>1, <1>3, <1>4, <1>7, Ranges DEF FetchAdd, Bumped

\* fetch_add keeps the invariant: the counter itself is what no call has seen.
LEMMA FetchAddKeeps ==
    ASSUME NoWrap, IInv, NEW c \in Callers, FetchAdd(c)
    PROVE  IInv'
<1> USE Ranges, Counts
<1>1. /\ counter' = counter + 1 /\ counter + 1 < Modulus
      /\ Pending' = Pending \cup {c} /\ c \notin Pending /\ c \notin Failing
      /\ counter < Limit => Failing' = Failing
      /\ Limit <= counter => Failing' = Failing \cup {c}
    BY BumpStep DEF FetchAdd
<1>2. /\ seen' = [seen EXCEPT ![c] = counter] /\ seen \in [Callers -> 0..Modulus]
      /\ base' = base /\ issued' = issued /\ counter \in 0..(Modulus - 1)
      /\ issued \subseteq 0..(Limit - 1)
    BY DEF FetchAdd, IInv, Types
<1>3. Start(base) \in Nat /\ Start(base)' = Start(base)
    BY <1>2, RangeAssumption DEF IInv, Types, Start
<1>4. /\ Cardinality(Pending') = Cardinality(Pending) + 1
      /\ Cardinality(Failing \cup {c}) = Cardinality(Failing) + 1
    BY <1>1, FS_AddElement
<1>5. Types'
    BY <1>1, <1>2 DEF IInv, Types
<1>6. counter < Limit => Cardinality(Failing) = 0
    BY <1>2, FS_EmptySet DEF IInv, BumpsCounted
<1>7. Failing = {} => Cardinality(Failing) = 0
    BY FS_EmptySet
<1>8. Failing # {} => Limit + Cardinality(Failing) <= counter
    BY DEF IInv, BumpsCounted
<1>9. \/ counter <= Limit + Cardinality(Failing)
      \/ counter <= Start(base) + Cardinality(Failing)
    BY DEF IInv, BumpsCounted
<1>10. BumpsCounted'
    <2>1. CASE counter < Limit
        <3>1. Failing = {} /\ Failing' = {} /\ Cardinality(Failing') = 0
            BY <2>1, <1>1, <1>2, <1>6, <1>8
        <3> QED
            BY <3>1, <2>1, <1>1, <1>2 DEF BumpsCounted
    <2>2. CASE Limit <= counter
        <3>1. Cardinality(Failing') = Cardinality(Failing) + 1
            BY <2>2, <1>1, <1>4
        <3>2. Limit + Cardinality(Failing') <= counter'
            BY <3>1, <2>2, <1>1, <1>2, <1>7, <1>8
        <3>3. \/ counter' <= Limit + Cardinality(Failing')
              \/ counter' <= Start(base)' + Cardinality(Failing')
            BY <3>1, <1>1, <1>2, <1>3, <1>9
        <3> QED
            BY <3>2, <3>3 DEF BumpsCounted
    <2> QED
        BY <2>1, <2>2, <1>2
<1>11. Start(base) <= counter
    BY <1>2, <1>3, FS_CardinalityType DEF IInv, Types, Counted
<1>12. \A d \in (Pending \ Failing)' :
           \/ d = c /\ seen'[d] = counter
           \/ d # c /\ d \in Pending \ Failing /\ seen'[d] = seen[d] /\ seen[d] \in 0..Modulus
    BY <1>1, <1>2 DEF Pending
<1>13. /\ \A id \in issued : Start(base) <= id /\ id < counter
       /\ \A d \in Pending \ Failing : Start(base) <= seen[d] /\ seen[d] < counter
    BY DEF IInv, Behind
<1>14. Behind'
    <2>1. \A id \in issued' : Start(base)' <= id /\ id < counter'
        BY <1>1, <1>2, <1>3, <1>13
    <2>2. \A d \in (Pending \ Failing)' : Start(base)' <= seen'[d] /\ seen'[d] < counter'
        BY <1>1, <1>2, <1>3, <1>11, <1>12, <1>13
    <2> QED
        BY <2>1, <2>2 DEF Behind
<1>15. UniqueIds'
    <2>1. \A d \in (Pending \ Failing)' : seen'[d] \notin issued'
        BY <1>2, <1>12, <1>13 DEF IInv, UniqueIds
    <2>2. \A d, e \in (Pending \ Failing)' : seen'[d] = seen'[e] => d = e
        BY <1>2, <1>12, <1>13 DEF IInv, UniqueIds
    <2> QED
        BY <2>1, <2>2 DEF UniqueIds
<1>16. Counted'
    <2>1. Cardinality(issued) \in Nat /\ Cardinality(issued)' = Cardinality(issued)
        BY <1>2, FS_CardinalityType DEF IInv, Types
    <2>2. counter = Start(base) + Cardinality(issued) + Cardinality(Pending)
        BY DEF IInv, Counted
    <2> QED
        BY <2>1, <2>2, <1>1, <1>3, <1>4 DEF Counted
<1> QED
    BY <1>5, <1>10, <1>14, <1>15, <1>16 DEF IInv

\* A call that ends is no longer pending, and no other call changes.
LEMMA Ends ==
    ASSUME IInv, NEW c \in Pending, seen' = [seen EXCEPT ![c] = NoId]
    PROVE  /\ Pending' = Pending \ {c} /\ Failing' = Failing \ {c}
           /\ Cardinality(Pending') = Cardinality(Pending) - 1
           /\ \A d \in Pending' : seen'[d] = seen[d]
           /\ seen' \in [Callers -> 0..Modulus]
<1>1. c \in Callers /\ seen \in [Callers -> 0..Modulus]
    BY DEF Pending, IInv, Types
<1>2. Pending' = Pending \ {c} /\ \A d \in Pending' : seen'[d] = seen[d]
    BY <1>1 DEF Pending
<1>3. Failing' = Failing \ {c}
    BY <1>2, Ranges DEF Failing
<1>4. Cardinality(Pending') = Cardinality(Pending) - 1
    BY <1>2, Counts, FS_RemoveElement
<1>5. seen' \in [Callers -> 0..Modulus]
    BY <1>1, Ranges DEF NoId
<1> QED
    BY <1>2, <1>3, <1>4, <1>5

\* Handing the ID out keeps the invariant.
LEMMA IssueKeeps ==
    ASSUME NoWrap, IInv, NEW c \in Callers, Issue(c)
    PROVE  IInv'
<1> USE Ranges, Counts
<1>1. /\ c \in Pending \ Failing /\ seen[c] < Limit /\ seen[c] \in Nat
      /\ issued' = issued \cup {seen[c]}
      /\ counter' = counter /\ base' = base
    BY DEF Issue, Failing, IInv, Types
<1>2. /\ Pending' = Pending \ {c} /\ Failing' = Failing
      /\ Cardinality(Pending') = Cardinality(Pending) - 1
      /\ \A d \in Pending' : seen'[d] = seen[d]
      /\ seen' \in [Callers -> 0..Modulus]
    <2>1. c \in Pending /\ c \notin Failing /\ seen' = [seen EXCEPT ![c] = NoId]
        BY <1>1 DEF Issue
    <2>2. Failing \ {c} = Failing
        BY <2>1
    <2> QED
        BY <2>1, <2>2, Ends
<1>3. Start(base)' = Start(base)
    BY <1>1 DEF Start
<1>4. Types /\ BumpsCounted /\ Behind /\ UniqueIds /\ Counted
    BY DEF IInv
<1>5. Cardinality(issued') = Cardinality(issued) + 1 /\ IsFiniteSet(issued')
    BY <1>1, <1>4, FS_AddElement DEF Types, UniqueIds
<1>6. Types'
    <2>1. issued' \subseteq 0..(Limit - 1)
        BY <1>1, <1>4 DEF Types
    <2> QED
        BY <2>1, <1>1, <1>2, <1>4, <1>5 DEF Types
<1>7. BumpsCounted'
    BY <1>1, <1>2, <1>3, <1>4 DEF BumpsCounted
<1>8. Behind'
    BY <1>1, <1>2, <1>3, <1>4 DEF Behind
<1>9. UniqueIds'
    BY <1>1, <1>2, <1>4 DEF UniqueIds
<1>10. Start(base) \in Nat /\ Cardinality(issued) \in Nat
    BY <1>4, RangeAssumption, FS_CardinalityType DEF Types, Start
<1>11. Counted'
    BY <1>1, <1>2, <1>3, <1>4, <1>5, <1>10 DEF Counted
<1> QED
    BY <1>6, <1>7, <1>8, <1>9, <1>11 DEF IInv

\* Putting a bump back keeps the invariant: the counter stays at or above the
\* limit, so no ID below it comes round again.
LEMMA PutBackKeeps ==
    ASSUME NoWrap, IInv, NEW c \in Callers, PutBack(c)
    PROVE  IInv'
<1> USE Ranges, Counts
<1>1. /\ c \in Failing /\ c \in Pending /\ base' = base /\ issued' = issued
      /\ counter' = PutDown(counter)
    BY DEF PutBack, Failing
<1>2. /\ Pending' = Pending \ {c} /\ Failing' = Failing \ {c}
      /\ Cardinality(Pending') = Cardinality(Pending) - 1
      /\ \A d \in Pending' : seen'[d] = seen[d]
      /\ seen' \in [Callers -> 0..Modulus]
    BY <1>1, Ends DEF PutBack
<1>3. Cardinality(Failing') = Cardinality(Failing) - 1 /\ Cardinality(Failing') \in Nat
    BY <1>1, <1>2, FS_RemoveElement, FS_CardinalityType
<1>4. Types /\ BumpsCounted /\ Behind /\ UniqueIds /\ Counted
    BY DEF IInv
<1>5. /\ counter \in 0..(Modulus - 1) /\ Limit + Cardinality(Failing) <= counter
      /\ counter' = counter - 1 /\ Limit <= counter'
    BY <1>1, <1>3, <1>4 DEF Types, BumpsCounted, PutDown
<1>6. Start(base)' = Start(base) /\ Start(base) \in Nat /\ Cardinality(issued) \in Nat
    BY <1>1, <1>4, RangeAssumption, FS_CardinalityType DEF Start, Types
<1>7. Types'
    BY <1>1, <1>2, <1>4, <1>5 DEF Types
<1>8. BumpsCounted'
    BY <1>2, <1>3, <1>4, <1>5, <1>6 DEF BumpsCounted
<1>9. \A d \in (Pending \ Failing)' :
          d \in Pending \ Failing /\ seen'[d] = seen[d] /\ seen[d] < Limit /\ seen[d] \in Nat
    BY <1>1, <1>2, <1>4 DEF Failing, Pending, Types, NoId
<1>10. Behind'
    <2>1. \A id \in issued' : Start(base)' <= id /\ id < counter'
        BY <1>1, <1>4, <1>5, <1>6 DEF Behind, Types
    <2>2. \A d \in (Pending \ Failing)' : Start(base)' <= seen'[d] /\ seen'[d] < counter'
        BY <1>4, <1>5, <1>6, <1>9 DEF Behind
    <2> QED
        BY <2>1, <2>2 DEF Behind
<1>11. UniqueIds'
    BY <1>1, <1>4, <1>9 DEF UniqueIds
<1>12. Counted'
    BY <1>1, <1>2, <1>4, <1>5, <1>6 DEF Counted
<1> QED
    BY <1>7, <1>8, <1>10, <1>11, <1>12 DEF IInv

-----------------------------------------------------------------------------
(***************************************************************************)
(* The theorems.                                                           *)
(***************************************************************************)
LEMMA Invariant == ASSUME NoWrap PROVE Spec => []IInv
<1>1. Init => IInv
    BY Initially
<1>2. IInv /\ [Next]_vars => IInv'
    <2> SUFFICES ASSUME IInv, [Next]_vars PROVE IInv'
        OBVIOUS
    <2>1. CASE Next
        BY <2>1, FetchAddKeeps, IssueKeeps, PutBackKeeps DEF Next
    <2>2. CASE UNCHANGED vars
        BY <2>2 DEF vars, IInv, Types, BumpsCounted, Behind, UniqueIds, Counted, Pending,
                    Failing, Start
    <2> QED
        BY <2>1, <2>2
<1> QED
    BY <1>1, <1>2, PTL DEF Spec

\* The counter keeps to its width, and every ID handed out is below the limit.
THEOREM TypeCorrect == ASSUME NoWrap PROVE Spec => []TypeOK
<1>1. IInv => TypeOK
    BY DEF IInv, Types, TypeOK
<1> QED
    BY <1>1, Invariant, PTL

\* No node ID is handed out twice, for any number of overlapping ingests.
THEOREM NoIdTwice == ASSUME NoWrap PROVE Spec => []UniqueIds
<1>1. IInv => UniqueIds
    BY DEF IInv
<1> QED
    BY <1>1, Invariant, PTL

\* Every node ID is in the range of its instance and beyond the graph of the boot.
THEOREM IdsAreFresh == ASSUME NoWrap PROVE Spec => []FreshIds
<1>1. IInv => FreshIds
    <2> SUFFICES ASSUME IInv, NEW id \in issued PROVE Floor <= id /\ base <= id
        BY DEF FreshIds
    <2>1. base \in Nat /\ id \in Nat /\ Start(base) <= id
        BY RangeAssumption, Ranges DEF IInv, Types, Behind
    <2> QED
        BY <2>1, Ranges DEF Start
<1> QED
    BY <1>1, Invariant, PTL

\* When no ingest runs, the counter has moved by the number of IDs handed out.
THEOREM NoIdSkipped == ASSUME NoWrap PROVE Spec => []NoGaps
<1>1. IInv => NoGaps
    <2> SUFFICES ASSUME IInv, Pending = {} PROVE counter = Start(base) + Cardinality(issued)
        BY DEF NoGaps
    <2>1. Start(base) \in Nat /\ Cardinality(issued) \in Nat /\ Cardinality(Pending) = 0
        BY RangeAssumption, Ranges, FS_CardinalityType, FS_EmptySet DEF IInv, Types, Start
    <2> QED
        BY <2>1 DEF IInv, Counted
<1> QED
    BY <1>1, Invariant, PTL

=============================================================================
