---------------------------- MODULE HotSwap_proofs -----------------------------
(***************************************************************************)
(* Proofs about HotSwap, for any set of tasks and whatever each one runs:  *)
(* the type invariant, what the write guards of a merge promise the        *)
(* readers, and that the locks are deadlock-free but for the two handlers  *)
(* that ask out of order.                                                  *)
(***************************************************************************)
EXTENDS HotSwap, SequenceTheorems, NaturalsInduction, WellFoundedInduction, TLAPS

(***************************************************************************)
(* Programs.                                                               *)
(***************************************************************************)
\* The steps a program may be made of.
Ops == ({"read", "write", "join", "drop"} \X Locks)
       \cup ({"search", "score", "put"} \X IndexLocks) \cup {<<"call", "plugin">>}

\* The step o asks for a lock.
Takes(o) == o[1] \in {"read", "write", "join"}

ModeOf(o) == IF o[1] = "write" THEN "write" ELSE "read"

\* The locks that a run of s has asked for and not let go of before step p.
Taken(s, p) ==
    {l \in Locks : \E i \in 1..(p - 1) :
        /\ Takes(s[i]) /\ s[i][2] = l
        /\ \A j \in (i + 1)..(p - 1) : s[j] # <<"drop", l>>}

\* The order in which the code takes its locks.
Rank(l) == CASE l = "graph" -> 1 [] l = "hnsw" -> 2 [] l = "edge_hnsw" -> 3
             [] l = "store" -> 4 [] OTHER -> 5

\* Every lock is asked for under locks of a lower rank only, but for a second
\* guard of the delta.
InOrder(s) ==
    \A p \in 1..Len(s) : Takes(s[p]) =>
        \A l \in Taken(s, p) :
            Rank(l) < Rank(s[p][2]) \/ (l = "delta" /\ s[p][2] = "delta")

\* A read that is polled with another one is search_hnsw's.
Joins(s) ==
    \A p \in 1..Len(s) : s[p][1] = "join" =>
        p > 1 /\ s[p - 1] = <<"read", "hnsw">> /\ s[p] = <<"join", "edge_hnsw">>

\* A piece of a program that follows the discipline and ends without a guard.
Fragment(s) ==
    s \in Seq(Ops) /\ InOrder(s) /\ Joins(s) /\ Taken(s, Len(s) + 1) = {}

\* s replaces no index.
PutsNothing(s) == \A p \in 1..Len(s) : s[p][1] # "put"

\* s polls no two reads at once and asks for no lock that it has.
Plain(s) ==
    \A p \in 1..Len(s) :
        s[p][1] # "join" /\ (Takes(s[p]) => s[p][2] \notin Taken(s, p))

-----------------------------------------------------------------------------
(***************************************************************************)
(* The inductive invariant.                                                *)
(***************************************************************************)
MyProgram(t) == Program[Kind[t]]

AtInv == \A t \in Tasks : at[t] \in 1..(Len(MyProgram(t)) + 1)

\* The step p of s asks for l.
AsksBy(s, p, l, mode) == p \in 1..Len(s) /\ Takes(s[p]) /\ s[p][2] = l /\ mode = ModeOf(s[p])

\* Before step p, the step that t took last, or the one before when that was a join,
\* asked for l.
Asks(t, p, l, mode) ==
    \/ AsksBy(MyProgram(t), p - 1, l, mode)
    \/ AsksBy(MyProgram(t), p - 2, l, mode) /\ MyProgram(t)[p - 1][1] = "join"

OneEach(s) == \A i, j \in DOMAIN s : s[i].task = s[j].task => i = j

QueueInv ==
    \A l \in Locks :
        /\ \A i \in DOMAIN queue[l] :
              Asks(queue[l][i].task, at[queue[l][i].task], l, queue[l][i].mode)
        /\ OneEach(queue[l])

GuardInv ==
    \A t \in Tasks : \A l \in Locks : Holds(t, l) =>
        /\ l \in Taken(MyProgram(t), at[t])
        /\ WaitsFor(t, l) => l = "delta" /\ ~ Plain(MyProgram(t))

\* t has the write guard of l or a place in its queue for it.
Seat(t, l) ==
    \/ writer[l] = t
    \/ \E i \in DOMAIN queue[l] : queue[l][i] = [task |-> t, mode |-> "write"]

\* A merge collects its four guards and has them all while it replaces.
SeatInv ==
    \A t \in Tasks : Kind[t] = "merge" =>
        /\ at[t] \in 6..13 => Seat(t, "graph")
        /\ at[t] \in 7..13 => Seat(t, "hnsw")
        /\ at[t] \in 8..13 => Seat(t, "edge_hnsw")
        /\ at[t] \in 9..13 => Seat(t, "store")
        /\ at[t] \in 10..13 => \A l \in IndexLocks : writer[l] = t

Swaps(t, p) == Kind[t] = "merge" /\ at[t] = p

\* What is between two generations is in the hands of a merge.
GenInv ==
    /\ (\A t \in Tasks : ~ Swaps(t, 10) /\ ~ Swaps(t, 11) /\ ~ Swaps(t, 12)) =>
           /\ gen["hnsw"] = gen["graph"]
           /\ gen["edge_hnsw"] = gen["graph"]
           /\ gen["store"] = gen["graph"]
    /\ \A t \in Tasks :
        /\ Swaps(t, 10) => /\ gen["graph"] = gen["hnsw"] + 1
                           /\ gen["edge_hnsw"] = gen["hnsw"]
                           /\ gen["store"] = gen["hnsw"]
        /\ Swaps(t, 11) => /\ gen["graph"] = gen["hnsw"]
                           /\ gen["hnsw"] = gen["edge_hnsw"] + 1
                           /\ gen["store"] = gen["edge_hnsw"]
        /\ Swaps(t, 12) => /\ gen["graph"] = gen["hnsw"]
                           /\ gen["edge_hnsw"] = gen["hnsw"]
                           /\ gen["hnsw"] = gen["store"] + 1

SeedInv == \A t \in Tasks : seeds[t] <= gen["graph"]

-----------------------------------------------------------------------------
(***************************************************************************)
(* Sequences.                                                              *)
(***************************************************************************)
\* Every non-empty set of naturals has a least element.
LEMMA LeastOfNat ==
    ASSUME NEW T, T \subseteq Nat, T # {}
    PROVE  \E x \in T : \A y \in T : x <= y
<1>1. PICK x \in T : \A y \in T : ~ (<<y, x>> \in OpToRel(<, Nat))
    BY NatLessThanWellFounded, WFMin
<1>2. ASSUME NEW y \in T PROVE x <= y
    <2>1. <<y, x>> \in OpToRel(<, Nat) <=> y < x
        BY SMT DEF OpToRel
    <2>2. ~ (y < x)
        BY <1>1, <2>1, Zenon
    <2>3. x \in Nat /\ y \in Nat
        OBVIOUS
    <2> QED
        BY <2>2, <2>3, SMT
<1> QED
    BY <1>2

\* Without takes out one element and keeps the others in their order.
LEMMA WithoutProperties ==
    ASSUME NEW S, NEW s \in Seq(S), NEW i \in 1..Len(s)
    PROVE  /\ Without(s, i) \in Seq(S)
           /\ Len(Without(s, i)) = Len(s) - 1
           /\ \A k \in 1..(Len(s) - 1) :
                 Without(s, i)[k] = IF k < i THEN s[k] ELSE s[k + 1]
<1> DEFINE a == SubSeq(s, 1, i - 1)  b == SubSeq(s, i + 1, Len(s))
<1>1. Len(s) \in Nat /\ i \in Nat /\ 1 <= i /\ i <= Len(s) /\ \A k \in 1..Len(s) : s[k] \in S
    BY LenProperties
<1>2. /\ a \in Seq(S) /\ Len(a) = i - 1
      /\ \A k \in 1..(i - 1) : a[k] = s[k]
    <2>1. \A k \in 1..(i - 1) : s[k] \in S
        BY <1>1
    <2>2. /\ a \in Seq(S)
          /\ Len(a) = IF 1 <= i - 1 THEN (i - 1) - 1 + 1 ELSE 0
          /\ \A k \in 1..((i - 1) - 1 + 1) : a[k] = s[1 + k - 1]
        BY <1>1, <2>1, SubSeqProperties
    <2> HIDE DEF a
    <2> QED
        BY <1>1, <2>2
<1>3. /\ b \in Seq(S) /\ Len(b) = Len(s) - i
      /\ \A k \in 1..(Len(s) - i) : b[k] = s[k + i]
    <2>1. \A k \in (i + 1)..Len(s) : s[k] \in S
        BY <1>1
    <2>2. /\ b \in Seq(S)
          /\ Len(b) = IF i + 1 <= Len(s) THEN Len(s) - (i + 1) + 1 ELSE 0
          /\ \A k \in 1..(Len(s) - (i + 1) + 1) : b[k] = s[(i + 1) + k - 1]
        BY <1>1, <2>1, SubSeqProperties
    <2> HIDE DEF b
    <2>3. \A k \in 1..(Len(s) - i) : (i + 1) + k - 1 = k + i
        BY <1>1
    <2> QED
        BY <1>1, <2>2, <2>3
<1> HIDE DEF a, b
<1>4. /\ a \o b \in Seq(S)
      /\ Len(a \o b) = Len(a) + Len(b)
      /\ \A k \in 1..(Len(a) + Len(b)) :
            (a \o b)[k] = IF k <= Len(a) THEN a[k] ELSE b[k - Len(a)]
    BY <1>2, <1>3, ConcatProperties
<1>5. Without(s, i) = a \o b
    BY DEF Without, a, b
<1>6. ASSUME NEW k \in 1..(Len(s) - 1)
      PROVE (a \o b)[k] = IF k < i THEN s[k] ELSE s[k + 1]
    <2>1. CASE k < i
        BY <1>1, <1>2, <1>3, <1>4, <2>1
    <2>2. CASE ~ (k < i)
        <3>1. k - (i - 1) \in 1..(Len(s) - i) /\ (k - (i - 1)) + i = k + 1
            BY <1>1, <2>2
        <3>2. (a \o b)[k] = b[k - (i - 1)]
            BY <1>1, <1>2, <1>3, <1>4, <2>2
        <3> QED
            BY <1>3, <3>1, <3>2, <2>2
    <2> QED
        BY <2>1, <2>2
<1>7. Len(a \o b) = Len(s) - 1
    BY <1>1, <1>2, <1>3, <1>4
<1> QED
    BY <1>4, <1>5, <1>6, <1>7, Zenon

\* Who is left in s after i was taken out: everyone else, once each.
LEMMA WithoutKeeps ==
    ASSUME NEW S, NEW s \in Seq(S), NEW i \in DOMAIN s
    PROVE  /\ Without(s, i) \in Seq(S)
           /\ \A k \in DOMAIN Without(s, i) : \E j \in DOMAIN s :
                 j # i /\ Without(s, i)[k] = s[j]
           /\ \A j \in DOMAIN s : j # i => \E k \in DOMAIN Without(s, i) :
                 Without(s, i)[k] = s[j]
<1> DEFINE w == Without(s, i)
<1>1. Len(s) \in Nat /\ DOMAIN s = 1..Len(s)
    BY LenProperties
<1>2. /\ w \in Seq(S) /\ Len(w) = Len(s) - 1
      /\ \A k \in 1..(Len(s) - 1) : w[k] = IF k < i THEN s[k] ELSE s[k + 1]
    BY <1>1, WithoutProperties
<1> HIDE DEF w
<1>3. DOMAIN w = 1..(Len(s) - 1)
    BY <1>2, LenProperties
<1>4. ASSUME NEW k \in DOMAIN w PROVE \E j \in DOMAIN s : j # i /\ w[k] = s[j]
    <2>1. CASE k < i
        BY <1>1, <1>2, <1>3, <2>1
    <2>2. CASE ~ (k < i)
        <3>1. k + 1 \in DOMAIN s /\ k + 1 # i /\ w[k] = s[k + 1]
            BY <1>1, <1>2, <1>3, <2>2
        <3> QED
            BY <3>1
    <2> QED
        BY <2>1, <2>2
<1>5. ASSUME NEW j \in DOMAIN s, j # i PROVE \E k \in DOMAIN w : w[k] = s[j]
    <2>1. CASE j < i
        BY <1>1, <1>2, <1>3, <2>1
    <2>2. CASE ~ (j < i)
        <3>1. j - 1 \in DOMAIN w /\ ~ (j - 1 < i) /\ (j - 1) + 1 = j
            BY <1>1, <1>3, <1>5, <2>2
        <3> QED
            BY <1>2, <1>3, <3>1
    <2> QED
        BY <2>1, <2>2
<1> QED
    BY <1>2, <1>4, <1>5 DEF w

\* Taking one out of s leaves no task twice, if there was none.
LEMMA WithoutOnce ==
    ASSUME NEW S, NEW s \in Seq(S), NEW i \in DOMAIN s,
           \A j, k \in DOMAIN s : s[j].task = s[k].task => j = k
    PROVE  /\ \A j, k \in DOMAIN Without(s, i) :
                 Without(s, i)[j].task = Without(s, i)[k].task => j = k
           /\ \A k \in DOMAIN Without(s, i) : Without(s, i)[k].task # s[i].task
<1> DEFINE w == Without(s, i)
<1>1. Len(s) \in Nat /\ DOMAIN s = 1..Len(s)
    BY LenProperties
<1>2. /\ w \in Seq(S) /\ Len(w) = Len(s) - 1
      /\ \A k \in 1..(Len(s) - 1) : w[k] = IF k < i THEN s[k] ELSE s[k + 1]
    <2>1. i \in 1..Len(s)
        BY <1>1
    <2> QED
        BY <2>1, WithoutProperties, Zenon
<1> HIDE DEF w
<1>3. DOMAIN w = 1..(Len(s) - 1)
    BY <1>2, LenProperties
<1> DEFINE At(k) == IF k < i THEN k ELSE k + 1
<1>4. \A k \in DOMAIN w : At(k) \in DOMAIN s /\ At(k) # i /\ w[k] = s[At(k)]
    BY <1>1, <1>2, <1>3
<1>5. \A j, k \in DOMAIN w : At(j) = At(k) => j = k
    BY <1>1, <1>3
<1> HIDE DEF At
<1> QED
    BY <1>4, <1>5 DEF w

\* A future that is dropped leaves a queue in which it had at most one place, and
\* everybody else stays.
LEMMA LeaveProperties ==
    ASSUME NEW S, NEW s \in Seq(S), NEW t
    PROVE  /\ Leave(s, t) \in Seq(S)
           /\ \A k \in DOMAIN Leave(s, t) : \E j \in DOMAIN s : Leave(s, t)[k] = s[j]
           /\ \A j \in DOMAIN s : s[j].task # t =>
                 \E k \in DOMAIN Leave(s, t) : Leave(s, t)[k] = s[j]
           /\ (\A j, k \in DOMAIN s : s[j].task = s[k].task => j = k) =>
                 /\ \A j, k \in DOMAIN Leave(s, t) :
                       Leave(s, t)[j].task = Leave(s, t)[k].task => j = k
                 /\ \A k \in DOMAIN Leave(s, t) : Leave(s, t)[k].task # t
<1> DEFINE mine == {i \in DOMAIN s : s[i].task = t}
<1>1. CASE mine = {}
    <2>1. Leave(s, t) = s
        BY <1>1 DEF Leave
    <2> QED
        BY <1>1, <2>1
<1>2. CASE mine # {}
    <2> DEFINE i == CHOOSE i \in mine : TRUE
    <2>1. i \in DOMAIN s /\ s[i].task = t
        BY <1>2
    <2>2. Leave(s, t) = Without(s, i)
        BY <1>2 DEF Leave
    <2> HIDE DEF i, mine
    <2>3. /\ Without(s, i) \in Seq(S)
          /\ \A k \in DOMAIN Without(s, i) : \E j \in DOMAIN s : Without(s, i)[k] = s[j]
          /\ \A j \in DOMAIN s : j # i =>
                \E k \in DOMAIN Without(s, i) : Without(s, i)[k] = s[j]
        BY <2>1, WithoutKeeps
    <2>4. ASSUME \A j, k \in DOMAIN s : s[j].task = s[k].task => j = k
          PROVE  /\ \A j, k \in DOMAIN Without(s, i) :
                       Without(s, i)[j].task = Without(s, i)[k].task => j = k
                 /\ \A k \in DOMAIN Without(s, i) : Without(s, i)[k].task # t
        BY <2>1, <2>4, WithoutOnce
    <2> QED
        BY <2>1, <2>2, <2>3, <2>4
<1> QED
    BY <1>1, <1>2

-----------------------------------------------------------------------------
(***************************************************************************)
(* What is held where in a program.                                        *)
(***************************************************************************)
\* What a step is about.
LEMMA OpTypes ==
    ASSUME NEW o \in Ops
    PROVE  /\ Takes(o) => o[2] \in Locks
           /\ o[1] = "drop" => o[2] \in Locks
           /\ o[1] \in {"search", "score", "put"} => o[2] \in IndexLocks
           /\ \A l : o = <<"drop", l>> <=> (o[1] = "drop" /\ o[2] = l)
<1>1. CASE o \in {"read", "write", "join", "drop"} \X Locks
    BY <1>1 DEF Takes
<1>2. CASE o \in {"search", "score", "put"} \X IndexLocks
    BY <1>2 DEF Takes
<1>3. CASE o = <<"call", "plugin">>
    BY <1>3 DEF Takes
<1> QED
    BY <1>1, <1>2, <1>3 DEF Ops

\* Nothing is held before the first step.
LEMMA TakenFirst ==
    ASSUME NEW s
    PROVE  Taken(s, 1) = {}
BY DEF Taken

\* What a step adds to what is held, or takes from it.
LEMMA TakenNext ==
    ASSUME NEW s \in Seq(Ops), NEW p \in 1..Len(s)
    PROVE  /\ Takes(s[p]) => Taken(s, p + 1) = Taken(s, p) \cup {s[p][2]}
           /\ s[p][1] = "drop" => Taken(s, p + 1) = Taken(s, p) \ {s[p][2]}
           /\ ~ Takes(s[p]) /\ s[p][1] # "drop" => Taken(s, p + 1) = Taken(s, p)
<1>1. Len(s) \in Nat /\ p \in Nat /\ s[p] \in Ops
    BY LenProperties, ElementOfSeq
<1> DEFINE Has(i, l) == Takes(s[i]) /\ s[i][2] = l
           Keeps(i, q, l) == \A j \in (i + 1)..(q - 1) : s[j] # <<"drop", l>>
<1>2. \A q, l : l \in Taken(s, q) <=>
                    l \in Locks /\ \E i \in 1..(q - 1) : Has(i, l) /\ Keeps(i, q, l)
    BY DEF Taken
<1>3. (p + 1) - 1 = p /\ 1..p = (1..(p - 1)) \cup {p} /\ p \notin 1..(p - 1)
    BY <1>1
<1>4. ASSUME NEW l \in Locks
      PROVE  /\ Keeps(p, p + 1, l)
             /\ \A i \in 1..(p - 1) : Keeps(i, p + 1, l) <=>
                    Keeps(i, p, l) /\ s[p] # <<"drop", l>>
    <2>1. Keeps(p, p + 1, l)
        BY <1>1
    <2>2. ASSUME NEW i \in 1..(p - 1)
          PROVE  Keeps(i, p + 1, l) <=> Keeps(i, p, l) /\ s[p] # <<"drop", l>>
        <3>1. (i + 1)..((p + 1) - 1) = ((i + 1)..(p - 1)) \cup {p}
            BY <1>1
        <3> QED
            BY <3>1
    <2> QED
        BY <2>1, <2>2
<1>5. \A l \in Locks : s[p] = <<"drop", l>> <=> (s[p][1] = "drop" /\ s[p][2] = l)
    BY <1>1, OpTypes
<1>6. /\ Takes(s[p]) => s[p][2] \in Locks /\ s[p][1] # "drop"
      /\ s[p][1] = "drop" => ~ Takes(s[p])
    BY <1>1, OpTypes DEF Takes
<1> HIDE DEF Keeps
<1>7. ASSUME NEW l \in Locks
      PROVE  l \in Taken(s, p + 1) <=>
                 \/ Takes(s[p]) /\ s[p][2] = l
                 \/ l \in Taken(s, p) /\ s[p] # <<"drop", l>>
    <2>1. l \in Taken(s, p + 1) <=>
              \/ Has(p, l)
              \/ \E i \in 1..(p - 1) : Has(i, l) /\ Keeps(i, p, l) /\ s[p] # <<"drop", l>>
        <3> HIDE DEF Has
        <3> QED
            BY <1>2, <1>3, <1>4
    <2> QED
        BY <1>2, <2>1
<1>8. \A q : Taken(s, q) \subseteq Locks
    BY DEF Taken
<1> HIDE DEF Has
<1>9. ASSUME Takes(s[p]) PROVE Taken(s, p + 1) = Taken(s, p) \cup {s[p][2]}
    BY <1>5, <1>6, <1>7, <1>8, <1>9
<1>10. ASSUME s[p][1] = "drop" PROVE Taken(s, p + 1) = Taken(s, p) \ {s[p][2]}
    BY <1>5, <1>6, <1>7, <1>8, <1>10
<1>11. ASSUME ~ Takes(s[p]), s[p][1] # "drop" PROVE Taken(s, p + 1) = Taken(s, p)
    <2>1. \A l \in Locks : s[p] # <<"drop", l>>
        BY <1>5, <1>11
    <2>2. \A l \in Locks : l \in Taken(s, p + 1) <=> l \in Taken(s, p)
        BY <1>7, <1>11, <2>1, Zenon
    <2>3. \A l : l \in Taken(s, p + 1) <=> l \in Taken(s, p)
        BY <1>8, <2>2, Zenon
    <2> QED
        BY <2>3, Zenon
<1> QED
    BY <1>9, <1>10, <1>11, Zenon

\* What is held in the first of two pieces, and in the second after the first.
LEMMA TakenConcat ==
    ASSUME NEW s, NEW t, Fragment(s), Fragment(t)
    PROVE  /\ s \o t \in Seq(Ops) /\ Len(s \o t) = Len(s) + Len(t)
           /\ \A p \in 1..Len(s) : (s \o t)[p] = s[p] /\ Taken(s \o t, p) = Taken(s, p)
           /\ \A q \in 1..Len(t) : /\ (s \o t)[Len(s) + q] = t[q]
                                  /\ Taken(s \o t, Len(s) + q) = Taken(t, q)
           /\ Taken(s \o t, Len(s) + (Len(t) + 1)) = Taken(t, Len(t) + 1)
           /\ \A p \in 1..(Len(s) + Len(t)) :
                 p \in 1..Len(s) \/ \E q \in 1..Len(t) : p = Len(s) + q
<1> DEFINE n == Len(s)  m == Len(t)  c == s \o t
<1>1. /\ s \in Seq(Ops) /\ t \in Seq(Ops) /\ n \in Nat /\ m \in Nat
      /\ \A p \in 1..n : s[p] \in Ops
      /\ \A p \in 1..m : t[p] \in Ops
    BY LenProperties, ElementOfSeq DEF Fragment
<1>2. /\ c \in Seq(Ops) /\ Len(c) = n + m
      /\ \A i \in 1..(n + m) : c[i] = IF i <= n THEN s[i] ELSE t[i - n]
    BY <1>1, ConcatProperties
<1> HIDE DEF c, n, m
<1>3. /\ \A i \in 1..n : c[i] = s[i]
      /\ \A i \in 1..m : c[n + i] = t[i]
    <2>1. \A i \in 1..n : i \in 1..(n + m) /\ i <= n
        BY <1>1
    <2>2. \A i \in 1..m : n + i \in 1..(n + m) /\ ~ (n + i <= n) /\ (n + i) - n = i
        BY <1>1
    <2> QED
        BY <1>2, <2>1, <2>2
<1>4. ASSUME NEW p \in 1..(n + 1) PROVE Taken(c, p) = Taken(s, p)
    <2>1. ASSUME NEW i \in 1..(p - 1)
          PROVE  /\ c[i] = s[i]
                 /\ \A j \in (i + 1)..(p - 1) : c[j] = s[j]
        BY <1>1, <1>3
    <2>2. ASSUME NEW l \in Locks PROVE l \in Taken(c, p) <=> l \in Taken(s, p)
        <3>1. ASSUME l \in Taken(c, p) PROVE l \in Taken(s, p)
            BY <2>1, <3>1 DEF Taken
        <3>2. ASSUME l \in Taken(s, p) PROVE l \in Taken(c, p)
            BY <2>1, <3>2 DEF Taken
        <3> QED
            BY <3>1, <3>2
    <2>3. Taken(c, p) \subseteq Locks /\ Taken(s, p) \subseteq Locks
        BY DEF Taken
    <2> QED
        BY <2>2, <2>3
<1>5. ASSUME NEW q \in 1..(m + 1) PROVE Taken(c, n + q) = Taken(t, q)
    <2>1. Taken(s, n + 1) = {}
        BY DEF Fragment, n
    <2>2. ASSUME NEW l \in Locks, NEW i \in 1..n, Takes(s[i]), s[i][2] = l
          PROVE  \E j \in (i + 1)..n : s[j] = <<"drop", l>>
        <3>1. (n + 1) - 1 = n
            BY <1>1
        <3> QED
            BY <2>1, <2>2, <3>1 DEF Taken
    <2>3. ASSUME NEW l \in Taken(c, n + q) PROVE l \in Taken(t, q)
        <3>1. PICK i \in 1..((n + q) - 1) :
                  /\ Takes(c[i]) /\ c[i][2] = l
                  /\ \A j \in (i + 1)..((n + q) - 1) : c[j] # <<"drop", l>>
            BY DEF Taken
        <3>2. CASE i <= n
            <4>1. i \in 1..n /\ c[i] = s[i] /\ l \in Locks
                BY <1>1, <1>3, <3>2 DEF Taken
            <4>2. PICK j \in (i + 1)..n : s[j] = <<"drop", l>>
                BY <2>2, <3>1, <4>1
            <4>3. j \in 1..n /\ j \in (i + 1)..((n + q) - 1)
                BY <1>1, <4>1
            <4> QED
                BY <1>3, <3>1, <4>2, <4>3
        <3>3. CASE ~ (i <= n)
            <4>1. PICK k \in 1..(q - 1) : i = n + k
                <5>1. i - n \in 1..(q - 1) /\ i = n + (i - n)
                    BY <1>1, <3>3
                <5> QED
                    BY <5>1
            <4>2. k \in 1..m /\ \A j \in (k + 1)..(q - 1) :
                      j \in 1..m /\ n + j \in (i + 1)..((n + q) - 1)
                BY <1>1, <4>1
            <4>3. Takes(t[k]) /\ t[k][2] = l
                BY <1>3, <3>1, <4>1, <4>2
            <4>4. \A j \in (k + 1)..(q - 1) : t[j] # <<"drop", l>>
                BY <1>3, <3>1, <4>2
            <4> QED
                BY <4>3, <4>4 DEF Taken
        <3> QED
            BY <3>2, <3>3
    <2>4. ASSUME NEW l \in Taken(t, q) PROVE l \in Taken(c, n + q)
        <3>1. PICK k \in 1..(q - 1) :
                  /\ Takes(t[k]) /\ t[k][2] = l
                  /\ \A j \in (k + 1)..(q - 1) : t[j] # <<"drop", l>>
            BY DEF Taken
        <3>2. k \in 1..m /\ n + k \in 1..((n + q) - 1)
            BY <1>1
        <3>3. ASSUME NEW j \in ((n + k) + 1)..((n + q) - 1) PROVE c[j] # <<"drop", l>>
            <4>1. j - n \in (k + 1)..(q - 1) /\ j - n \in 1..m /\ n + (j - n) = j
                BY <1>1
            <4> QED
                BY <1>3, <3>1, <4>1
        <3>4. Takes(c[n + k]) /\ c[n + k][2] = l
            BY <1>3, <3>1, <3>2
        <3> QED
            BY <3>2, <3>3, <3>4 DEF Taken
    <2> QED
        BY <2>3, <2>4
<1>6. ASSUME NEW p \in 1..(n + m)
      PROVE  \/ p \in 1..n
             \/ \E q \in 1..m : p = n + q
    <2>1. CASE p <= n
        BY <1>1, <2>1
    <2>2. CASE ~ (p <= n)
        <3>1. p - n \in 1..m /\ p = n + (p - n)
            BY <1>1, <2>2
        <3> QED
            BY <3>1
    <2> QED
        BY <2>1, <2>2
<1>7. /\ \A p \in 1..n : c[p] = s[p] /\ Taken(c, p) = Taken(s, p)
      /\ \A q \in 1..m : c[n + q] = t[q] /\ Taken(c, n + q) = Taken(t, q)
      /\ Taken(c, n + (m + 1)) = Taken(t, m + 1)
    <2>1. /\ \A p \in 1..n : p \in 1..(n + 1)
          /\ \A q \in 1..m : q \in 1..(m + 1)
          /\ m + 1 \in 1..(m + 1)
        BY <1>1
    <2> QED
        BY <1>3, <1>4, <1>5, <2>1
<1> QED
    BY <1>2, <1>6, <1>7 DEF c, n, m

\* Two pieces that follow the discipline follow it one after the other.
LEMMA FragmentConcat ==
    ASSUME NEW s, NEW t, Fragment(s), Fragment(t)
    PROVE  /\ Fragment(s \o t)
           /\ PutsNothing(s) /\ PutsNothing(t) => PutsNothing(s \o t)
           /\ Plain(s) /\ Plain(t) => Plain(s \o t)
<1> DEFINE n == Len(s)  m == Len(t)  c == s \o t
<1>1. n \in Nat /\ m \in Nat
    BY LenProperties DEF Fragment
<1>2. /\ c \in Seq(Ops) /\ Len(c) = n + m
      /\ \A p \in 1..n : c[p] = s[p] /\ Taken(c, p) = Taken(s, p)
      /\ \A q \in 1..m : c[n + q] = t[q] /\ Taken(c, n + q) = Taken(t, q)
      /\ Taken(c, n + (m + 1)) = Taken(t, m + 1)
      /\ \A p \in 1..(n + m) : p \in 1..n \/ \E q \in 1..m : p = n + q
    BY TakenConcat
<1> HIDE DEF c, n, m
<1>3. InOrder(c)
    <2>1. ASSUME NEW p \in 1..(n + m), Takes(c[p]), NEW l \in Taken(c, p)
          PROVE  Rank(l) < Rank(c[p][2]) \/ (l = "delta" /\ c[p][2] = "delta")
        <3>1. CASE p \in 1..n
            <4>1. c[p] = s[p] /\ Taken(c, p) = Taken(s, p)
                BY <1>2, <3>1
            <4> QED
                BY <2>1, <3>1, <4>1 DEF Fragment, InOrder, n
        <3>2. ASSUME NEW q \in 1..m, p = n + q
              PROVE  Rank(l) < Rank(c[p][2]) \/ (l = "delta" /\ c[p][2] = "delta")
            <4>1. c[p] = t[q] /\ Taken(c, p) = Taken(t, q)
                BY <1>2, <3>2
            <4> QED
                BY <2>1, <4>1 DEF Fragment, InOrder, m
        <3> QED
            BY <1>2, <3>1, <3>2
    <2> QED
        BY <1>2, <2>1 DEF InOrder
<1>4. Joins(c)
    <2>1. ASSUME NEW p \in 1..(n + m), c[p][1] = "join"
          PROVE  p > 1 /\ c[p - 1] = <<"read", "hnsw">> /\ c[p] = <<"join", "edge_hnsw">>
        <3>1. CASE p \in 1..n
            <4>1. c[p] = s[p]
                BY <1>2, <3>1
            <4>2. p > 1 /\ s[p - 1] = <<"read", "hnsw">> /\ s[p] = <<"join", "edge_hnsw">>
                BY <2>1, <3>1, <4>1 DEF Fragment, Joins, n
            <4>3. p - 1 \in 1..n
                BY <1>1, <3>1, <4>2
            <4> QED
                BY <1>2, <4>1, <4>2, <4>3
        <3>2. ASSUME NEW q \in 1..m, p = n + q
              PROVE  p > 1 /\ c[p - 1] = <<"read", "hnsw">> /\ c[p] = <<"join", "edge_hnsw">>
            <4>1. c[p] = t[q]
                BY <1>2, <3>2
            <4>2. q > 1 /\ t[q - 1] = <<"read", "hnsw">> /\ t[q] = <<"join", "edge_hnsw">>
                BY <2>1, <4>1 DEF Fragment, Joins, m
            <4>3. q - 1 \in 1..m /\ n + (q - 1) = p - 1 /\ p > 1
                BY <1>1, <3>2, <4>2
            <4> QED
                BY <1>2, <4>1, <4>2, <4>3
        <3> QED
            BY <1>2, <3>1, <3>2
    <2> QED
        BY <1>2, <2>1 DEF Joins
<1>5. Taken(c, Len(c) + 1) = {}
    <2>1. Taken(t, m + 1) = {}
        BY DEF Fragment, m
    <2>2. (n + m) + 1 = n + (m + 1)
        BY <1>1
    <2> QED
        BY <1>2, <2>1, <2>2
<1>6. ASSUME PutsNothing(s), PutsNothing(t) PROVE PutsNothing(c)
    <2>1. /\ \A p \in 1..n : s[p][1] # "put"
          /\ \A q \in 1..m : t[q][1] # "put"
        BY <1>6 DEF PutsNothing, n, m
    <2>2. \A p \in 1..(n + m) : c[p][1] # "put"
        BY <1>2, <2>1
    <2> QED
        BY <1>2, <2>2 DEF PutsNothing
<1>7. ASSUME Plain(s), Plain(t) PROVE Plain(c)
    <2>1. /\ \A p \in 1..n : s[p][1] # "join" /\ (Takes(s[p]) => s[p][2] \notin Taken(s, p))
          /\ \A q \in 1..m : t[q][1] # "join" /\ (Takes(t[q]) => t[q][2] \notin Taken(t, q))
        BY <1>7 DEF Plain, n, m
    <2>2. \A p \in 1..(n + m) :
              c[p][1] # "join" /\ (Takes(c[p]) => c[p][2] \notin Taken(c, p))
        BY <1>2, <2>1
    <2> QED
        BY <1>2, <2>2 DEF Plain
<1> QED
    BY <1>2, <1>3, <1>4, <1>5, <1>6, <1>7 DEF Fragment, c

-----------------------------------------------------------------------------
(***************************************************************************)
(* The handlers follow the discipline.                                     *)
(***************************************************************************)
\* The same, for a step that is written out.
LEMMA TakenRead ==
    ASSUME NEW s \in Seq(Ops), NEW p \in 1..Len(s), NEW l, s[p] = <<"read", l>>
    PROVE  Taken(s, p + 1) = Taken(s, p) \cup {l}
<1>1. Takes(s[p]) /\ s[p][2] = l
    BY DEF Takes
<1> QED
    BY <1>1, TakenNext

LEMMA TakenWrite ==
    ASSUME NEW s \in Seq(Ops), NEW p \in 1..Len(s), NEW l, s[p] = <<"write", l>>
    PROVE  Taken(s, p + 1) = Taken(s, p) \cup {l}
<1>1. Takes(s[p]) /\ s[p][2] = l
    BY DEF Takes
<1> QED
    BY <1>1, TakenNext

LEMMA TakenJoin ==
    ASSUME NEW s \in Seq(Ops), NEW p \in 1..Len(s), NEW l, s[p] = <<"join", l>>
    PROVE  Taken(s, p + 1) = Taken(s, p) \cup {l}
<1>1. Takes(s[p]) /\ s[p][2] = l
    BY DEF Takes
<1> QED
    BY <1>1, TakenNext

LEMMA TakenDrop ==
    ASSUME NEW s \in Seq(Ops), NEW p \in 1..Len(s), NEW l, s[p] = <<"drop", l>>
    PROVE  Taken(s, p + 1) = Taken(s, p) \ {l}
<1>1. s[p][1] = "drop" /\ s[p][2] = l
    OBVIOUS
<1> QED
    BY <1>1, TakenNext

LEMMA TakenKeep ==
    ASSUME NEW s \in Seq(Ops), NEW p \in 1..Len(s), NEW l,
           \/ s[p] = <<"search", l>> \/ s[p] = <<"score", l>>
           \/ s[p] = <<"put", l>> \/ s[p] = <<"call", l>>
    PROVE  Taken(s, p + 1) = Taken(s, p)
<1>1. ~ Takes(s[p]) /\ s[p][1] # "drop"
    BY DEF Takes
<1> QED
    BY <1>1, TakenNext

\* The pieces that programs are made of.
LEMMA CallFragment == Fragment(Call) /\ PutsNothing(Call) /\ Plain(Call)
<1> DEFINE s == Call
<1>1. Len(s) = 1 /\ s[1] = <<"call", "plugin">>
    BY DEF Call
<1>2. s \in Seq(Ops)
    BY DEF Call, Ops
<1> HIDE DEF s
<1>3. \A p \in 1..Len(s) : s[p][1] = "call"
    BY <1>1
<1>4. Taken(s, 1) = {}
    BY TakenFirst
<1>5. Taken(s, 1 + 1) = Taken(s, 1)
    <2>1. 1 \in 1..Len(s) /\ s[1] = <<"call", "plugin">>
        BY <1>1
    <2> QED
        BY <1>2, <2>1, TakenKeep, Zenon
<1>6. Taken(s, Len(s) + 1) = {}
    BY <1>1, <1>4, <1>5, Zenon
<1>7. InOrder(s)
    BY <1>3 DEF InOrder, Takes
<1>8. Joins(s)
    BY <1>3 DEF Joins
<1>9. PutsNothing(s) /\ Plain(s)
    BY <1>3 DEF PutsNothing, Plain, Takes
<1> QED
    BY <1>2, <1>6, <1>7, <1>8, <1>9 DEF Fragment, s

LEMMA SearchFragment ==
    Fragment(Search) /\ PutsNothing(Search)
<1> DEFINE s == Search
<1>1. /\ Len(s) = 5
      /\ s[1] = <<"read", "hnsw">> /\ s[2] = <<"join", "edge_hnsw">>
      /\ s[3] = <<"search", "hnsw">> /\ s[4] = <<"drop", "edge_hnsw">>
      /\ s[5] = <<"drop", "hnsw">>
    BY DEF Search
<1>2. s \in Seq(Ops)
    BY DEF Search, Ops, Locks, IndexLocks
<1> HIDE DEF s
<1>3. 1..Len(s) = {1, 2, 3, 4, 5}
    BY <1>1
<1>4. Taken(s, 1) = {}
    BY TakenFirst
<1>5. Taken(s, 1 + 1) = Taken(s, 1) \cup {"hnsw"}
    <2>1. 1 \in 1..Len(s) /\ s[1] = <<"read", "hnsw">>
        BY <1>1
    <2> QED
        BY <1>2, <2>1, TakenRead
<1>6. Taken(s, 2 + 1) = Taken(s, 2) \cup {"edge_hnsw"}
    <2>1. 2 \in 1..Len(s) /\ s[2] = <<"join", "edge_hnsw">>
        BY <1>1
    <2> QED
        BY <1>2, <2>1, TakenJoin
<1>7. Taken(s, 3 + 1) = Taken(s, 3)
    <2>1. 3 \in 1..Len(s) /\ s[3] = <<"search", "hnsw">>
        BY <1>1
    <2> QED
        BY <1>2, <2>1, TakenKeep, Zenon
<1>8. Taken(s, 4 + 1) = Taken(s, 4) \ {"edge_hnsw"}
    <2>1. 4 \in 1..Len(s) /\ s[4] = <<"drop", "edge_hnsw">>
        BY <1>1
    <2> QED
        BY <1>2, <2>1, TakenDrop
<1>9. Taken(s, 5 + 1) = Taken(s, 5) \ {"hnsw"}
    <2>1. 5 \in 1..Len(s) /\ s[5] = <<"drop", "hnsw">>
        BY <1>1
    <2> QED
        BY <1>2, <2>1, TakenDrop
<1>10. /\ Taken(s, 1) = {}
       /\ Taken(s, 2) = {"hnsw"}
       /\ Taken(s, 3) = {"hnsw", "edge_hnsw"}
       /\ Taken(s, 4) = {"hnsw", "edge_hnsw"}
       /\ Taken(s, 5) = {"hnsw"}
       /\ Taken(s, 6) = {}
    BY <1>4, <1>5, <1>6, <1>7, <1>8, <1>9
<1>11. InOrder(s)
    BY <1>1, <1>3, <1>10 DEF InOrder, Takes, Rank
<1>12. Joins(s)
    BY <1>1, <1>3 DEF Joins
<1>13. Taken(s, Len(s) + 1) = {}
    BY <1>1, <1>10
<1>14. PutsNothing(s)
    BY <1>1, <1>3 DEF PutsNothing
<1> QED
    BY <1>2, <1>11, <1>12, <1>13, <1>14 DEF Fragment, s

LEMMA RetrieveFragment ==
    Fragment(Retrieve) /\ PutsNothing(Retrieve) /\ Plain(Retrieve)
<1> DEFINE s == Retrieve
<1>1. /\ Len(s) = 5
      /\ s[1] = <<"read", "graph">> /\ s[2] = <<"read", "store">>
      /\ s[3] = <<"score", "graph">> /\ s[4] = <<"drop", "store">>
      /\ s[5] = <<"drop", "graph">>
    BY DEF Retrieve
<1>2. s \in Seq(Ops)
    BY DEF Retrieve, Ops, Locks, IndexLocks
<1> HIDE DEF s
<1>3. 1..Len(s) = {1, 2, 3, 4, 5}
    BY <1>1
<1>4. Taken(s, 1) = {}
    BY TakenFirst
<1>5. Taken(s, 1 + 1) = Taken(s, 1) \cup {"graph"}
    <2>1. 1 \in 1..Len(s) /\ s[1] = <<"read", "graph">>
        BY <1>1
    <2> QED
        BY <1>2, <2>1, TakenRead
<1>6. Taken(s, 2 + 1) = Taken(s, 2) \cup {"store"}
    <2>1. 2 \in 1..Len(s) /\ s[2] = <<"read", "store">>
        BY <1>1
    <2> QED
        BY <1>2, <2>1, TakenRead
<1>7. Taken(s, 3 + 1) = Taken(s, 3)
    <2>1. 3 \in 1..Len(s) /\ s[3] = <<"score", "graph">>
        BY <1>1
    <2> QED
        BY <1>2, <2>1, TakenKeep, Zenon
<1>8. Taken(s, 4 + 1) = Taken(s, 4) \ {"store"}
    <2>1. 4 \in 1..Len(s) /\ s[4] = <<"drop", "store">>
        BY <1>1
    <2> QED
        BY <1>2, <2>1, TakenDrop
<1>9. Taken(s, 5 + 1) = Taken(s, 5) \ {"graph"}
    <2>1. 5 \in 1..Len(s) /\ s[5] = <<"drop", "graph">>
        BY <1>1
    <2> QED
        BY <1>2, <2>1, TakenDrop
<1>10. /\ Taken(s, 1) = {}
       /\ Taken(s, 2) = {"graph"}
       /\ Taken(s, 3) = {"graph", "store"}
       /\ Taken(s, 4) = {"graph", "store"}
       /\ Taken(s, 5) = {"graph"}
       /\ Taken(s, 6) = {}
    BY <1>4, <1>5, <1>6, <1>7, <1>8, <1>9
<1>11. InOrder(s)
    BY <1>1, <1>3, <1>10 DEF InOrder, Takes, Rank
<1>12. Joins(s)
    BY <1>1, <1>3 DEF Joins
<1>13. Taken(s, Len(s) + 1) = {}
    BY <1>1, <1>10
<1>14. PutsNothing(s)
    BY <1>1, <1>3 DEF PutsNothing
<1>15. Plain(s)
    BY <1>1, <1>3, <1>10 DEF Plain, Takes
<1> QED
    BY <1>2, <1>11, <1>12, <1>13, <1>14, <1>15 DEF Fragment, s

LEMMA ResolveNamesFragment ==
    Fragment(ResolveNames) /\ PutsNothing(ResolveNames) /\ Plain(ResolveNames)
<1> DEFINE s == ResolveNames
<1>1. /\ Len(s) = 6
      /\ s[1] = <<"read", "graph">> /\ s[2] = <<"call", "plugin">>
      /\ s[3] = <<"read", "hnsw">> /\ s[4] = <<"search", "hnsw">>
      /\ s[5] = <<"drop", "hnsw">> /\ s[6] = <<"drop", "graph">>
    BY DEF ResolveNames
<1>2. s \in Seq(Ops)
    BY DEF ResolveNames, Ops, Locks, IndexLocks
<1> HIDE DEF s
<1>3. 1..Len(s) = {1, 2, 3, 4, 5, 6}
    BY <1>1
<1>4. Taken(s, 1) = {}
    BY TakenFirst
<1>5. Taken(s, 1 + 1) = Taken(s, 1) \cup {"graph"}
    <2>1. 1 \in 1..Len(s) /\ s[1] = <<"read", "graph">>
        BY <1>1
    <2> QED
        BY <1>2, <2>1, TakenRead
<1>6. Taken(s, 2 + 1) = Taken(s, 2)
    <2>1. 2 \in 1..Len(s) /\ s[2] = <<"call", "plugin">>
        BY <1>1
    <2> QED
        BY <1>2, <2>1, TakenKeep, Zenon
<1>7. Taken(s, 3 + 1) = Taken(s, 3) \cup {"hnsw"}
    <2>1. 3 \in 1..Len(s) /\ s[3] = <<"read", "hnsw">>
        BY <1>1
    <2> QED
        BY <1>2, <2>1, TakenRead
<1>8. Taken(s, 4 + 1) = Taken(s, 4)
    <2>1. 4 \in 1..Len(s) /\ s[4] = <<"search", "hnsw">>
        BY <1>1
    <2> QED
        BY <1>2, <2>1, TakenKeep, Zenon
<1>9. Taken(s, 5 + 1) = Taken(s, 5) \ {"hnsw"}
    <2>1. 5 \in 1..Len(s) /\ s[5] = <<"drop", "hnsw">>
        BY <1>1
    <2> QED
        BY <1>2, <2>1, TakenDrop
<1>10. Taken(s, 6 + 1) = Taken(s, 6) \ {"graph"}
    <2>1. 6 \in 1..Len(s) /\ s[6] = <<"drop", "graph">>
        BY <1>1
    <2> QED
        BY <1>2, <2>1, TakenDrop
<1>11. /\ Taken(s, 1) = {}
       /\ Taken(s, 2) = {"graph"}
       /\ Taken(s, 3) = {"graph"}
       /\ Taken(s, 4) = {"graph", "hnsw"}
       /\ Taken(s, 5) = {"graph", "hnsw"}
       /\ Taken(s, 6) = {"graph"}
       /\ Taken(s, 7) = {}
    BY <1>4, <1>5, <1>6, <1>7, <1>8, <1>9, <1>10
<1>12. InOrder(s)
    BY <1>1, <1>3, <1>11 DEF InOrder, Takes, Rank
<1>13. Joins(s)
    BY <1>1, <1>3 DEF Joins
<1>14. Taken(s, Len(s) + 1) = {}
    BY <1>1, <1>11
<1>15. PutsNothing(s)
    BY <1>1, <1>3 DEF PutsNothing
<1>16. Plain(s)
    BY <1>1, <1>3, <1>11 DEF Plain, Takes
<1> QED
    BY <1>2, <1>12, <1>13, <1>14, <1>15, <1>16 DEF Fragment, s

LEMMA LookFragment ==
    Fragment(<< <<"read", "graph">>, <<"drop", "graph">> >>) /\ PutsNothing(<< <<"read", "graph">>, <<"drop", "graph">> >>) /\ Plain(<< <<"read", "graph">>, <<"drop", "graph">> >>)
<1> DEFINE s == << <<"read", "graph">>, <<"drop", "graph">> >>
<1>1. /\ Len(s) = 2
      /\ s[1] = <<"read", "graph">> /\ s[2] = <<"drop", "graph">>
    OBVIOUS
<1>2. s \in Seq(Ops)
    BY DEF Ops, Locks, IndexLocks
<1> HIDE DEF s
<1>3. 1..Len(s) = {1, 2}
    BY <1>1
<1>4. Taken(s, 1) = {}
    BY TakenFirst
<1>5. Taken(s, 1 + 1) = Taken(s, 1) \cup {"graph"}
    <2>1. 1 \in 1..Len(s) /\ s[1] = <<"read", "graph">>
        BY <1>1
    <2> QED
        BY <1>2, <2>1, TakenRead
<1>6. Taken(s, 2 + 1) = Taken(s, 2) \ {"graph"}
    <2>1. 2 \in 1..Len(s) /\ s[2] = <<"drop", "graph">>
        BY <1>1
    <2> QED
        BY <1>2, <2>1, TakenDrop
<1>7. /\ Taken(s, 1) = {}
      /\ Taken(s, 2) = {"graph"}
      /\ Taken(s, 3) = {}
    BY <1>4, <1>5, <1>6
<1>8. InOrder(s)
    BY <1>1, <1>3, <1>7 DEF InOrder, Takes, Rank
<1>9. Joins(s)
    BY <1>1, <1>3 DEF Joins
<1>10. Taken(s, Len(s) + 1) = {}
    BY <1>1, <1>7
<1>11. PutsNothing(s)
    BY <1>1, <1>3 DEF PutsNothing
<1>12. Plain(s)
    BY <1>1, <1>3, <1>7 DEF Plain, Takes
<1> QED
    BY <1>2, <1>8, <1>9, <1>10, <1>11, <1>12 DEF Fragment, s

LEMMA IngestFragment ==
    Fragment(Ingest) /\ PutsNothing(Ingest) /\ Plain(Ingest)
<1> DEFINE s == Ingest
<1>1. /\ Len(s) = 14
      /\ s[1] = <<"read", "graph">> /\ s[2] = <<"read", "hnsw">>
      /\ s[3] = <<"read", "delta">> /\ s[4] = <<"drop", "delta">>
      /\ s[5] = <<"drop", "hnsw">> /\ s[6] = <<"drop", "graph">>
      /\ s[7] = <<"write", "delta">> /\ s[8] = <<"drop", "delta">>
      /\ s[9] = <<"write", "delta">> /\ s[10] = <<"drop", "delta">>
      /\ s[11] = <<"read", "delta">> /\ s[12] = <<"drop", "delta">>
      /\ s[13] = <<"read", "delta">> /\ s[14] = <<"drop", "delta">>
    BY DEF Ingest
<1>2. s \in Seq(Ops)
    BY DEF Ingest, Ops, Locks, IndexLocks
<1> HIDE DEF s
<1>3. 1..Len(s) = {1, 2, 3, 4, 5, 6, 7, 8, 9, 10, 11, 12, 13, 14}
    BY <1>1
<1>4. Taken(s, 1) = {}
    BY TakenFirst
<1>5. Taken(s, 1 + 1) = Taken(s, 1) \cup {"graph"}
    <2>1. 1 \in 1..Len(s) /\ s[1] = <<"read", "graph">>
        BY <1>1
    <2> QED
        BY <1>2, <2>1, TakenRead
<1>6. Taken(s, 2 + 1) = Taken(s, 2) \cup {"hnsw"}
    <2>1. 2 \in 1..Len(s) /\ s[2] = <<"read", "hnsw">>
        BY <1>1
    <2> QED
        BY <1>2, <2>1, TakenRead
<1>7. Taken(s, 3 + 1) = Taken(s, 3) \cup {"delta"}
    <2>1. 3 \in 1..Len(s) /\ s[3] = <<"read", "delta">>
        BY <1>1
    <2> QED
        BY <1>2, <2>1, TakenRead
<1>8. Taken(s, 4 + 1) = Taken(s, 4) \ {"delta"}
    <2>1. 4 \in 1..Len(s) /\ s[4] = <<"drop", "delta">>
        BY <1>1
    <2> QED
        BY <1>2, <2>1, TakenDrop
<1>9. Taken(s, 5 + 1) = Taken(s, 5) \ {"hnsw"}
    <2>1. 5 \in 1..Len(s) /\ s[5] = <<"drop", "hnsw">>
        BY <1>1
    <2> QED
        BY <1>2, <2>1, TakenDrop
<1>10. Taken(s, 6 + 1) = Taken(s, 6) \ {"graph"}
    <2>1. 6 \in 1..Len(s) /\ s[6] = <<"drop", "graph">>
        BY <1>1
    <2> QED
        BY <1>2, <2>1, TakenDrop
<1>11. Taken(s, 7 + 1) = Taken(s, 7) \cup {"delta"}
    <2>1. 7 \in 1..Len(s) /\ s[7] = <<"write", "delta">>
        BY <1>1
    <2> QED
        BY <1>2, <2>1, TakenWrite
<1>12. Taken(s, 8 + 1) = Taken(s, 8) \ {"delta"}
    <2>1. 8 \in 1..Len(s) /\ s[8] = <<"drop", "delta">>
        BY <1>1
    <2> QED
        BY <1>2, <2>1, TakenDrop
<1>13. Taken(s, 9 + 1) = Taken(s, 9) \cup {"delta"}
    <2>1. 9 \in 1..Len(s) /\ s[9] = <<"write", "delta">>
        BY <1>1
    <2> QED
        BY <1>2, <2>1, TakenWrite
<1>14. Taken(s, 10 + 1) = Taken(s, 10) \ {"delta"}
    <2>1. 10 \in 1..Len(s) /\ s[10] = <<"drop", "delta">>
        BY <1>1
    <2> QED
        BY <1>2, <2>1, TakenDrop
<1>15. Taken(s, 11 + 1) = Taken(s, 11) \cup {"delta"}
    <2>1. 11 \in 1..Len(s) /\ s[11] = <<"read", "delta">>
        BY <1>1
    <2> QED
        BY <1>2, <2>1, TakenRead
<1>16. Taken(s, 12 + 1) = Taken(s, 12) \ {"delta"}
    <2>1. 12 \in 1..Len(s) /\ s[12] = <<"drop", "delta">>
        BY <1>1
    <2> QED
        BY <1>2, <2>1, TakenDrop
<1>17. Taken(s, 13 + 1) = Taken(s, 13) \cup {"delta"}
    <2>1. 13 \in 1..Len(s) /\ s[13] = <<"read", "delta">>
        BY <1>1
    <2> QED
        BY <1>2, <2>1, TakenRead
<1>18. Taken(s, 14 + 1) = Taken(s, 14) \ {"delta"}
    <2>1. 14 \in 1..Len(s) /\ s[14] = <<"drop", "delta">>
        BY <1>1
    <2> QED
        BY <1>2, <2>1, TakenDrop
<1>19. /\ Taken(s, 1) = {}
       /\ Taken(s, 2) = {"graph"}
       /\ Taken(s, 3) = {"graph", "hnsw"}
       /\ Taken(s, 4) = {"graph", "hnsw", "delta"}
       /\ Taken(s, 5) = {"graph", "hnsw"}
       /\ Taken(s, 6) = {"graph"}
       /\ Taken(s, 7) = {}
       /\ Taken(s, 8) = {"delta"}
       /\ Taken(s, 9) = {}
       /\ Taken(s, 10) = {"delta"}
       /\ Taken(s, 11) = {}
       /\ Taken(s, 12) = {"delta"}
       /\ Taken(s, 13) = {}
       /\ Taken(s, 14) = {"delta"}
       /\ Taken(s, 15) = {}
    BY <1>4, <1>5, <1>6, <1>7, <1>8, <1>9, <1>10, <1>11, <1>12, <1>13, <1>14, <1>15, <1>16, <1>17, <1>18
<1>20. InOrder(s)
    BY <1>1, <1>3, <1>19 DEF InOrder, Takes, Rank
<1>21. Joins(s)
    BY <1>1, <1>3 DEF Joins
<1>22. Taken(s, Len(s) + 1) = {}
    BY <1>1, <1>19
<1>23. PutsNothing(s)
    BY <1>1, <1>3 DEF PutsNothing
<1>24. Plain(s)
    BY <1>1, <1>3, <1>19 DEF Plain, Takes
<1> QED
    BY <1>2, <1>20, <1>21, <1>22, <1>23, <1>24 DEF Fragment, s

LEMMA NodeLookupFragment ==
    Fragment(NodeLookup) /\ PutsNothing(NodeLookup) /\ Plain(NodeLookup)
<1> DEFINE s == NodeLookup
<1>1. /\ Len(s) = 4
      /\ s[1] = <<"read", "graph">> /\ s[2] = <<"drop", "graph">>
      /\ s[3] = <<"read", "delta">> /\ s[4] = <<"drop", "delta">>
    BY DEF NodeLookup
<1>2. s \in Seq(Ops)
    BY DEF NodeLookup, Ops, Locks, IndexLocks
<1> HIDE DEF s
<1>3. 1..Len(s) = {1, 2, 3, 4}
    BY <1>1
<1>4. Taken(s, 1) = {}
    BY TakenFirst
<1>5. Taken(s, 1 + 1) = Taken(s, 1) \cup {"graph"}
    <2>1. 1 \in 1..Len(s) /\ s[1] = <<"read", "graph">>
        BY <1>1
    <2> QED
        BY <1>2, <2>1, TakenRead
<1>6. Taken(s, 2 + 1) = Taken(s, 2) \ {"graph"}
    <2>1. 2 \in 1..Len(s) /\ s[2] = <<"drop", "graph">>
        BY <1>1
    <2> QED
        BY <1>2, <2>1, TakenDrop
<1>7. Taken(s, 3 + 1) = Taken(s, 3) \cup {"delta"}
    <2>1. 3 \in 1..Len(s) /\ s[3] = <<"read", "delta">>
        BY <1>1
    <2> QED
        BY <1>2, <2>1, TakenRead
<1>8. Taken(s, 4 + 1) = Taken(s, 4) \ {"delta"}
    <2>1. 4 \in 1..Len(s) /\ s[4] = <<"drop", "delta">>
        BY <1>1
    <2> QED
        BY <1>2, <2>1, TakenDrop
<1>9. /\ Taken(s, 1) = {}
      /\ Taken(s, 2) = {"graph"}
      /\ Taken(s, 3) = {}
      /\ Taken(s, 4) = {"delta"}
      /\ Taken(s, 5) = {}
    BY <1>4, <1>5, <1>6, <1>7, <1>8
<1>10. InOrder(s)
    BY <1>1, <1>3, <1>9 DEF InOrder, Takes, Rank
<1>11. Joins(s)
    BY <1>1, <1>3 DEF Joins
<1>12. Taken(s, Len(s) + 1) = {}
    BY <1>1, <1>9
<1>13. PutsNothing(s)
    BY <1>1, <1>3 DEF PutsNothing
<1>14. Plain(s)
    BY <1>1, <1>3, <1>9 DEF Plain, Takes
<1> QED
    BY <1>2, <1>10, <1>11, <1>12, <1>13, <1>14 DEF Fragment, s

LEMMA EdgeSearchFragment ==
    Fragment(EdgeSearch) /\ PutsNothing(EdgeSearch) /\ Plain(EdgeSearch)
<1> DEFINE s == EdgeSearch
<1>1. /\ Len(s) = 6
      /\ s[1] = <<"read", "graph">> /\ s[2] = <<"drop", "graph">>
      /\ s[3] = <<"read", "graph">> /\ s[4] = <<"read", "delta">>
      /\ s[5] = <<"drop", "delta">> /\ s[6] = <<"drop", "graph">>
    BY DEF EdgeSearch
<1>2. s \in Seq(Ops)
    BY DEF EdgeSearch, Ops, Locks, IndexLocks
<1> HIDE DEF s
<1>3. 1..Len(s) = {1, 2, 3, 4, 5, 6}
    BY <1>1
<1>4. Taken(s, 1) = {}
    BY TakenFirst
<1>5. Taken(s, 1 + 1) = Taken(s, 1) \cup {"graph"}
    <2>1. 1 \in 1..Len(s) /\ s[1] = <<"read", "graph">>
        BY <1>1
    <2> QED
        BY <1>2, <2>1, TakenRead
<1>6. Taken(s, 2 + 1) = Taken(s, 2) \ {"graph"}
    <2>1. 2 \in 1..Len(s) /\ s[2] = <<"drop", "graph">>
        BY <1>1
    <2> QED
        BY <1>2, <2>1, TakenDrop
<1>7. Taken(s, 3 + 1) = Taken(s, 3) \cup {"graph"}
    <2>1. 3 \in 1..Len(s) /\ s[3] = <<"read", "graph">>
        BY <1>1
    <2> QED
        BY <1>2, <2>1, TakenRead
<1>8. Taken(s, 4 + 1) = Taken(s, 4) \cup {"delta"}
    <2>1. 4 \in 1..Len(s) /\ s[4] = <<"read", "delta">>
        BY <1>1
    <2> QED
        BY <1>2, <2>1, TakenRead
<1>9. Taken(s, 5 + 1) = Taken(s, 5) \ {"delta"}
    <2>1. 5 \in 1..Len(s) /\ s[5] = <<"drop", "delta">>
        BY <1>1
    <2> QED
        BY <1>2, <2>1, TakenDrop
<1>10. Taken(s, 6 + 1) = Taken(s, 6) \ {"graph"}
    <2>1. 6 \in 1..Len(s) /\ s[6] = <<"drop", "graph">>
        BY <1>1
    <2> QED
        BY <1>2, <2>1, TakenDrop
<1>11. /\ Taken(s, 1) = {}
       /\ Taken(s, 2) = {"graph"}
       /\ Taken(s, 3) = {}
       /\ Taken(s, 4) = {"graph"}
       /\ Taken(s, 5) = {"graph", "delta"}
       /\ Taken(s, 6) = {"graph"}
       /\ Taken(s, 7) = {}
    BY <1>4, <1>5, <1>6, <1>7, <1>8, <1>9, <1>10
<1>12. InOrder(s)
    BY <1>1, <1>3, <1>11 DEF InOrder, Takes, Rank
<1>13. Joins(s)
    BY <1>1, <1>3 DEF Joins
<1>14. Taken(s, Len(s) + 1) = {}
    BY <1>1, <1>11
<1>15. PutsNothing(s)
    BY <1>1, <1>3 DEF PutsNothing
<1>16. Plain(s)
    BY <1>1, <1>3, <1>11 DEF Plain, Takes
<1> QED
    BY <1>2, <1>12, <1>13, <1>14, <1>15, <1>16 DEF Fragment, s

LEMMA GraphStatsFragment ==
    Fragment(GraphStats) /\ PutsNothing(GraphStats)
<1> DEFINE s == GraphStats
<1>1. /\ Len(s) = 6
      /\ s[1] = <<"read", "graph">> /\ s[2] = <<"read", "delta">>
      /\ s[3] = <<"read", "delta">> /\ s[4] = <<"read", "delta">>
      /\ s[5] = <<"drop", "delta">> /\ s[6] = <<"drop", "graph">>
    BY DEF GraphStats
<1>2. s \in Seq(Ops)
    BY DEF GraphStats, Ops, Locks, IndexLocks
<1> HIDE DEF s
<1>3. 1..Len(s) = {1, 2, 3, 4, 5, 6}
    BY <1>1
<1>4. Taken(s, 1) = {}
    BY TakenFirst
<1>5. Taken(s, 1 + 1) = Taken(s, 1) \cup {"graph"}
    <2>1. 1 \in 1..Len(s) /\ s[1] = <<"read", "graph">>
        BY <1>1
    <2> QED
        BY <1>2, <2>1, TakenRead
<1>6. Taken(s, 2 + 1) = Taken(s, 2) \cup {"delta"}
    <2>1. 2 \in 1..Len(s) /\ s[2] = <<"read", "delta">>
        BY <1>1
    <2> QED
        BY <1>2, <2>1, TakenRead
<1>7. Taken(s, 3 + 1) = Taken(s, 3) \cup {"delta"}
    <2>1. 3 \in 1..Len(s) /\ s[3] = <<"read", "delta">>
        BY <1>1
    <2> QED
        BY <1>2, <2>1, TakenRead
<1>8. Taken(s, 4 + 1) = Taken(s, 4) \cup {"delta"}
    <2>1. 4 \in 1..Len(s) /\ s[4] = <<"read", "delta">>
        BY <1>1
    <2> QED
        BY <1>2, <2>1, TakenRead
<1>9. Taken(s, 5 + 1) = Taken(s, 5) \ {"delta"}
    <2>1. 5 \in 1..Len(s) /\ s[5] = <<"drop", "delta">>
        BY <1>1
    <2> QED
        BY <1>2, <2>1, TakenDrop
<1>10. Taken(s, 6 + 1) = Taken(s, 6) \ {"graph"}
    <2>1. 6 \in 1..Len(s) /\ s[6] = <<"drop", "graph">>
        BY <1>1
    <2> QED
        BY <1>2, <2>1, TakenDrop
<1>11. /\ Taken(s, 1) = {}
       /\ Taken(s, 2) = {"graph"}
       /\ Taken(s, 3) = {"graph", "delta"}
       /\ Taken(s, 4) = {"graph", "delta"}
       /\ Taken(s, 5) = {"graph", "delta"}
       /\ Taken(s, 6) = {"graph"}
       /\ Taken(s, 7) = {}
    BY <1>4, <1>5, <1>6, <1>7, <1>8, <1>9, <1>10
<1>12. InOrder(s)
    BY <1>1, <1>3, <1>11 DEF InOrder, Takes, Rank
<1>13. Joins(s)
    BY <1>1, <1>3 DEF Joins
<1>14. Taken(s, Len(s) + 1) = {}
    BY <1>1, <1>11
<1>15. PutsNothing(s)
    BY <1>1, <1>3 DEF PutsNothing
<1> QED
    BY <1>2, <1>12, <1>13, <1>14, <1>15 DEF Fragment, s

LEMMA MergeFragment ==
    Fragment(Merge) /\ Plain(Merge)
<1> DEFINE s == Merge
<1>1. /\ Len(s) = 16
      /\ s[1] = <<"read", "graph">> /\ s[2] = <<"drop", "graph">>
      /\ s[3] = <<"write", "delta">> /\ s[4] = <<"drop", "delta">>
      /\ s[5] = <<"write", "graph">> /\ s[6] = <<"write", "hnsw">>
      /\ s[7] = <<"write", "edge_hnsw">> /\ s[8] = <<"write", "store">>
      /\ s[9] = <<"put", "graph">> /\ s[10] = <<"put", "hnsw">>
      /\ s[11] = <<"put", "edge_hnsw">> /\ s[12] = <<"put", "store">>
      /\ s[13] = <<"drop", "graph">> /\ s[14] = <<"drop", "hnsw">>
      /\ s[15] = <<"drop", "edge_hnsw">> /\ s[16] = <<"drop", "store">>
    BY DEF Merge
<1>2. s \in Seq(Ops)
    BY DEF Merge, Ops, Locks, IndexLocks
<1> HIDE DEF s
<1>3. 1..Len(s) = {1, 2, 3, 4, 5, 6, 7, 8, 9, 10, 11, 12, 13, 14, 15, 16}
    BY <1>1
<1>4. Taken(s, 1) = {}
    BY TakenFirst
<1>5. Taken(s, 1 + 1) = Taken(s, 1) \cup {"graph"}
    <2>1. 1 \in 1..Len(s) /\ s[1] = <<"read", "graph">>
        BY <1>1
    <2> QED
        BY <1>2, <2>1, TakenRead
<1>6. Taken(s, 2 + 1) = Taken(s, 2) \ {"graph"}
    <2>1. 2 \in 1..Len(s) /\ s[2] = <<"drop", "graph">>
        BY <1>1
    <2> QED
        BY <1>2, <2>1, TakenDrop
<1>7. Taken(s, 3 + 1) = Taken(s, 3) \cup {"delta"}
    <2>1. 3 \in 1..Len(s) /\ s[3] = <<"write", "delta">>
        BY <1>1
    <2> QED
        BY <1>2, <2>1, TakenWrite
<1>8. Taken(s, 4 + 1) = Taken(s, 4) \ {"delta"}
    <2>1. 4 \in 1..Len(s) /\ s[4] = <<"drop", "delta">>
        BY <1>1
    <2> QED
        BY <1>2, <2>1, TakenDrop
<1>9. Taken(s, 5 + 1) = Taken(s, 5) \cup {"graph"}
    <2>1. 5 \in 1..Len(s) /\ s[5] = <<"write", "graph">>
        BY <1>1
    <2> QED
        BY <1>2, <2>1, TakenWrite
<1>10. Taken(s, 6 + 1) = Taken(s, 6) \cup {"hnsw"}
    <2>1. 6 \in 1..Len(s) /\ s[6] = <<"write", "hnsw">>
        BY <1>1
    <2> QED
        BY <1>2, <2>1, TakenWrite
<1>11. Taken(s, 7 + 1) = Taken(s, 7) \cup {"edge_hnsw"}
    <2>1. 7 \in 1..Len(s) /\ s[7] = <<"write", "edge_hnsw">>
        BY <1>1
    <2> QED
        BY <1>2, <2>1, TakenWrite
<1>12. Taken(s, 8 + 1) = Taken(s, 8) \cup {"store"}
    <2>1. 8 \in 1..Len(s) /\ s[8] = <<"write", "store">>
        BY <1>1
    <2> QED
        BY <1>2, <2>1, TakenWrite
<1>13. Taken(s, 9 + 1) = Taken(s, 9)
    <2>1. 9 \in 1..Len(s) /\ s[9] = <<"put", "graph">>
        BY <1>1
    <2> QED
        BY <1>2, <2>1, TakenKeep, Zenon
<1>14. Taken(s, 10 + 1) = Taken(s, 10)
    <2>1. 10 \in 1..Len(s) /\ s[10] = <<"put", "hnsw">>
        BY <1>1
    <2> QED
        BY <1>2, <2>1, TakenKeep, Zenon
<1>15. Taken(s, 11 + 1) = Taken(s, 11)
    <2>1. 11 \in 1..Len(s) /\ s[11] = <<"put", "edge_hnsw">>
        BY <1>1
    <2> QED
        BY <1>2, <2>1, TakenKeep, Zenon
<1>16. Taken(s, 12 + 1) = Taken(s, 12)
    <2>1. 12 \in 1..Len(s) /\ s[12] = <<"put", "store">>
        BY <1>1
    <2> QED
        BY <1>2, <2>1, TakenKeep, Zenon
<1>17. Taken(s, 13 + 1) = Taken(s, 13) \ {"graph"}
    <2>1. 13 \in 1..Len(s) /\ s[13] = <<"drop", "graph">>
        BY <1>1
    <2> QED
        BY <1>2, <2>1, TakenDrop
<1>18. Taken(s, 14 + 1) = Taken(s, 14) \ {"hnsw"}
    <2>1. 14 \in 1..Len(s) /\ s[14] = <<"drop", "hnsw">>
        BY <1>1
    <2> QED
        BY <1>2, <2>1, TakenDrop
<1>19. Taken(s, 15 + 1) = Taken(s, 15) \ {"edge_hnsw"}
    <2>1. 15 \in 1..Len(s) /\ s[15] = <<"drop", "edge_hnsw">>
        BY <1>1
    <2> QED
        BY <1>2, <2>1, TakenDrop
<1>20. Taken(s, 16 + 1) = Taken(s, 16) \ {"store"}
    <2>1. 16 \in 1..Len(s) /\ s[16] = <<"drop", "store">>
        BY <1>1
    <2> QED
        BY <1>2, <2>1, TakenDrop
<1>21. /\ Taken(s, 1) = {}
       /\ Taken(s, 2) = {"graph"}
       /\ Taken(s, 3) = {}
       /\ Taken(s, 4) = {"delta"}
       /\ Taken(s, 5) = {}
       /\ Taken(s, 6) = {"graph"}
       /\ Taken(s, 7) = {"graph", "hnsw"}
       /\ Taken(s, 8) = {"graph", "hnsw", "edge_hnsw"}
       /\ Taken(s, 9) = {"graph", "hnsw", "edge_hnsw", "store"}
       /\ Taken(s, 10) = {"graph", "hnsw", "edge_hnsw", "store"}
       /\ Taken(s, 11) = {"graph", "hnsw", "edge_hnsw", "store"}
       /\ Taken(s, 12) = {"graph", "hnsw", "edge_hnsw", "store"}
       /\ Taken(s, 13) = {"graph", "hnsw", "edge_hnsw", "store"}
       /\ Taken(s, 14) = {"hnsw", "edge_hnsw", "store"}
       /\ Taken(s, 15) = {"edge_hnsw", "store"}
       /\ Taken(s, 16) = {"store"}
       /\ Taken(s, 17) = {}
    BY <1>4, <1>5, <1>6, <1>7, <1>8, <1>9, <1>10, <1>11, <1>12, <1>13, <1>14, <1>15, <1>16, <1>17, <1>18, <1>19, <1>20
<1>22. InOrder(s)
    BY <1>1, <1>3, <1>21 DEF InOrder, Takes, Rank
<1>23. Joins(s)
    BY <1>1, <1>3 DEF Joins
<1>24. Taken(s, Len(s) + 1) = {}
    BY <1>1, <1>21
<1>25. Plain(s)
    BY <1>1, <1>3, <1>21 DEF Plain, Takes
<1> QED
    BY <1>2, <1>22, <1>23, <1>24, <1>25 DEF Fragment, s

\* What every handler keeps to.
LEMMA Programs ==
    /\ \A k \in Kinds : Fragment(Program[k])
    /\ \A k \in Kinds \ {"merge"} : PutsNothing(Program[k])
    /\ \A k \in {"node", "ingest", "node_lookup", "edge_search", "merge"} : Plain(Program[k])
    /\ Program["merge"] = Merge
<1>1. Fragment(TextQuery) /\ PutsNothing(TextQuery)
    <2> DEFINE a == Call \o Search  b == a \o Retrieve
    <2>1. Fragment(a) /\ PutsNothing(a)
        BY CallFragment, SearchFragment, FragmentConcat
    <2> HIDE DEF a
    <2>2. Fragment(b) /\ PutsNothing(b)
        BY <2>1, RetrieveFragment, FragmentConcat
    <2> HIDE DEF b
    <2>3. Fragment(b \o Call) /\ PutsNothing(b \o Call)
        BY <2>2, CallFragment, FragmentConcat
    <2> QED
        BY <2>3 DEF TextQuery, a, b
<1>2. Fragment(MultihopQuery) /\ PutsNothing(MultihopQuery)
    <2> DEFINE a == Call \o Search  b == a \o Retrieve  c == b \o Call
               d == c \o ResolveNames  e == d \o Retrieve
    <2>1. Fragment(a) /\ PutsNothing(a)
        BY CallFragment, SearchFragment, FragmentConcat
    <2> HIDE DEF a
    <2>2. Fragment(b) /\ PutsNothing(b)
        BY <2>1, RetrieveFragment, FragmentConcat
    <2> HIDE DEF b
    <2>3. Fragment(c) /\ PutsNothing(c)
        BY <2>2, CallFragment, FragmentConcat
    <2> HIDE DEF c
    <2>4. Fragment(d) /\ PutsNothing(d)
        BY <2>3, ResolveNamesFragment, FragmentConcat
    <2> HIDE DEF d
    <2>5. Fragment(e) /\ PutsNothing(e)
        BY <2>4, RetrieveFragment, FragmentConcat
    <2> HIDE DEF e
    <2>6. Fragment(e \o Call) /\ PutsNothing(e \o Call)
        BY <2>5, CallFragment, FragmentConcat
    <2> QED
        BY <2>6 DEF MultihopQuery, a, b, c, d, e
<1>3. Fragment(NodeQuery) /\ PutsNothing(NodeQuery) /\ Plain(NodeQuery)
    <2> DEFINE a == << <<"read", "graph">>, <<"drop", "graph">> >>  b == a \o Retrieve
    <2>1. Fragment(a) /\ PutsNothing(a) /\ Plain(a)
        BY LookFragment
    <2> HIDE DEF a
    <2>2. Fragment(b) /\ PutsNothing(b) /\ Plain(b)
        BY <2>1, RetrieveFragment, FragmentConcat
    <2> HIDE DEF b
    <2>3. Fragment(b \o Call) /\ PutsNothing(b \o Call) /\ Plain(b \o Call)
        BY <2>2, CallFragment, FragmentConcat
    <2> QED
        BY <2>3 DEF NodeQuery, a, b
<1>4. /\ Program["text"] = TextQuery /\ Program["multihop"] = MultihopQuery
      /\ Program["node"] = NodeQuery /\ Program["ingest"] = Ingest
      /\ Program["node_lookup"] = NodeLookup /\ Program["edge_search"] = EdgeSearch
      /\ Program["stats"] = GraphStats /\ Program["merge"] = Merge
    BY DEF Program, Kinds
<1>5. \A k \in Kinds : Fragment(Program[k])
    BY <1>1, <1>2, <1>3, <1>4, IngestFragment, NodeLookupFragment, EdgeSearchFragment,
       GraphStatsFragment, MergeFragment DEF Kinds
<1>6. \A k \in Kinds \ {"merge"} : PutsNothing(Program[k])
    BY <1>1, <1>2, <1>3, <1>4, IngestFragment, NodeLookupFragment, EdgeSearchFragment,
       GraphStatsFragment DEF Kinds
<1>7. \A k \in {"node", "ingest", "node_lookup", "edge_search", "merge"} : Plain(Program[k])
    BY <1>3, <1>4, IngestFragment, NodeLookupFragment, EdgeSearchFragment, MergeFragment
<1> QED
    BY <1>4, <1>5, <1>6, <1>7

LEMMA MergeSteps ==
    /\ Len(Merge) = 16
    /\ Merge[5] = <<"write", "graph">> /\ Merge[6] = <<"write", "hnsw">>
    /\ Merge[7] = <<"write", "edge_hnsw">> /\ Merge[8] = <<"write", "store">>
    /\ Merge[9] = <<"put", "graph">> /\ Merge[10] = <<"put", "hnsw">>
    /\ Merge[11] = <<"put", "edge_hnsw">> /\ Merge[12] = <<"put", "store">>
    /\ Merge[1][1] = "read" /\ Merge[3][1] = "write"
    /\ \A p \in {2, 4, 13, 14, 15, 16} : Merge[p][1] = "drop"
BY DEF Merge

\* The program of a task, and its next step.
LEMMA MyProgramType ==
    ASSUME NEW t \in Tasks
    PROVE  /\ Fragment(MyProgram(t)) /\ MyProgram(t) \in Seq(Ops)
           /\ Len(MyProgram(t)) \in Nat
           /\ \A p \in 1..Len(MyProgram(t)) : MyProgram(t)[p] \in Ops
           /\ NextOp(t) = MyProgram(t)[at[t]]
           /\ Done(t) <=> at[t] > Len(MyProgram(t))
           /\ Kind[t] # "merge" => PutsNothing(MyProgram(t))
           /\ Kind[t] = "merge" => MyProgram(t) = Merge
<1>1. Kind[t] \in Kinds
    BY KindAssumption
<1>2. Fragment(MyProgram(t))
    BY <1>1, Programs DEF MyProgram
<1>3. MyProgram(t) \in Seq(Ops)
    BY <1>2 DEF Fragment
<1>4. Len(MyProgram(t)) \in Nat /\ \A p \in 1..Len(MyProgram(t)) : MyProgram(t)[p] \in Ops
    BY <1>3, LenProperties, ElementOfSeq
<1>5. /\ Kind[t] # "merge" => PutsNothing(MyProgram(t))
      /\ Kind[t] = "merge" => MyProgram(t) = Merge
    BY <1>1, Programs DEF MyProgram
<1> QED
    BY <1>2, <1>3, <1>4, <1>5 DEF NextOp, Done, MyProgram

LEMMA NextOpType ==
    ASSUME TypeOK, NEW t \in Tasks, ~ Done(t)
    PROVE  /\ at[t] \in 1..Len(MyProgram(t))
           /\ NextOp(t) \in Ops
           /\ Takes(NextOp(t)) => Subject(t) \in Locks
           /\ NextOp(t)[1] = "drop" => Subject(t) \in Locks
           /\ NextOp(t)[1] = "put" => Subject(t) \in IndexLocks
<1>1. at[t] \in Nat \ {0}
    BY DEF TypeOK
<1>2. at[t] \in 1..Len(MyProgram(t))
    BY <1>1, MyProgramType
<1>3. NextOp(t) \in Ops
    BY <1>2, MyProgramType
<1> QED
    BY <1>2, <1>3, OpTypes DEF Subject

-----------------------------------------------------------------------------
(***************************************************************************)
(* Types, and a write guard is the only guard.                             *)
(***************************************************************************)
Item == [task : Tasks, mode : Modes]

GuardsOK ==
    /\ readers \in [Locks -> [Tasks -> Nat]]
    /\ writer \in [Locks -> Tasks \cup {Nobody}]
    /\ \A l \in Locks : writer[l] # Nobody => \A t \in Tasks : readers[l][t] = 0

LEMMA TypeOKParts ==
    TypeOK <=> /\ queue \in [Locks -> Seq(Item)] /\ GuardsOK
               /\ at \in [Tasks -> Nat \ {0}]
               /\ gen \in [IndexLocks -> Nat]
               /\ seeds \in [Tasks -> Nat] /\ scored \in [Tasks -> Nat]
BY DEF TypeOK, LocksTypeOK, GuardsOK, Item

\* What a queue holds, and how a request and a service change it.
LEMMA QueueTypes ==
    ASSUME queue \in [Locks -> Seq(Item)], NEW l \in Locks
    PROVE  /\ queue[l] \in Seq(Item) /\ DOMAIN queue[l] = 1..Len(queue[l])
           /\ Len(queue[l]) \in Nat
           /\ \A i \in DOMAIN queue[l] :
                 /\ queue[l][i] \in Item /\ queue[l][i].task \in Tasks
                 /\ queue[l][i].mode \in Modes
                 /\ Without(queue[l], i) \in Seq(Item)
           /\ \A t : Leave(queue[l], t) \in Seq(Item)
           /\ \A r \in Item : Append(queue[l], r) \in Seq(Item)
<1>1. queue[l] \in Seq(Item)
    OBVIOUS
<1>2. DOMAIN queue[l] = 1..Len(queue[l]) /\ Len(queue[l]) \in Nat
    BY <1>1, LenProperties
<1>3. \A i \in DOMAIN queue[l] : queue[l][i] \in Item
    BY <1>1, <1>2, ElementOfSeq
<1>4. \A i \in DOMAIN queue[l] : Without(queue[l], i) \in Seq(Item)
    BY <1>1, WithoutKeeps
<1>5. \A t : Leave(queue[l], t) \in Seq(Item)
    BY <1>1, LeaveProperties
<1>6. \A r \in Item : Append(queue[l], r) \in Seq(Item)
    BY <1>1, AppendProperties
<1>7. \A r \in Item : r.task \in Tasks /\ r.mode \in Modes
    BY DEF Item
<1> QED
    BY <1>1, <1>2, <1>3, <1>4, <1>5, <1>6, <1>7

\* A guard that may be given leaves a write guard the only one.
LEMMA TakeKeepsGuards ==
    ASSUME GuardsOK, NEW t \in Tasks, NEW l \in Locks, NEW mode \in Modes,
           Grantable(l, mode), Take(t, l, mode)
    PROVE  GuardsOK'
<1>1. CASE mode = "read"
    <2>1. /\ readers' = [readers EXCEPT ![l][t] = readers[l][t] + 1] /\ writer' = writer
          /\ writer[l] = Nobody
        BY <1>1 DEF Take, Grantable
    <2>2. readers' \in [Locks -> [Tasks -> Nat]]
        BY <2>1 DEF GuardsOK
    <2>3. \A m \in Locks : m # l => readers'[m] = readers[m]
        BY <2>1 DEF GuardsOK
    <2> QED
        BY <2>1, <2>2, <2>3 DEF GuardsOK
<1>2. CASE mode = "write"
    <2>1. /\ writer' = [writer EXCEPT ![l] = t] /\ readers' = readers
          /\ \A u \in Tasks : readers[l][u] = 0
        BY <1>2 DEF Take, Grantable
    <2> QED
        BY <2>1 DEF GuardsOK
<1> QED
    BY <1>1, <1>2 DEF Modes

\* To drop guards leaves a write guard the only one.
LEMMA ReleaseKeepsGuards ==
    ASSUME GuardsOK, NEW t \in Tasks, NEW l \in Locks, Release(t, l)
    PROVE  GuardsOK'
<1>1. /\ readers' = [readers EXCEPT ![l][t] = 0] 
      /\ writer' = [writer EXCEPT ![l] = IF writer[l] = t THEN Nobody ELSE writer[l]]
    BY DEF Release
<1>2. readers' \in [Locks -> [Tasks -> Nat]] /\ writer' \in [Locks -> Tasks \cup {Nobody}]
    BY <1>1 DEF GuardsOK
<1>3. \A m \in Locks, u \in Tasks : readers'[m][u] = readers[m][u] \/ readers'[m][u] = 0
    BY <1>1 DEF GuardsOK
<1>4. \A m \in Locks : writer'[m] = writer[m] \/ writer'[m] = Nobody
    BY <1>1 DEF GuardsOK
<1> QED
    BY <1>2, <1>3, <1>4 DEF GuardsOK

LEMMA AbandonKeepsGuards ==
    ASSUME GuardsOK, NEW t \in Tasks, Abandon(t)
    PROVE  GuardsOK'
<1>1. /\ readers' = [l \in Locks |-> [readers[l] EXCEPT ![t] = 0]]
      /\ writer' = [l \in Locks |-> IF writer[l] = t THEN Nobody ELSE writer[l]]
    BY DEF Abandon
<1>2. readers' \in [Locks -> [Tasks -> Nat]] /\ writer' \in [Locks -> Tasks \cup {Nobody}]
    BY <1>1 DEF GuardsOK
<1>3. \A m \in Locks, u \in Tasks : readers'[m][u] = readers[m][u] \/ readers'[m][u] = 0
    BY <1>1 DEF GuardsOK
<1>4. \A m \in Locks : writer'[m] = writer[m] \/ writer'[m] = Nobody
    BY <1>1 DEF GuardsOK
<1> QED
    BY <1>2, <1>3, <1>4 DEF GuardsOK

\* A request is granted, or joins the queue.
LEMMA AcquireCases ==
    ASSUME NEW t, NEW l, NEW mode, Acquire(t, l, mode)
    PROVE  \/ Grantable(l, mode) /\ Take(t, l, mode) /\ queue' = queue
           \/ /\ queue' = [queue EXCEPT ![l] = Append(queue[l], [task |-> t, mode |-> mode])]
              /\ readers' = readers /\ writer' = writer
BY DEF Acquire

\* Somebody is served.
LEMMA ServeCases ==
    ASSUME queue \in [Locks -> Seq(Item)], NEW l \in Locks, Serve(l)
    PROVE  \E i \in DOMAIN queue[l] :
              /\ Grantable(l, queue[l][i].mode)
              /\ Take(queue[l][i].task, l, queue[l][i].mode)
              /\ queue' = [queue EXCEPT ![l] = Without(queue[l], i)]
BY DEF Serve

\* What a step of the task t asks for, if it asks.
LEMMA LockCases ==
    ASSUME TypeOK, NEW t \in Tasks, Lock(t)
    PROVE  /\ ~ Done(t) /\ Takes(NextOp(t)) /\ Subject(t) \in Locks
           /\ ModeOf(NextOp(t)) \in Modes
           /\ Acquire(t, Subject(t), ModeOf(NextOp(t)))
           /\ NextOp(t)[1] # "join" => ~ Waits(t)
<1>1. ~ Done(t) /\ Takes(NextOp(t)) /\ (NextOp(t)[1] # "join" => ~ Waits(t))
    BY DEF Lock, Does, Takes
<1>2. Subject(t) \in Locks
    BY <1>1, NextOpType
<1>3. Acquire(t, Subject(t), ModeOf(NextOp(t))) /\ ModeOf(NextOp(t)) \in Modes
    BY DEF Lock, Does, ModeOf, Modes
<1> QED
    BY <1>1, <1>2, <1>3

\* Every step keeps the types.
LEMMA TypeStep ==
    ASSUME TypeOK, [Next]_vars
    PROVE  TypeOK'
<1>1. /\ queue \in [Locks -> Seq(Item)] /\ GuardsOK
      /\ at \in [Tasks -> Nat \ {0}]
      /\ gen \in [IndexLocks -> Nat]
      /\ seeds \in [Tasks -> Nat] /\ scored \in [Tasks -> Nat]
    BY TypeOKParts
<1> SUFFICES /\ queue' \in [Locks -> Seq(Item)] /\ GuardsOK'
             /\ at' \in [Tasks -> Nat \ {0}]
             /\ gen' \in [IndexLocks -> Nat]
             /\ seeds' \in [Tasks -> Nat] /\ scored' \in [Tasks -> Nat]
    BY DEF TypeOK, LocksTypeOK, GuardsOK, Item
<1>2. ASSUME NEW t \in Tasks, Goes(t) PROVE at' \in [Tasks -> Nat \ {0}]
    BY <1>1, <1>2 DEF Goes
<1>3. ASSUME NEW t \in Tasks, Lock(t)
      PROVE  queue' \in [Locks -> Seq(Item)] /\ GuardsOK'
    <2> DEFINE l == Subject(t)  mode == ModeOf(NextOp(t))
    <2>1. l \in Locks /\ mode \in Modes /\ Acquire(t, l, mode)
        BY <1>3, LockCases
    <2> HIDE DEF l, mode
    <2>2. CASE Grantable(l, mode) /\ Take(t, l, mode) /\ queue' = queue
        BY <1>1, <2>1, <2>2, TakeKeepsGuards
    <2>3. CASE /\ queue' = [queue EXCEPT ![l] = Append(queue[l], [task |-> t, mode |-> mode])]
               /\ readers' = readers /\ writer' = writer
        <3>1. [task |-> t, mode |-> mode] \in Item
            BY <2>1 DEF Item
        <3>2. Append(queue[l], [task |-> t, mode |-> mode]) \in Seq(Item)
            BY <1>1, <2>1, <3>1, QueueTypes
        <3> QED
            BY <1>1, <2>3, <3>2 DEF GuardsOK
    <2> QED
        BY <2>1, <2>2, <2>3, AcquireCases
<1>4. ASSUME NEW t \in Tasks, Drop(t)
      PROVE  queue' \in [Locks -> Seq(Item)] /\ GuardsOK'
    <2>1. Subject(t) \in Locks /\ Release(t, Subject(t))
        BY <1>4, NextOpType DEF Drop, Does
    <2> QED
        BY <1>1, <2>1, ReleaseKeepsGuards DEF Release
<1>5. ASSUME NEW t \in Tasks, Abandon(t)
      PROVE  queue' \in [Locks -> Seq(Item)] /\ GuardsOK'
    <2>1. queue' = [l \in Locks |-> Leave(queue[l], t)]
        BY <1>5 DEF Abandon
    <2>2. \A l \in Locks : Leave(queue[l], t) \in Seq(Item)
        BY <1>1, QueueTypes
    <2> QED
        BY <1>1, <1>5, <2>1, <2>2, AbandonKeepsGuards
<1>6. ASSUME NEW l \in Locks, Serve(l)
      PROVE  queue' \in [Locks -> Seq(Item)] /\ GuardsOK'
    <2>1. PICK i \in DOMAIN queue[l] :
              /\ Grantable(l, queue[l][i].mode)
              /\ Take(queue[l][i].task, l, queue[l][i].mode)
              /\ queue' = [queue EXCEPT ![l] = Without(queue[l], i)]
        BY <1>1, <1>6, ServeCases
    <2>2. /\ queue[l][i].task \in Tasks /\ queue[l][i].mode \in Modes
          /\ Without(queue[l], i) \in Seq(Item)
        BY <1>1, QueueTypes
    <2>3. GuardsOK'
        BY <1>1, <2>1, <2>2, TakeKeepsGuards
    <2> QED
        BY <1>1, <2>1, <2>2, <2>3
<1>7. ASSUME UNCHANGED lockVars
      PROVE  queue' \in [Locks -> Seq(Item)] /\ GuardsOK'
    <2>1. queue' = queue /\ readers' = readers /\ writer' = writer
        BY <1>7 DEF lockVars
    <2> QED
        BY <1>1, <2>1 DEF GuardsOK
<1>8. ASSUME NEW t \in Tasks, Lock(t) \/ Drop(t)
      PROVE  TypeOK'
    <2>1. queue' \in [Locks -> Seq(Item)] /\ GuardsOK'
        BY <1>3, <1>4, <1>8
    <2>2. Goes(t) /\ gen' = gen /\ seeds' = seeds /\ scored' = scored
        BY <1>8 DEF Lock, Drop
    <2> QED
        BY <1>1, <1>2, <2>1, <2>2 DEF TypeOK, LocksTypeOK, GuardsOK, Item
<1>9. ASSUME NEW t \in Tasks,
             CallReturns(t) \/ SearchIndex(t) \/ Score(t) \/ Put(t)
      PROVE  TypeOK'
    <2>1. queue' \in [Locks -> Seq(Item)] /\ GuardsOK'
        BY <1>7, <1>9 DEF CallReturns, SearchIndex, Score, Put, lockVars
    <2>2. Goes(t) /\ at' \in [Tasks -> Nat \ {0}]
        BY <1>2, <1>9 DEF CallReturns, SearchIndex, Score, Put
    <2>3. "hnsw" \in IndexLocks /\ "graph" \in IndexLocks
        BY DEF IndexLocks
    <2>4. seeds' \in [Tasks -> Nat]
        BY <1>1, <1>9, <2>3 DEF CallReturns, SearchIndex, Score, Put
    <2>5. scored' \in [Tasks -> Nat]
        BY <1>1, <1>9, <2>3 DEF CallReturns, SearchIndex, Score, Put
    <2>6. gen' \in [IndexLocks -> Nat]
        <3>1. CASE Put(t)
            <4>1. Subject(t) \in IndexLocks
                BY <3>1, NextOpType DEF Put, Does
            <4> QED
                BY <1>1, <3>1, <4>1 DEF Put
        <3> QED
            BY <1>1, <1>9, <3>1 DEF CallReturns, SearchIndex, Score
    <2> QED
        BY <2>1, <2>2, <2>4, <2>5, <2>6 DEF TypeOK, LocksTypeOK, GuardsOK, Item
<1>10. ASSUME NEW t \in Tasks, GivesUp(t)
       PROVE  TypeOK'
    <2>1. queue' \in [Locks -> Seq(Item)] /\ GuardsOK'
        BY <1>5, <1>10 DEF GivesUp
    <2>2. Len(Program[Kind[t]]) \in Nat
        BY MyProgramType DEF MyProgram
    <2>3. /\ at' = [at EXCEPT ![t] = Len(Program[Kind[t]]) + 1]
          /\ gen' = gen /\ seeds' = seeds /\ scored' = scored
        BY <1>10 DEF GivesUp
    <2>4. at' \in [Tasks -> Nat \ {0}]
        BY <1>1, <2>2, <2>3
    <2> QED
        BY <1>1, <2>1, <2>3, <2>4 DEF TypeOK, LocksTypeOK, GuardsOK, Item
<1>11. ASSUME NEW l \in Locks, ServeNext(l)
       PROVE  TypeOK'
    <2>1. queue' \in [Locks -> Seq(Item)] /\ GuardsOK'
        BY <1>6, <1>11 DEF ServeNext
    <2> QED
        BY <1>1, <1>11, <2>1 DEF ServeNext, TypeOK, LocksTypeOK, GuardsOK, Item
<1>12. CASE UNCHANGED vars
    BY <1>1, <1>12, <1>7 DEF vars, lockVars, TypeOK, LocksTypeOK, GuardsOK, Item
<1> QED
    BY <1>8, <1>9, <1>10, <1>11, <1>12
    DEF Next, Step, Finished, TypeOK, LocksTypeOK, GuardsOK, Item

LEMMA TypeInit == Init => TypeOK
<1> SUFFICES ASSUME Init PROVE TypeOK
    OBVIOUS
<1>1. queue = [l \in Locks |-> <<>>] /\ readers = [l \in Locks |-> [t \in Tasks |-> 0]]
      /\ writer = [l \in Locks |-> Nobody]
    BY DEF Init, LocksInit
<1>2. << >> \in Seq(Item)
    BY EmptySeq
<1> QED
    BY <1>1, <1>2, TypeOKParts DEF Init, GuardsOK

\* Every variable has its type, and while a task has the write guard of a lock no
\* other has a guard of it: run_merge replaces what its four guards protect alone.
THEOREM TypesHold == Spec => []TypeOK
<1>1. TypeOK /\ [Next]_vars => TypeOK'
    BY TypeStep
<1> QED
    BY <1>1, TypeInit, PTL DEF Spec

-----------------------------------------------------------------------------
(***************************************************************************)
(* A merge and its four write guards.                                      *)
(***************************************************************************)
\* Who moves: a task by a step of its own, or one that gives up.
LEMMA AtMoves ==
    ASSUME TypeOK, [Next]_vars, NEW t \in Tasks
    PROVE  \/ at'[t] = at[t] /\ ~ Step(t) /\ ~ GivesUp(t)
           \/ Step(t) /\ at'[t] = at[t] + 1
           \/ GivesUp(t) /\ at'[t] = Len(MyProgram(t)) + 1
<1>1. at \in [Tasks -> Nat \ {0}]
    BY DEF TypeOK
<1>2. \A u \in Tasks : Step(u) => at' = [at EXCEPT ![u] = at[u] + 1]
    BY DEF Step, Lock, Drop, CallReturns, SearchIndex, Score, Put, Goes
<1>3. \A u \in Tasks : GivesUp(u) =>
          at' = [at EXCEPT ![u] = Len(MyProgram(u)) + 1] /\ at[u] # Len(MyProgram(u)) + 1
    <2>1. \A u \in Tasks : Len(MyProgram(u)) \in Nat /\ (Done(u) <=> at[u] > Len(MyProgram(u)))
        BY MyProgramType
    <2>2. \A u \in Tasks : GivesUp(u) => ~ Done(u) /\ at' = [at EXCEPT ![u] = Len(MyProgram(u)) + 1]
        BY DEF GivesUp, MyProgram
    <2> QED
        BY <1>1, <2>1, <2>2
<1>4. \/ \E u \in Tasks : Step(u) \/ GivesUp(u)
      \/ at' = at
    BY DEF Next, ServeNext, Finished, vars
<1>5. CASE Step(t)
    BY <1>1, <1>2, <1>5
<1>6. CASE GivesUp(t)
    BY <1>1, <1>3, <1>6
<1>7. CASE ~ Step(t) /\ ~ GivesUp(t)
    <2>1. \A u \in Tasks : Step(u) \/ GivesUp(u) => u # t
        BY <1>7
    <2> QED
        BY <1>1, <1>2, <1>3, <1>4, <1>7, <2>1
<1> QED
    BY <1>5, <1>6, <1>7

\* A task keeps its write guards and its places in the queues until it lets go.
LEMMA SeatStays ==
    ASSUME TypeOK, [Next]_vars, NEW t \in Tasks, ~ Drop(t), ~ GivesUp(t), NEW l \in Locks
    PROVE  /\ Seat(t, l) => Seat(t, l)'
           /\ writer[l] = t => writer'[l] = t
<1>1. /\ queue \in [Locks -> Seq(Item)]
      /\ readers \in [Locks -> [Tasks -> Nat]]
      /\ writer \in [Locks -> Tasks \cup {Nobody}]
      /\ t # Nobody
    BY NobodyAssumption, TypeOKParts DEF GuardsOK
<1> DEFINE mine == [task |-> t, mode |-> "write"]
<1>2. /\ Seat(t, l) <=> writer[l] = t \/ \E i \in DOMAIN queue[l] : queue[l][i] = mine
      /\ Seat(t, l)' <=> writer'[l] = t \/ \E i \in DOMAIN queue'[l] : queue'[l][i] = mine
    BY DEF Seat
<1>3. mine.task = t /\ mine.mode = "write"
    OBVIOUS
<1> HIDE DEF mine
<1>4. CASE queue' = queue /\ readers' = readers /\ writer' = writer
    BY <1>2, <1>4
<1>5. ASSUME NEW u \in Tasks, Lock(u)
      PROVE  /\ Seat(t, l) => Seat(t, l)'
             /\ writer[l] = t => writer'[l] = t
    <2> DEFINE m == Subject(u)  mode == ModeOf(NextOp(u))
               r == [task |-> u, mode |-> mode]
    <2>1. m \in Locks /\ mode \in Modes /\ Acquire(u, m, mode)
        BY <1>5, LockCases
    <2>2. r \in Item
        BY <2>1 DEF Item
    <2> HIDE DEF m, mode
    <2>3. CASE Grantable(m, mode) /\ Take(u, m, mode) /\ queue' = queue
        <3>1. writer[m] = Nobody /\ (writer' = writer \/ writer' = [writer EXCEPT ![m] = u])
            BY <2>3 DEF Grantable, Take
        <3>2. writer[l] = t => writer'[l] = t
            BY <1>1, <2>1, <3>1
        <3> QED
            BY <1>2, <2>3, <3>2
    <2>4. CASE /\ queue' = [queue EXCEPT ![m] = Append(queue[m], r)]
               /\ readers' = readers /\ writer' = writer
        <3>1. ASSUME NEW i \in DOMAIN queue[l], queue[l][i] = mine
              PROVE  i \in DOMAIN queue'[l] /\ queue'[l][i] = mine
            <4>1. CASE m = l
                <5>1. queue[l] \in Seq(Item) /\ DOMAIN queue[l] = 1..Len(queue[l])
                      /\ Len(queue[l]) \in Nat /\ queue'[l] = Append(queue[l], r)
                    BY <1>1, <2>1, <2>4, <4>1, QueueTypes
                <5>2. /\ Append(queue[l], r) \in Seq(Item)
                      /\ Len(Append(queue[l], r)) = Len(queue[l]) + 1
                      /\ \A k \in 1..Len(queue[l]) : Append(queue[l], r)[k] = queue[l][k]
                    BY <2>2, <5>1, AppendProperties
                <5>3. DOMAIN Append(queue[l], r) = 1..(Len(queue[l]) + 1)
                    BY <5>2, LenProperties
                <5> QED
                    BY <3>1, <5>1, <5>2, <5>3
            <4>2. CASE m # l
                BY <1>1, <2>1, <2>4, <3>1, <4>2
            <4> QED
                BY <4>1, <4>2
        <3> QED
            BY <1>2, <2>4, <3>1
    <2> QED
        BY <2>1, <2>3, <2>4, AcquireCases
<1>6. ASSUME NEW u \in Tasks, Drop(u)
      PROVE  /\ Seat(t, l) => Seat(t, l)'
             /\ writer[l] = t => writer'[l] = t
    <2>1. u # t /\ Release(u, Subject(u))
        BY <1>6 DEF Drop
    <2>2. /\ queue' = queue
          /\ writer' = [writer EXCEPT ![Subject(u)] =
                            IF writer[Subject(u)] = u THEN Nobody ELSE writer[Subject(u)]]
        BY <2>1 DEF Release
    <2>3. writer[l] = t => writer'[l] = t
        BY <1>1, <2>1, <2>2
    <2> QED
        BY <1>2, <2>2, <2>3
<1>7. ASSUME NEW u \in Tasks, GivesUp(u)
      PROVE  /\ Seat(t, l) => Seat(t, l)'
             /\ writer[l] = t => writer'[l] = t
    <2>1. u # t /\ Abandon(u)
        BY <1>7 DEF GivesUp
    <2>2. /\ queue'[l] = Leave(queue[l], u)
          /\ writer'[l] = IF writer[l] = u THEN Nobody ELSE writer[l]
        BY <2>1 DEF Abandon
    <2>3. \A i \in DOMAIN queue[l] : queue[l][i].task # u =>
              \E k \in DOMAIN Leave(queue[l], u) : Leave(queue[l], u)[k] = queue[l][i]
        BY <1>1, LeaveProperties
    <2> QED
        BY <1>2, <1>3, <2>1, <2>2, <2>3
<1>8. ASSUME NEW m \in Locks, ServeNext(m)
      PROVE  /\ Seat(t, l) => Seat(t, l)'
             /\ writer[l] = t => writer'[l] = t
    <2>1. PICK i \in DOMAIN queue[m] :
              /\ Grantable(m, queue[m][i].mode)
              /\ Take(queue[m][i].task, m, queue[m][i].mode)
              /\ queue' = [queue EXCEPT ![m] = Without(queue[m], i)]
        BY <1>1, <1>8, ServeCases DEF ServeNext
    <2>2. /\ writer[m] = Nobody
          /\ writer' = writer \/ writer' = [writer EXCEPT ![m] = queue[m][i].task]
          /\ queue[m][i].mode = "write" => writer' = [writer EXCEPT ![m] = queue[m][i].task]
        BY <2>1 DEF Grantable, Take
    <2>3. writer[l] = t => writer'[l] = t
        BY <1>1, <2>2
    <2>4. ASSUME NEW j \in DOMAIN queue[l], queue[l][j] = mine
          PROVE  writer'[l] = t \/ \E k \in DOMAIN queue'[l] : queue'[l][k] = mine
        <3>1. CASE l # m
            BY <1>1, <2>1, <2>4, <3>1
        <3>2. CASE l = m /\ j = i
            BY <1>1, <1>3, <2>2, <2>4, <3>2
        <3>3. CASE l = m /\ j # i
            <4>1. \A k \in DOMAIN queue[l] : k # i => \E n \in DOMAIN Without(queue[l], i) :
                      Without(queue[l], i)[n] = queue[l][k]
                BY <1>1, <2>1, <3>3, WithoutKeeps
            <4>2. queue'[l] = Without(queue[l], i)
                BY <1>1, <2>1, <3>3
            <4> QED
                BY <2>4, <3>3, <4>1, <4>2
        <3> QED
            BY <3>1, <3>2, <3>3
    <2> QED
        BY <1>2, <2>3, <2>4
<1> QED
    <2>1. ASSUME NEW u \in Tasks, CallReturns(u) \/ SearchIndex(u) \/ Score(u) \/ Put(u)
          PROVE  queue' = queue /\ readers' = readers /\ writer' = writer
        BY <2>1 DEF CallReturns, SearchIndex, Score, Put, lockVars
    <2>2. ASSUME UNCHANGED vars
          PROVE  queue' = queue /\ readers' = readers /\ writer' = writer
        BY <2>2 DEF vars, lockVars
    <2> QED
        BY <1>4, <1>5, <1>6, <1>7, <1>8, <2>1, <2>2 DEF Next, Step, Finished

\* A step is the one that the program names.
LEMMA StepIsNext ==
    ASSUME NEW t, Step(t)
    PROVE  /\ ~ Done(t)
           /\ NextOp(t)[1] # "join" => ~ Waits(t)
           /\ NextOp(t)[1] = "write" => Lock(t)
           /\ NextOp(t)[1] = "put" <=> Put(t)
           /\ NextOp(t)[1] = "drop" <=> Drop(t)
<1>1. Lock(t) => NextOp(t)[1] \in {"read", "join", "write"}
    BY DEF Lock, Does
<1>2. /\ Drop(t) => NextOp(t)[1] = "drop"
      /\ CallReturns(t) => NextOp(t)[1] = "call"
      /\ SearchIndex(t) => NextOp(t)[1] = "search"
      /\ Score(t) => NextOp(t)[1] = "score"
      /\ Put(t) => NextOp(t)[1] = "put"
    BY DEF Drop, CallReturns, SearchIndex, Score, Put, Does
<1>3. ~ Done(t) /\ (NextOp(t)[1] # "join" => ~ Waits(t))
    BY DEF Step, Lock, Drop, CallReturns, SearchIndex, Score, Put, Does
<1> QED
    BY <1>1, <1>2, <1>3 DEF Step

\* write() gives the guard or a place in the queue.
LEMMA WriteSeats ==
    ASSUME TypeOK, NEW t \in Tasks, Lock(t), NextOp(t)[1] = "write", NEW l, Subject(t) = l
    PROVE  Seat(t, l)'
<1> DEFINE r == [task |-> t, mode |-> "write"]
<1>1. l \in Locks /\ Acquire(t, l, "write")
    BY LockCases DEF ModeOf
<1>2. /\ queue \in [Locks -> Seq(Item)] /\ writer \in [Locks -> Tasks \cup {Nobody}]
    BY TypeOKParts DEF GuardsOK
<1>3. CASE Grantable(l, "write") /\ Take(t, l, "write") /\ queue' = queue
    <2>1. writer'[l] = t
        BY <1>1, <1>2, <1>3 DEF Take
    <2> QED
        BY <2>1 DEF Seat
<1>4. CASE queue' = [queue EXCEPT ![l] = Append(queue[l], r)]
    <2>1. r \in Item /\ queue[l] \in Seq(Item) /\ Len(queue[l]) \in Nat
        BY <1>1, <1>2, QueueTypes DEF Item, Modes
    <2>2. queue'[l] = Append(queue[l], r)
        BY <1>1, <1>2, <1>4
    <2> HIDE DEF r
    <2>3. /\ Append(queue[l], r) \in Seq(Item)
          /\ Len(Append(queue[l], r)) = Len(queue[l]) + 1
          /\ Append(queue[l], r)[Len(queue[l]) + 1] = r
        BY <2>1, AppendProperties
    <2>4. Len(queue[l]) + 1 \in DOMAIN Append(queue[l], r)
        BY <2>1, <2>3, LenProperties
    <2>5. \E i \in DOMAIN queue'[l] : queue'[l][i] = r
        BY <2>2, <2>3, <2>4
    <2> QED
        BY <2>5 DEF Seat, r
<1> QED
    BY <1>1, <1>3, <1>4, AcquireCases

\* What a merge has collected at each of its steps.
SeatsAt(t) ==
    /\ at[t] \in 6..13 => Seat(t, "graph")
    /\ at[t] \in 7..13 => Seat(t, "hnsw")
    /\ at[t] \in 8..13 => Seat(t, "edge_hnsw")
    /\ at[t] \in 9..13 => Seat(t, "store")
    /\ at[t] \in 10..13 => \A l \in IndexLocks : writer[l] = t

LEMMA SeatStep ==
    ASSUME TypeOK, SeatInv, [Next]_vars
    PROVE  SeatInv'
<1> SUFFICES ASSUME NEW t \in Tasks, Kind[t] = "merge" PROVE SeatsAt(t)'
    BY DEF SeatInv, SeatsAt
<1>1. SeatsAt(t)
    BY DEF SeatInv, SeatsAt
<1>2. MyProgram(t) = Merge /\ at[t] \in Nat /\ at[t] >= 1
    BY MyProgramType DEF TypeOK
<1>3. CASE GivesUp(t)
    <2>1. at'[t] = Len(MyProgram(t)) + 1
        BY <1>3 DEF GivesUp, MyProgram, TypeOK
    <2>2. at'[t] = 17
        BY <1>2, <2>1, MergeSteps
    <2> QED
        BY <2>2 DEF SeatsAt
<1>4. CASE Drop(t) /\ ~ GivesUp(t)
    <2>1. Step(t) /\ NextOp(t)[1] = "drop" /\ at'[t] = at[t] + 1
        <3>1. Step(t) /\ NextOp(t)[1] = "drop"
            BY <1>4 DEF Step, Drop, Does
        <3> QED
            BY <1>4, <3>1, AtMoves
    <2>2. at[t] \in 1..16 /\ Merge[at[t]][1] = "drop"
        <3>1. ~ Done(t)
            BY <2>1, StepIsNext
        <3>2. NextOp(t) = Merge[at[t]] /\ (Done(t) <=> at[t] > 16)
            BY <1>2, MyProgramType, MergeSteps
        <3> QED
            BY <1>2, <2>1, <3>1, <3>2
    <2>3. at[t] \notin {5, 6, 7, 8, 9, 10, 11, 12}
        BY <2>2, MergeSteps
    <2>4. at'[t] \notin 6..13
        BY <1>2, <2>1, <2>3
    <2>5. \A n \in 7..10 : \A k \in n..13 : k \in 6..13
        OBVIOUS
    <2> QED
        BY <1>2, <2>1, <2>3 DEF SeatsAt
<1>5. CASE ~ Drop(t) /\ ~ GivesUp(t)
    <2>1. \A l \in Locks : (Seat(t, l) => Seat(t, l)') /\ (writer[l] = t => writer'[l] = t)
        BY <1>2, <1>5, SeatStays
    <2>2. IndexLocks \subseteq Locks /\ IndexLocks = {"graph", "hnsw", "edge_hnsw", "store"}
        BY DEF Locks, IndexLocks
    <2>3. CASE at'[t] = at[t]
        BY <1>1, <2>1, <2>2, <2>3 DEF SeatsAt
    <2>4. CASE Step(t) /\ at'[t] = at[t] + 1
        <3>1. /\ at[t] \in 1..16 /\ NextOp(t) = Merge[at[t]]
              /\ NextOp(t)[1] # "join" => ~ Waits(t)
              /\ NextOp(t)[1] = "write" => Lock(t)
            <4>1. /\ ~ Done(t)
                  /\ NextOp(t)[1] # "join" => ~ Waits(t)
                  /\ NextOp(t)[1] = "write" => Lock(t)
                BY <2>4, StepIsNext
            <4>2. NextOp(t) = Merge[at[t]] /\ (Done(t) <=> at[t] > 16)
                BY <1>2, MyProgramType, MergeSteps
            <4> QED
                BY <1>2, <4>1, <4>2
        <3>2. /\ at[t] = 5 => Seat(t, "graph")'
              /\ at[t] = 6 => Seat(t, "hnsw")'
              /\ at[t] = 7 => Seat(t, "edge_hnsw")'
              /\ at[t] = 8 => Seat(t, "store")'
            <4>1. ASSUME NEW l, NextOp(t) = <<"write", l>> PROVE Seat(t, l)'
                <5>1. Subject(t) = l /\ Lock(t) /\ NextOp(t)[1] = "write"
                    BY <3>1, <4>1 DEF Subject
                <5> QED
                    BY <5>1, WriteSeats
            <4> QED
                BY <3>1, <4>1, MergeSteps
        <3>3. at[t] = 9 => \A l \in IndexLocks : writer[l] = t
            <4>1. ASSUME at[t] = 9 PROVE ~ Waits(t)
                BY <3>1, <4>1, MergeSteps
            <4>2. ASSUME NEW l \in IndexLocks, Seat(t, l), ~ Waits(t) PROVE writer[l] = t
                BY <2>2, <4>2 DEF Seat, Waits, WaitsFor
            <4>3. at[t] = 9 => \A l \in IndexLocks : Seat(t, l)
                BY <1>1, <2>2 DEF SeatsAt
            <4> QED
                BY <4>1, <4>2, <4>3
        <3>4. at[t] \in 9..12 => \A l \in IndexLocks : writer'[l] = t
            BY <1>1, <2>1, <2>2, <3>3 DEF SeatsAt
        <3>5. /\ at[t] \in 6..12 => Seat(t, "graph")'
              /\ at[t] \in 7..12 => Seat(t, "hnsw")'
              /\ at[t] \in 8..12 => Seat(t, "edge_hnsw")'
              /\ at[t] \in 9..12 => Seat(t, "store")'
            BY <1>1, <2>1, <2>2 DEF SeatsAt
        <3> QED
            BY <2>4, <3>1, <3>2, <3>4, <3>5 DEF SeatsAt
    <2> QED
        BY <1>2, <1>5, <2>3, <2>4, AtMoves
<1> QED
    BY <1>4, <1>5, <1>3

-----------------------------------------------------------------------------
(***************************************************************************)
(* Who waits where, and for what.                                          *)
(***************************************************************************)
WaitInv == AtInv /\ QueueInv /\ GuardInv

LEMMA AtStep ==
    ASSUME TypeOK, AtInv, [Next]_vars
    PROVE  AtInv'
<1> SUFFICES ASSUME NEW t \in Tasks PROVE at'[t] \in 1..(Len(MyProgram(t)) + 1)
    BY DEF AtInv, MyProgram
<1>1. at[t] \in 1..(Len(MyProgram(t)) + 1) /\ Len(MyProgram(t)) \in Nat
    BY MyProgramType DEF AtInv
<1>2. Step(t) => at[t] <= Len(MyProgram(t))
    BY <1>1, StepIsNext, MyProgramType
<1> QED
    BY <1>1, <1>2, AtMoves

\* Before a join, a task waits for nothing but the HNSW.
LEMMA JoinAfterRead ==
    ASSUME TypeOK, NEW t \in Tasks, ~ Done(t), NextOp(t)[1] = "join"
    PROVE  /\ Subject(t) = "edge_hnsw"
           /\ \A l, mode : Asks(t, at[t], l, mode) =>
                 /\ l = "hnsw"
                 /\ AsksBy(MyProgram(t), at[t] - 1, l, mode)
<1> DEFINE s == MyProgram(t)
<1>1. at[t] \in 1..Len(s) /\ NextOp(t) = s[at[t]] /\ Joins(s)
    BY NextOpType, MyProgramType DEF Fragment
<1>2. s[at[t] - 1] = <<"read", "hnsw">> /\ s[at[t]] = <<"join", "edge_hnsw">>
    BY <1>1 DEF Joins
<1>3. \A l, mode : AsksBy(s, at[t] - 1, l, mode) => l = "hnsw"
    BY <1>2 DEF AsksBy
<1>4. s[at[t] - 1][1] # "join"
    BY <1>2
<1> QED
    BY <1>1, <1>2, <1>3, <1>4 DEF Subject, Asks

\* What a task has asked for stays asked when it goes on.
LEMMA AsksNext ==
    ASSUME TypeOK, NEW t \in Tasks, ~ Done(t), NEW l, NEW mode
    PROVE  /\ AsksBy(MyProgram(t), at[t], l, mode) => Asks(t, at[t] + 1, l, mode)
           /\ NextOp(t)[1] = "join" /\ Asks(t, at[t], l, mode) => Asks(t, at[t] + 1, l, mode)
<1> DEFINE s == MyProgram(t)
<1>1. at[t] \in Nat /\ (at[t] + 1) - 1 = at[t] /\ (at[t] + 1) - 2 = at[t] - 1
    BY DEF TypeOK
<1>2. Asks(t, at[t] + 1, l, mode) <=>
          \/ AsksBy(s, (at[t] + 1) - 1, l, mode)
          \/ AsksBy(s, (at[t] + 1) - 2, l, mode) /\ s[(at[t] + 1) - 1][1] = "join"
    BY DEF Asks
<1>3. NextOp(t) = s[at[t]]
    BY MyProgramType
<1>4. NextOp(t)[1] = "join" /\ Asks(t, at[t], l, mode) => AsksBy(s, at[t] - 1, l, mode)
    BY JoinAfterRead
<1> HIDE DEF s
<1> QED
    BY <1>1, <1>2, <1>3, <1>4 DEF s

\* A lock that a task has asked for counts as taken.
LEMMA AskedIsTaken ==
    ASSUME TypeOK, AtInv, NEW t \in Tasks, NEW l, NEW mode, Asks(t, at[t], l, mode)
    PROVE  l \in Taken(MyProgram(t), at[t])
<1> DEFINE s == MyProgram(t)
<1>1. s \in Seq(Ops) /\ at[t] \in Nat /\ at[t] \in 1..(Len(s) + 1) /\ Len(s) \in Nat
    BY MyProgramType DEF AtInv, TypeOK
<1> HIDE DEF s
<1>2. ASSUME NEW p \in Nat, AsksBy(s, p, l, mode)
      PROVE  p \in 1..Len(s) /\ l \in Taken(s, p + 1)
    <2>1. p \in 1..Len(s) /\ Takes(s[p]) /\ s[p][2] = l
        BY <1>2 DEF AsksBy
    <2> QED
        BY <1>1, <2>1, TakenNext
<1>3. CASE AsksBy(s, at[t] - 1, l, mode)
    <2>1. at[t] - 1 \in Nat /\ (at[t] - 1) + 1 = at[t]
        BY <1>1, <1>3 DEF AsksBy
    <2>2. l \in Taken(s, (at[t] - 1) + 1)
        BY <1>2, <1>3, <2>1
    <2> QED
        BY <2>1, <2>2 DEF s
<1>4. CASE AsksBy(s, at[t] - 2, l, mode) /\ s[at[t] - 1][1] = "join"
    <2>1. /\ at[t] - 2 \in Nat /\ (at[t] - 2) + 1 = at[t] - 1
          /\ at[t] - 1 \in 1..Len(s) /\ (at[t] - 1) + 1 = at[t]
        <3>1. at[t] - 2 \in 1..Len(s)
            BY <1>4 DEF AsksBy
        <3> QED
            BY <1>1, <3>1
    <2>2. l \in Taken(s, at[t] - 1)
        BY <1>2, <1>4, <2>1
    <2>3. Takes(s[at[t] - 1])
        BY <1>4 DEF Takes
    <2>4. Taken(s, (at[t] - 1) + 1) = Taken(s, at[t] - 1) \cup {s[at[t] - 1][2]}
        BY <1>1, <2>1, <2>3, TakenNext
    <2> QED
        BY <2>1, <2>2, <2>4 DEF s
<1> QED
    BY <1>3, <1>4 DEF s, Asks

\* The requests that wait stay the ones their tasks made, one per task and lock.
LEMMA QueueStep ==
    ASSUME TypeOK, AtInv, QueueInv, [Next]_vars
    PROVE  QueueInv'
<1>1. queue \in [Locks -> Seq(Item)] /\ at \in [Tasks -> Nat \ {0}]
    BY TypeOKParts
<1>2. \A l \in Locks :
          /\ \A i \in DOMAIN queue[l] : 
                /\ Asks(queue[l][i].task, at[queue[l][i].task], l, queue[l][i].mode)
                /\ queue[l][i].task \in Tasks
          /\ OneEach(queue[l])
    BY <1>1, QueueTypes DEF QueueInv
<1> SUFFICES \A l \in Locks :
                 /\ \A i \in DOMAIN queue'[l] : Asks(queue'[l][i].task, at'[queue'[l][i].task], l, queue'[l][i].mode)
                 /\ OneEach(queue'[l])
    BY DEF QueueInv, OneEach
<1>3. ASSUME NEW t \in Tasks, Goes(t), ~ Done(t)
      PROVE  at'[t] = at[t] + 1 /\ \A u \in Tasks : u # t => at'[u] = at[u]
    BY <1>1, <1>3 DEF Goes
<1>4. ASSUME NEW t \in Tasks, Goes(t), ~ Done(t), NextOp(t)[1] # "join" => ~ Waits(t),
             NEW l \in Locks, NEW i \in DOMAIN queue[l]
      PROVE  Asks(queue[l][i].task, at'[queue[l][i].task], l, queue[l][i].mode)
    <2> DEFINE r == queue[l][i]
    <2>1. Asks(r.task, at[r.task], l, r.mode) /\ r.task \in Tasks
        BY <1>2
    <2>2. CASE r.task # t
        BY <1>3, <1>4, <2>1, <2>2
    <2>3. CASE r.task = t
        <3>1. Waits(t)
            BY <2>3 DEF Waits, WaitsFor
        <3>2. Asks(t, at[t] + 1, l, r.mode)
            BY <1>3, <1>4, <2>1, <2>3, <3>1, AsksNext
        <3> QED
            BY <1>3, <1>4, <2>3, <3>2
    <2> QED
        BY <2>2, <2>3
<1>5. ASSUME NEW t \in Tasks, Lock(t), NEW l \in Locks
      PROVE  /\ \A i \in DOMAIN queue'[l] : Asks(queue'[l][i].task, at'[queue'[l][i].task], l, queue'[l][i].mode)
             /\ OneEach(queue'[l])
    <2> DEFINE m == Subject(t)  mode == ModeOf(NextOp(t))
               r == [task |-> t, mode |-> mode]
    <2>1. /\ ~ Done(t) /\ Takes(NextOp(t)) /\ m \in Locks /\ mode \in Modes
          /\ Acquire(t, m, mode) /\ Goes(t)
          /\ NextOp(t)[1] # "join" => ~ Waits(t)
        BY <1>5, LockCases DEF Lock
    <2>2. \A i \in DOMAIN queue[l] : Asks(queue[l][i].task, at'[queue[l][i].task], l, queue[l][i].mode)
        BY <1>4, <2>1
    <2>3. Asks(t, at'[t], m, mode)
        <3>1. AsksBy(MyProgram(t), at[t], m, mode)
            BY <2>1, NextOpType, MyProgramType DEF AsksBy, Subject
        <3> QED
            BY <1>3, <2>1, <3>1, AsksNext
    <2>4. \A i \in DOMAIN queue[m] : queue[m][i].task # t
        <3> SUFFICES ASSUME NEW i \in DOMAIN queue[m], queue[m][i].task = t PROVE FALSE
            OBVIOUS
        <3>1. Waits(t) /\ Asks(t, at[t], m, queue[m][i].mode)
            BY <1>2, <2>1 DEF Waits, WaitsFor
        <3>2. NextOp(t)[1] = "join"
            BY <2>1, <3>1
        <3> QED
            BY <2>1, <3>1, <3>2, JoinAfterRead
    <2>5. r \in Item /\ r.task = t /\ r.mode = mode
        BY <2>1 DEF Item
    <2> HIDE DEF m, mode, r
    <2>6. CASE queue'[l] = queue[l]
        BY <1>2, <2>2, <2>6
    <2>7. CASE l = m /\ queue'[l] = Append(queue[l], r)
        <3>1. queue[l] \in Seq(Item) /\ Len(queue[l]) \in Nat /\ DOMAIN queue[l] = 1..Len(queue[l])
            BY <1>1, QueueTypes
        <3> DEFINE q == queue[l]  n == Len(queue[l])  a == Append(queue[l], r)
        <3>2. a \in Seq(Item) /\ Len(a) = n + 1 /\ (\A k \in 1..n : a[k] = q[k]) /\ a[n + 1] = r
            BY <2>5, <3>1, AppendProperties
        <3>3. DOMAIN a = 1..(n + 1)
            BY <3>2, LenProperties
        <3> HIDE DEF q, n, a
        <3>4. n \in Nat /\ DOMAIN q = 1..n
            BY <3>1 DEF n, q
        <3>5. \A k \in DOMAIN a : k \in 1..n \/ k = n + 1
            BY <3>3, <3>4
        <3>6. \A k \in DOMAIN a : Asks(a[k].task, at'[a[k].task], l, a[k].mode)
            <4>1. \A k \in DOMAIN q : Asks(q[k].task, at'[q[k].task], l, q[k].mode)
                BY <2>2 DEF q
            <4> SUFFICES ASSUME NEW k \in DOMAIN a PROVE Asks(a[k].task, at'[a[k].task], l, a[k].mode)
                OBVIOUS
            <4>2. CASE k \in 1..n
                BY <3>2, <3>4, <4>1, <4>2
            <4>3. CASE k = n + 1
                BY <2>3, <2>5, <2>7, <3>2, <4>3
            <4> QED
                BY <3>5, <4>2, <4>3
        <3>7. OneEach(a)
            <4>1. /\ \A i, j \in 1..n : q[i].task = q[j].task => i = j
                  /\ \A i \in 1..n : q[i].task # t
                BY <1>2, <2>4, <2>7, <3>4 DEF OneEach, q
            <4> QED
                BY <2>5, <3>2, <3>5, <4>1 DEF OneEach
        <3> QED
            BY <2>7, <3>6, <3>7 DEF a
    <2> QED
        <3>1. \/ queue' = queue
              \/ queue' = [queue EXCEPT ![m] = Append(queue[m], r)]
            BY <2>1, AcquireCases DEF r
        <3> QED
            BY <1>1, <2>1, <2>6, <2>7, <3>1
<1>6. ASSUME NEW t \in Tasks, Step(t), ~ Lock(t), NEW l \in Locks
      PROVE  /\ \A i \in DOMAIN queue'[l] : Asks(queue'[l][i].task, at'[queue'[l][i].task], l, queue'[l][i].mode)
             /\ OneEach(queue'[l])
    <2>1. queue' = queue /\ Goes(t) /\ ~ Done(t) /\ (NextOp(t)[1] # "join" => ~ Waits(t))
        BY <1>6, StepIsNext
        DEF Step, Drop, CallReturns, SearchIndex, Score, Put, Release, lockVars
    <2> QED
        BY <1>2, <1>4, <2>1
<1>7. ASSUME NEW t \in Tasks, GivesUp(t), NEW l \in Locks
      PROVE  /\ \A i \in DOMAIN queue'[l] : Asks(queue'[l][i].task, at'[queue'[l][i].task], l, queue'[l][i].mode)
             /\ OneEach(queue'[l])
    <2>1. queue'[l] = Leave(queue[l], t)
        BY <1>7 DEF GivesUp, Abandon
    <2>2. \A u \in Tasks : u # t => at'[u] = at[u]
        BY <1>1, <1>7 DEF GivesUp
    <2>3. /\ \A k \in DOMAIN Leave(queue[l], t) : \E j \in DOMAIN queue[l] :
                Leave(queue[l], t)[k] = queue[l][j]
          /\ OneEach(Leave(queue[l], t))
          /\ \A k \in DOMAIN Leave(queue[l], t) : Leave(queue[l], t)[k].task # t
        BY <1>1, <1>2, LeaveProperties DEF OneEach
    <2>4. ASSUME NEW k \in DOMAIN queue'[l]
          PROVE  Asks(queue'[l][k].task, at'[queue'[l][k].task], l, queue'[l][k].mode)
        <3>1. PICK j \in DOMAIN queue[l] : queue'[l][k] = queue[l][j] /\ queue[l][j].task # t
            BY <2>1, <2>3, <2>4
        <3> QED
            BY <1>2, <2>2, <3>1
    <2> QED
        BY <2>1, <2>3, <2>4
<1>8. ASSUME NEW m \in Locks, ServeNext(m), NEW l \in Locks
      PROVE  /\ \A i \in DOMAIN queue'[l] : Asks(queue'[l][i].task, at'[queue'[l][i].task], l, queue'[l][i].mode)
             /\ OneEach(queue'[l])
    <2>1. at' = at
        BY <1>8 DEF ServeNext
    <2>2. PICK i \in DOMAIN queue[m] : queue' = [queue EXCEPT ![m] = Without(queue[m], i)]
        BY <1>1, <1>8, ServeCases DEF ServeNext
    <2>3. CASE l # m
        BY <1>1, <1>2, <2>1, <2>2, <2>3
    <2>4. CASE l = m
        <3>1. queue'[l] = Without(queue[l], i) /\ i \in DOMAIN queue[l]
            BY <1>1, <2>2, <2>4
        <3>2. \A k \in DOMAIN Without(queue[l], i) : \E j \in DOMAIN queue[l] :
                    Without(queue[l], i)[k] = queue[l][j]
            BY <1>1, <3>1, WithoutKeeps
        <3>3. OneEach(Without(queue[l], i))
            BY <1>1, <1>2, <3>1, WithoutOnce DEF OneEach
        <3>4. ASSUME NEW k \in DOMAIN queue'[l]
              PROVE  Asks(queue'[l][k].task, at'[queue'[l][k].task], l, queue'[l][k].mode)
            <4>1. PICK j \in DOMAIN queue[l] : queue'[l][k] = queue[l][j]
                BY <3>1, <3>2
            <4> QED
                BY <1>2, <2>1, <4>1
        <3> QED
            BY <3>1, <3>3, <3>4
    <2> QED
        BY <2>3, <2>4
<1>9. CASE UNCHANGED vars
    <2>1. queue' = queue /\ at' = at
        BY <1>9 DEF vars, lockVars
    <2> QED
        BY <1>2, <2>1
<1> QED
    BY <1>5, <1>6, <1>7, <1>8, <1>9 DEF Next, Finished

\* What one holds is what one has asked for and not let go of, and nobody waits for a
\* lock that he holds but the delta's.
LEMMA GuardStep ==
    ASSUME TypeOK, AtInv, QueueInv, GuardInv, [Next]_vars
    PROVE  GuardInv'
<1>1. /\ queue \in [Locks -> Seq(Item)] /\ at \in [Tasks -> Nat \ {0}]
      /\ readers \in [Locks -> [Tasks -> Nat]]
      /\ writer \in [Locks -> Tasks \cup {Nobody}]
      /\ Nobody \notin Tasks
    BY TypeOKParts, NobodyAssumption DEF GuardsOK
<1>2. \A l \in Locks :
          /\ \A i \in DOMAIN queue[l] :
                /\ Asks(queue[l][i].task, at[queue[l][i].task], l, queue[l][i].mode)
                /\ queue[l][i].task \in Tasks
          /\ OneEach(queue[l])
    BY <1>1, QueueTypes DEF QueueInv
<1> DEFINE Good(t, l) == Holds(t, l) =>
               /\ l \in Taken(MyProgram(t), at[t])
               /\ WaitsFor(t, l) => l = "delta" /\ ~ Plain(MyProgram(t))
           GoodNext(t, l) == Holds(t, l)' =>
               /\ l \in Taken(MyProgram(t), at'[t])
               /\ WaitsFor(t, l)' => l = "delta" /\ ~ Plain(MyProgram(t))
<1>3. \A t \in Tasks, l \in Locks : Good(t, l)
    BY DEF GuardInv
<1> SUFFICES \A t \in Tasks, l \in Locks : GoodNext(t, l)
    BY DEF GuardInv, MyProgram
<1>4. \A t, l : /\ Holds(t, l)' <=> readers'[l][t] > 0 \/ writer'[l] = t
                /\ WaitsFor(t, l)' <=> \E i \in DOMAIN queue'[l] : queue'[l][i].task = t
                /\ Holds(t, l) <=> readers[l][t] > 0 \/ writer[l] = t
                /\ WaitsFor(t, l) <=> \E i \in DOMAIN queue[l] : queue[l][i].task = t
    BY DEF Holds, WaitsFor
\* Whoever stays where he is and gets nothing new.
<1>5. ASSUME NEW t \in Tasks, NEW l \in Locks, at'[t] = at[t],
             Holds(t, l)' => Holds(t, l), WaitsFor(t, l)' => WaitsFor(t, l)
      PROVE  GoodNext(t, l)
    BY <1>3, <1>5
<1> HIDE DEF Good, GoodNext
<1>6. ASSUME NEW t \in Tasks, Goes(t), ~ Done(t)
      PROVE  /\ at'[t] = at[t] + 1 /\ \A u \in Tasks : u # t => at'[u] = at[u]
             /\ MyProgram(t) \in Seq(Ops) /\ at[t] \in 1..Len(MyProgram(t))
             /\ NextOp(t) = MyProgram(t)[at[t]] /\ Subject(t) = MyProgram(t)[at[t]][2]
    BY <1>1, <1>6, NextOpType, MyProgramType DEF Goes, Subject
<1>7. ASSUME NEW t \in Tasks, Lock(t), NEW u \in Tasks, NEW l \in Locks
      PROVE  GoodNext(u, l)
    <2> DEFINE m == Subject(t)  mode == ModeOf(NextOp(t))
               r == [task |-> t, mode |-> mode]
    <2>1. /\ ~ Done(t) /\ Takes(NextOp(t)) /\ m \in Locks /\ mode \in Modes
          /\ Acquire(t, m, mode) /\ Goes(t)
          /\ NextOp(t)[1] # "join" => ~ Waits(t)
        BY <1>7, LockCases DEF Lock
    <2>2. Taken(MyProgram(t), at'[t]) = Taken(MyProgram(t), at[t]) \cup {m}
        <3>1. /\ Takes(MyProgram(t)[at[t]]) /\ m = MyProgram(t)[at[t]][2]
              /\ at'[t] = at[t] + 1
              /\ MyProgram(t) \in Seq(Ops) /\ at[t] \in 1..Len(MyProgram(t))
            BY <1>6, <2>1
        <3> HIDE DEF m
        <3> QED
            BY <3>1, TakenNext
    <2>3. Good(t, l) /\ Good(u, l)
        BY <1>3
    <2>4. ~ WaitsFor(t, m)
        <3> SUFFICES ASSUME WaitsFor(t, m) PROVE FALSE
            OBVIOUS
        <3>1. PICK i \in DOMAIN queue[m] : queue[m][i].task = t
            BY DEF WaitsFor
        <3>2. Waits(t) /\ Asks(t, at[t], m, queue[m][i].mode)
            BY <1>2, <2>1, <3>1 DEF Waits, WaitsFor
        <3>3. NextOp(t)[1] = "join"
            BY <2>1, <3>2
        <3> QED
            BY <2>1, <3>2, <3>3, JoinAfterRead
    <2>5. Holds(t, m) => m = "delta" /\ ~ Plain(MyProgram(t))
        <3> SUFFICES ASSUME Holds(t, m) PROVE m = "delta" /\ ~ Plain(MyProgram(t))
            OBVIOUS
        <3>1. m \in Taken(MyProgram(t), at[t])
            BY <1>3, <2>1 DEF Good
        <3>4. InOrder(MyProgram(t))
            BY MyProgramType DEF Fragment
        <3>5. /\ Takes(MyProgram(t)[at[t]]) /\ m = MyProgram(t)[at[t]][2]
              /\ at[t] \in 1..Len(MyProgram(t))
            BY <1>6, <2>1
        <3> HIDE DEF m
        <3>2. Rank(m) < Rank(m) \/ m = "delta"
            BY <3>1, <3>4, <3>5 DEF InOrder
        <3>3. m = "delta"
            BY <2>1, <3>2 DEF Rank, Locks, IndexLocks
        <3>6. ~ Plain(MyProgram(t))
            BY <3>1, <3>5 DEF Plain
        <3> QED
            BY <3>3, <3>6
    <2>6. r.task = t
        OBVIOUS
    <2> HIDE DEF m, mode, r
    <2>7. CASE Grantable(m, mode) /\ Take(t, m, mode) /\ queue' = queue
        <3>1. /\ \A v \in Tasks, k \in Locks : Holds(v, k)' => Holds(v, k) \/ (v = t /\ k = m)
              /\ \A v, k : WaitsFor(v, k)' <=> WaitsFor(v, k)
            <4>1. \/ /\ readers' = [readers EXCEPT ![m][t] = readers[m][t] + 1]
                     /\ writer' = writer
                  \/ writer' = [writer EXCEPT ![m] = t] /\ readers' = readers
                BY <2>7 DEF Take
            <4>2. \A v \in Tasks, k \in Locks :
                      /\ readers'[k][v] = readers[k][v] \/ (v = t /\ k = m)
                      /\ writer'[k] = writer[k] \/ (k = m /\ writer'[k] = t)
                <5>1. m \in Locks
                    BY <2>1
                <5>2. readers \in [Locks -> [Tasks -> Nat]] /\ writer \in [Locks -> Tasks \cup {Nobody}]
                    BY <1>1
                <5>3. CASE /\ readers' = [readers EXCEPT ![m][t] = readers[m][t] + 1]
                           /\ writer' = writer
                    BY ONLY <5>1, <5>2, <5>3
                <5>4. CASE writer' = [writer EXCEPT ![m] = t] /\ readers' = readers
                    BY ONLY <5>1, <5>2, <5>4
                <5> QED
                    BY ONLY <4>1, <5>3, <5>4
            <4>3. ASSUME NEW v \in Tasks, NEW k \in Locks, Holds(v, k)'
                  PROVE  Holds(v, k) \/ (v = t /\ k = m)
                <5>1. readers'[k][v] > 0 \/ writer'[k] = v
                    BY <1>4, <4>3
                <5>2. readers[k][v] > 0 \/ writer[k] = v \/ (v = t /\ k = m)
                    BY <4>2, <5>1
                <5> QED
                    BY <1>4, <5>2
            <4>4. \A v, k : WaitsFor(v, k)' <=> WaitsFor(v, k)
                BY <1>4, <2>7
            <4> QED
                BY <4>3, <4>4
        <3>2. CASE u # t
            BY <1>5, <1>6, <2>1, <3>1, <3>2
        <3>3. CASE u = t /\ l = m
            BY <2>2, <2>4, <3>1, <3>3 DEF GoodNext
        <3>4. CASE u = t /\ l # m
            BY <2>2, <2>3, <3>1, <3>4 DEF Good, GoodNext
        <3> QED
            BY <3>2, <3>3, <3>4
    <2>8. CASE /\ queue' = [queue EXCEPT ![m] = Append(queue[m], r)]
               /\ readers' = readers /\ writer' = writer
        <3>1. \A v \in Tasks, k \in Locks : WaitsFor(v, k)' => WaitsFor(v, k) \/ (v = t /\ k = m)
            <4>1. \A k \in Locks : k # m => queue'[k] = queue[k]
                BY <1>1, <2>8
            <4>2. queue'[m] = Append(queue[m], r) /\ r \in Item
                BY <1>1, <2>1, <2>8 DEF r, Item
            <4>3. /\ queue[m] \in Seq(Item) /\ Len(queue[m]) \in Nat
                  /\ DOMAIN queue[m] = 1..Len(queue[m])
                BY <1>1, <2>1, QueueTypes
            <4>4. /\ Append(queue[m], r) \in Seq(Item)
                  /\ Len(Append(queue[m], r)) = Len(queue[m]) + 1
                  /\ \A k \in 1..Len(queue[m]) : Append(queue[m], r)[k] = queue[m][k]
                  /\ Append(queue[m], r)[Len(queue[m]) + 1] = r
                BY <4>2, <4>3, AppendProperties
            <4>5. DOMAIN Append(queue[m], r) = 1..(Len(queue[m]) + 1)
                BY <4>4, LenProperties
            <4>6. \A k \in DOMAIN Append(queue[m], r) :
                      \/ k \in DOMAIN queue[m] /\ Append(queue[m], r)[k] = queue[m][k]
                      \/ Append(queue[m], r)[k] = r
                BY <4>3, <4>4, <4>5
            <4> QED
                BY <1>4, <2>6, <4>1, <4>2, <4>6
        <3>2. \A v, k : Holds(v, k)' <=> Holds(v, k)
            BY <1>4, <2>8
        <3>3. CASE u # t
            BY <1>5, <1>6, <2>1, <3>1, <3>2, <3>3
        <3>4. CASE u = t /\ l = m
            BY <2>2, <2>5, <3>2, <3>4 DEF GoodNext
        <3>5. CASE u = t /\ l # m
            BY <2>2, <2>3, <3>1, <3>2, <3>5 DEF Good, GoodNext
        <3> QED
            BY <3>3, <3>4, <3>5
    <2> QED
        BY <2>1, <2>7, <2>8, AcquireCases DEF r
<1>8. ASSUME NEW t \in Tasks, Drop(t), NEW u \in Tasks, NEW l \in Locks
      PROVE  GoodNext(u, l)
    <2> DEFINE m == Subject(t)
    <2>1. ~ Done(t) /\ NextOp(t)[1] = "drop" /\ Goes(t) /\ m \in Locks /\ Release(t, m)
        BY <1>8, NextOpType DEF Drop, Does
    <2>2. Taken(MyProgram(t), at'[t]) = Taken(MyProgram(t), at[t]) \ {m}
        BY <1>6, <2>1, TakenNext
    <2>3. Good(u, l)
        BY <1>3
    <2> HIDE DEF m
    <2>4. /\ queue' = queue
          /\ readers' = [readers EXCEPT ![m][t] = 0]
          /\ writer' = [writer EXCEPT ![m] = IF writer[m] = t THEN Nobody ELSE writer[m]]
        BY <2>1 DEF Release
    <2>5. /\ \A v \in Tasks, k \in Locks : Holds(v, k)' => Holds(v, k)
          /\ \A v, k : v = t /\ k = m => ~ Holds(v, k)'
          /\ \A v, k : WaitsFor(v, k)' <=> WaitsFor(v, k)
        <3>1. \A v \in Tasks, k \in Locks :
                  /\ readers'[k][v] = readers[k][v] \/ readers'[k][v] = 0
                  /\ writer'[k] = writer[k] \/ writer'[k] = Nobody
            BY <1>1, <2>1, <2>4
        <3>2. readers'[m][t] = 0 /\ writer'[m] # t
            BY <1>1, <2>1, <2>4
        <3>3. ASSUME NEW v \in Tasks, NEW k \in Locks, Holds(v, k)' PROVE Holds(v, k)
            <4>1. readers'[k][v] > 0 \/ writer'[k] = v
                BY <1>4, <3>3
            <4>2. /\ readers'[k][v] = readers[k][v] \/ readers'[k][v] = 0
                  /\ writer'[k] = writer[k] \/ writer'[k] = Nobody
                  /\ v # Nobody /\ ~ (0 > 0)
                BY <1>1, <3>1
            <4>3. readers[k][v] > 0 \/ writer[k] = v
                BY <4>1, <4>2
            <4> QED
                BY <1>4, <4>3
        <3>4. ASSUME NEW v, NEW k, v = t, k = m PROVE ~ Holds(v, k)'
            <4>1. ~ (readers'[k][v] > 0) /\ writer'[k] # v
                BY <3>2, <3>4
            <4> QED
                BY <1>4, <4>1
        <3>5. \A v, k : WaitsFor(v, k)' <=> WaitsFor(v, k)
            BY <1>4, <2>4
        <3> QED
            BY <3>3, <3>4, <3>5
    <2>6. CASE u # t
        BY <1>5, <1>6, <2>1, <2>5, <2>6
    <2>7. CASE u = t
        <3>1. CASE l = m
            BY <2>5, <2>7, <3>1 DEF GoodNext
        <3>2. CASE l # m
            BY <2>2, <2>3, <2>5, <2>7, <3>2 DEF Good, GoodNext
        <3> QED
            BY <3>1, <3>2
    <2> QED
        BY <2>6, <2>7
<1>9. ASSUME NEW t \in Tasks, CallReturns(t) \/ SearchIndex(t) \/ Score(t) \/ Put(t),
             NEW u \in Tasks, NEW l \in Locks
      PROVE  GoodNext(u, l)
    <2>1. /\ ~ Done(t) /\ NextOp(t)[1] \in {"call", "search", "score", "put"} /\ Goes(t)
          /\ queue' = queue /\ readers' = readers /\ writer' = writer
        BY <1>9 DEF CallReturns, SearchIndex, Score, Put, Does, lockVars
    <2>2. Taken(MyProgram(t), at'[t]) = Taken(MyProgram(t), at[t])
        <3>1. ~ Takes(MyProgram(t)[at[t]]) /\ MyProgram(t)[at[t]][1] # "drop"
            BY <1>6, <2>1 DEF Takes
        <3> QED
            BY <1>6, <2>1, <3>1, TakenNext
    <2>3. (Holds(u, l)' <=> Holds(u, l)) /\ (WaitsFor(u, l)' <=> WaitsFor(u, l))
        BY <1>4, <2>1
    <2>4. CASE u # t
        BY <1>5, <1>6, <2>1, <2>3, <2>4
    <2>5. CASE u = t
        BY <1>3, <2>2, <2>3, <2>5 DEF Good, GoodNext
    <2> QED
        BY <2>4, <2>5
<1>10. ASSUME NEW t \in Tasks, GivesUp(t), NEW u \in Tasks, NEW l \in Locks
       PROVE  GoodNext(u, l)
    <2>1. /\ queue'[l] = Leave(queue[l], t)
          /\ readers'[l] = [readers[l] EXCEPT ![t] = 0]
          /\ writer'[l] = IF writer[l] = t THEN Nobody ELSE writer[l]
        BY <1>10 DEF GivesUp, Abandon
    <2>2. \A k \in DOMAIN Leave(queue[l], t) : \E j \in DOMAIN queue[l] :
              Leave(queue[l], t)[k] = queue[l][j]
        BY <1>1, LeaveProperties
    <2>3. WaitsFor(u, l)' => WaitsFor(u, l)
        BY <1>4, <2>1, <2>2
    <2>4. CASE u # t
        <3>1. at'[u] = at[u]
            BY <1>1, <1>10, <2>4 DEF GivesUp
        <3>2. Holds(u, l)' => Holds(u, l)
            BY <1>1, <1>4, <2>1, <2>4
        <3> QED
            BY <1>5, <2>3, <3>1, <3>2
    <2>5. CASE u = t
        <3>1. readers'[l][t] = 0 /\ writer'[l] # t
            BY <1>1, <2>1
        <3>2. ~ Holds(t, l)'
            BY <1>4, <3>1
        <3> QED
            BY <2>5, <3>2 DEF GoodNext
    <2> QED
        BY <2>4, <2>5
<1>11. ASSUME NEW m \in Locks, ServeNext(m), NEW u \in Tasks, NEW l \in Locks
       PROVE  GoodNext(u, l)
    <2>1. at' = at
        BY <1>11 DEF ServeNext
    <2>2. PICK i \in DOMAIN queue[m] :
              /\ Grantable(m, queue[m][i].mode)
              /\ Take(queue[m][i].task, m, queue[m][i].mode)
              /\ queue' = [queue EXCEPT ![m] = Without(queue[m], i)]
        BY <1>1, <1>11, ServeCases DEF ServeNext
    <2> DEFINE t == queue[m][i].task  mode == queue[m][i].mode
    <2>3. t \in Tasks /\ Asks(t, at[t], m, mode) /\ OneEach(queue[m])
        BY <1>2
    <2>4. Take(t, m, mode)
        BY <2>2
    <2>5. /\ \A k \in DOMAIN Without(queue[m], i) : \E j \in DOMAIN queue[m] :
                Without(queue[m], i)[k] = queue[m][j]
          /\ \A k \in DOMAIN Without(queue[m], i) : Without(queue[m], i)[k].task # t
        <3>1. \A k \in DOMAIN Without(queue[m], i) : \E j \in DOMAIN queue[m] :
                  Without(queue[m], i)[k] = queue[m][j]
            BY <1>1, WithoutKeeps
        <3>2. \A k \in DOMAIN Without(queue[m], i) : Without(queue[m], i)[k].task # t
            BY <1>1, <2>3, WithoutOnce DEF OneEach
        <3> QED
            BY <3>1, <3>2
    <2> HIDE DEF t, mode
    <2>6. \A v \in Tasks, k \in Locks : WaitsFor(v, k)' => WaitsFor(v, k)
        <3>1. \A k \in Locks : k # m => queue'[k] = queue[k]
            BY <1>1, <2>2
        <3>2. queue'[m] = Without(queue[m], i)
            BY <1>1, <2>2
        <3> QED
            BY <1>4, <2>5, <3>1, <3>2
    <2>7. ASSUME NEW v, NEW k, v = t, k = m PROVE ~ WaitsFor(v, k)'
        <3>1. queue'[m] = Without(queue[m], i)
            BY <1>1, <2>2
        <3>2. \A j \in DOMAIN queue'[k] : queue'[k][j].task # v
            BY <2>5, <2>7, <3>1
        <3> QED
            BY <1>4, <3>2
    <2>8. \A v \in Tasks, k \in Locks : Holds(v, k)' => Holds(v, k) \/ (v = t /\ k = m)
        <3>1. \/ /\ readers' = [readers EXCEPT ![m][t] = readers[m][t] + 1]
                 /\ writer' = writer
              \/ writer' = [writer EXCEPT ![m] = t] /\ readers' = readers
            BY <2>4 DEF Take
        <3>2. \A v \in Tasks, k \in Locks :
                  /\ readers'[k][v] = readers[k][v] \/ (v = t /\ k = m)
                  /\ writer'[k] = writer[k] \/ (k = m /\ writer'[k] = t)
            <4>1. CASE /\ readers' = [readers EXCEPT ![m][t] = readers[m][t] + 1]
                       /\ writer' = writer
                BY <1>1, <2>3, <4>1
            <4>2. CASE writer' = [writer EXCEPT ![m] = t] /\ readers' = readers
                BY <1>1, <2>3, <4>2
            <4> QED
                BY <3>1, <4>1, <4>2
        <3>3. ASSUME NEW v \in Tasks, NEW k \in Locks, Holds(v, k)'
              PROVE  Holds(v, k) \/ (v = t /\ k = m)
            <4>1. readers'[k][v] > 0 \/ writer'[k] = v
                BY <1>4, <3>3
            <4>2. readers[k][v] > 0 \/ writer[k] = v \/ (v = t /\ k = m)
                BY <3>2, <4>1
            <4> QED
                BY <1>4, <4>2
        <3> QED
            BY <3>3
    <2>9. CASE u = t /\ l = m
        <3>1. m \in Taken(MyProgram(t), at[t])
            BY <2>3, AskedIsTaken
        <3> QED
            BY <2>1, <2>7, <2>9, <3>1 DEF GoodNext
    <2>10. CASE ~ (u = t /\ l = m)
        BY <1>5, <2>1, <2>6, <2>8, <2>10
    <2> QED
        BY <2>9, <2>10
<1>12. ASSUME UNCHANGED vars, NEW u \in Tasks, NEW l \in Locks
       PROVE  GoodNext(u, l)
    <2>1. queue' = queue /\ at' = at /\ readers' = readers /\ writer' = writer
        BY <1>12 DEF vars, lockVars
    <2> QED
        BY <1>4, <1>5, <2>1
<1> QED
    BY <1>7, <1>8, <1>9, <1>10, <1>11, <1>12 DEF Next, Step, Finished

LEMMA WaitInvariant == Spec => [](TypeOK /\ WaitInv)
<1>1. Init => TypeOK /\ WaitInv
    <2> SUFFICES ASSUME Init PROVE WaitInv
        BY TypeInit
    <2>1. /\ \A l \in Locks : queue[l] = <<>> /\ writer[l] = Nobody
          /\ \A l \in Locks, t \in Tasks : readers[l][t] = 0
          /\ \A t \in Tasks : at[t] = 1
        BY DEF Init, LocksInit
    <2>2. AtInv
        <3>1. ASSUME NEW t \in Tasks PROVE at[t] \in 1..(Len(MyProgram(t)) + 1)
            <4>1. Len(MyProgram(t)) \in Nat
                BY MyProgramType
            <4>2. at[t] = 1
                BY <2>1
            <4> QED
                BY <4>1, <4>2
        <3> QED
            BY <3>1 DEF AtInv
    <2>3. QueueInv
        BY <2>1 DEF QueueInv, OneEach
    <2>4. GuardInv
        <3>1. \A t \in Tasks, l \in Locks : ~ Holds(t, l)
            BY <2>1, NobodyAssumption DEF Holds
        <3> QED
            BY <3>1 DEF GuardInv
    <2> QED
        BY <2>2, <2>3, <2>4 DEF WaitInv
<1>2. TypeOK /\ WaitInv /\ [Next]_vars => TypeOK' /\ WaitInv'
    BY TypeStep, AtStep, QueueStep, GuardStep DEF WaitInv
<1> QED
    BY <1>1, <1>2, PTL DEF Spec

-----------------------------------------------------------------------------
(***************************************************************************)
(* A merge waits for nothing while it replaces the indices.                *)
(***************************************************************************)
\* The graph is never behind the HNSW.
LEMMA GraphFirst ==
    ASSUME TypeOK, GenInv
    PROVE  gen["hnsw"] <= gen["graph"]
<1>1. gen["hnsw"] \in Nat /\ gen["graph"] \in Nat
    BY DEF TypeOK, IndexLocks
<1>2. CASE \E t \in Tasks : Swaps(t, 10) \/ Swaps(t, 11) \/ Swaps(t, 12)
    BY <1>1, <1>2 DEF GenInv
<1>3. CASE \A t \in Tasks : ~ Swaps(t, 10) /\ ~ Swaps(t, 11) /\ ~ Swaps(t, 12)
    BY <1>1, <1>3 DEF GenInv
<1> QED
    BY <1>2, <1>3

\* Only a merge replaces an index, at four of its steps.
LEMMA PutCases ==
    ASSUME TypeOK, NEW u \in Tasks, Put(u)
    PROVE  /\ Kind[u] = "merge"
           /\ \/ at[u] = 9 /\ Subject(u) = "graph"
              \/ at[u] = 10 /\ Subject(u) = "hnsw"
              \/ at[u] = 11 /\ Subject(u) = "edge_hnsw"
              \/ at[u] = 12 /\ Subject(u) = "store"
<1>1. ~ Done(u) /\ NextOp(u)[1] = "put"
    BY DEF Put, Does
<1>2. at[u] \in 1..Len(MyProgram(u)) /\ NextOp(u) = MyProgram(u)[at[u]]
    BY <1>1, NextOpType, MyProgramType
<1>3. Kind[u] = "merge"
    BY <1>1, <1>2, MyProgramType DEF PutsNothing
<1>4. MyProgram(u) = Merge /\ at[u] \in 1..16
    BY <1>2, <1>3, MyProgramType, MergeSteps
<1>5. at[u] \in {9, 10, 11, 12}
    BY <1>1, <1>2, <1>4, MergeSteps
<1> QED
    BY <1>2, <1>3, <1>4, <1>5, MergeSteps DEF Subject

\* A merge that is between its first replacement and its last goes on only by one.
LEMMA SwapsStay ==
    ASSUME TypeOK, QueueInv, [Next]_vars, NEW t \in Tasks, ~ Put(t)
    PROVE  \A p \in {10, 11, 12} : Swaps(t, p)' <=> Swaps(t, p)
<1>1. CASE Kind[t] # "merge"
    BY <1>1 DEF Swaps
<1>2. CASE Kind[t] = "merge" /\ at'[t] = at[t]
    BY <1>2 DEF Swaps
<1>3. CASE Kind[t] = "merge" /\ Step(t) /\ at'[t] = at[t] + 1
    <2>1. ~ Done(t) /\ NextOp(t)[1] # "put" /\ MyProgram(t) = Merge
        BY <1>3, StepIsNext, MyProgramType
    <2>2. at[t] \in 1..16 /\ Merge[at[t]][1] # "put"
        BY <2>1, NextOpType, MyProgramType, MergeSteps
    <2>3. at[t] \notin {9, 10, 11, 12}
        BY <2>2, MergeSteps
    <2> QED
        BY <1>3, <2>2, <2>3 DEF Swaps
<1>4. CASE Kind[t] = "merge" /\ GivesUp(t) /\ at'[t] = Len(MyProgram(t)) + 1
    <2>1. MyProgram(t) = Merge /\ NextOp(t) = Merge[at[t]]
        BY <1>4, MyProgramType
    <2>2. at'[t] = 17
        BY <1>4, <2>1, MergeSteps
    <2>3. ASSUME at[t] \in {10, 11, 12} PROVE FALSE
        <3>1. Merge[at[t]][1] = "put"
            BY <2>3, MergeSteps
        <3>2. PICK l \in IndexLocks : WaitsFor(t, l)
            BY <1>4, <2>1, <3>1 DEF GivesUp
        <3>3. \E mode : Asks(t, at[t], l, mode)
            BY <3>2 DEF WaitsFor, QueueInv, IndexLocks, Locks
        <3>4. /\ at[t] - 1 \in {9, 10, 11} /\ Merge[at[t] - 1][1] = "put"
            BY <2>3, MergeSteps
        <3> QED
            BY <2>1, <3>3, <3>4 DEF Asks, AsksBy, Takes
    <2> QED
        BY <2>2, <2>3 DEF Swaps
<1> QED
    BY <1>1, <1>2, <1>3, <1>4, AtMoves

LEMMA GenStep ==
    ASSUME TypeOK, QueueInv, SeatInv', GenInv, [Next]_vars
    PROVE  GenInv'
<1>1. CASE \A u \in Tasks : ~ Put(u)
    <2>1. gen' = gen
        BY <1>1 DEF Next, Step, Lock, Drop, CallReturns, SearchIndex, Score, GivesUp,
                    ServeNext, Finished, vars
    <2>2. \A t \in Tasks : \A p \in {10, 11, 12} : Swaps(t, p)' <=> Swaps(t, p)
        BY <1>1, SwapsStay
    <2> QED
        BY <2>1, <2>2 DEF GenInv
<1>2. ASSUME NEW u \in Tasks, Put(u) PROVE GenInv'
    <2> DEFINE l == Subject(u)
    <2>1. /\ Kind[u] = "merge"
          /\ \/ at[u] = 9 /\ l = "graph"
             \/ at[u] = 10 /\ l = "hnsw"
             \/ at[u] = 11 /\ l = "edge_hnsw"
             \/ at[u] = 12 /\ l = "store"
        BY <1>2, PutCases
    <2>2. /\ gen' = [gen EXCEPT ![l] = gen[l] + 1]
          /\ at' = [at EXCEPT ![u] = at[u] + 1]
        BY <1>2 DEF Put, Goes
    <2> HIDE DEF l
    <2>3. /\ gen \in [IndexLocks -> Nat] /\ at \in [Tasks -> Nat \ {0}]
          /\ IndexLocks = {"graph", "hnsw", "edge_hnsw", "store"}
        BY DEF TypeOK, IndexLocks
    <2>4. at'[u] = at[u] + 1 /\ \A t \in Tasks : t # u => at'[t] = at[t]
        BY <2>2, <2>3
    <2>5. ASSUME NEW t \in Tasks, t # u, Kind[t] = "merge", at'[t] \in 10..13
          PROVE  FALSE
        <3>1. "graph" \in IndexLocks
            BY <2>3
        <3>2. at'[u] \in 10..13
            BY <2>1, <2>4
        <3>3. writer'["graph"] = u /\ writer'["graph"] = t
            BY <2>1, <2>5, <3>1, <3>2 DEF SeatInv
        <3> QED
            BY <2>5, <3>3
    <2>6. \A t \in Tasks : \A p \in {10, 11, 12} :
              /\ t # u => ~ Swaps(t, p) /\ ~ Swaps(t, p)'
              /\ Swaps(u, p) <=> at[u] = p
              /\ Swaps(u, p)' <=> at[u] + 1 = p
        BY <2>1, <2>4, <2>5 DEF Swaps
    <2>7. CASE at[u] = 9 /\ l = "graph"
        <3>1. /\ gen["hnsw"] = gen["graph"]
              /\ gen["edge_hnsw"] = gen["graph"]
              /\ gen["store"] = gen["graph"]
            BY <2>6, <2>7 DEF GenInv
        <3>2. /\ gen'["graph"] = gen["graph"] + 1 /\ gen'["hnsw"] = gen["hnsw"]
              /\ gen'["edge_hnsw"] = gen["edge_hnsw"] /\ gen'["store"] = gen["store"]
            BY <2>2, <2>3, <2>7
        <3>3. \A t \in Tasks : (Swaps(t, 10)' <=> t = u) /\ ~ Swaps(t, 11)' /\ ~ Swaps(t, 12)'
            BY <2>6, <2>7
        <3> QED
            BY <3>1, <3>2, <3>3 DEF GenInv
    <2>8. CASE at[u] = 10 /\ l = "hnsw"
        <3>1. /\ gen["graph"] = gen["hnsw"] + 1
              /\ gen["edge_hnsw"] = gen["hnsw"]
              /\ gen["store"] = gen["hnsw"]
            BY <2>6, <2>8 DEF GenInv
        <3>2. /\ gen'["graph"] = gen["graph"] /\ gen'["hnsw"] = gen["hnsw"] + 1
              /\ gen'["edge_hnsw"] = gen["edge_hnsw"] /\ gen'["store"] = gen["store"]
            BY <2>2, <2>3, <2>8
        <3>3. \A t \in Tasks : ~ Swaps(t, 10)' /\ (Swaps(t, 11)' <=> t = u) /\ ~ Swaps(t, 12)'
            BY <2>6, <2>8
        <3> QED
            BY <3>1, <3>2, <3>3 DEF GenInv
    <2>9. CASE at[u] = 11 /\ l = "edge_hnsw"
        <3>1. /\ gen["graph"] = gen["hnsw"]
              /\ gen["hnsw"] = gen["edge_hnsw"] + 1
              /\ gen["store"] = gen["edge_hnsw"]
            BY <2>6, <2>9 DEF GenInv
        <3>2. /\ gen'["graph"] = gen["graph"] /\ gen'["hnsw"] = gen["hnsw"]
              /\ gen'["edge_hnsw"] = gen["edge_hnsw"] + 1 /\ gen'["store"] = gen["store"]
            BY <2>2, <2>3, <2>9
        <3>3. \A t \in Tasks : ~ Swaps(t, 10)' /\ ~ Swaps(t, 11)' /\ (Swaps(t, 12)' <=> t = u)
            BY <2>6, <2>9
        <3> QED
            BY <3>1, <3>2, <3>3 DEF GenInv
    <2>10. CASE at[u] = 12 /\ l = "store"
        <3>1. /\ gen["graph"] = gen["hnsw"]
              /\ gen["edge_hnsw"] = gen["hnsw"]
              /\ gen["hnsw"] = gen["store"] + 1
            BY <2>6, <2>10 DEF GenInv
        <3>2. /\ gen'["graph"] = gen["graph"] /\ gen'["hnsw"] = gen["hnsw"]
              /\ gen'["edge_hnsw"] = gen["edge_hnsw"] /\ gen'["store"] = gen["store"] + 1
            BY <2>2, <2>3, <2>10
        <3>3. \A t \in Tasks : ~ Swaps(t, 10)' /\ ~ Swaps(t, 11)' /\ ~ Swaps(t, 12)'
            BY <2>6, <2>10
        <3> QED
            BY <3>1, <3>2, <3>3 DEF GenInv
    <2> QED
        BY <2>1, <2>7, <2>8, <2>9, <2>10
<1> QED
    BY <1>1, <1>2

LEMMA SeedStep ==
    ASSUME TypeOK, GenInv, SeedInv, [Next]_vars
    PROVE  SeedInv'
<1>1. /\ gen \in [IndexLocks -> Nat] /\ seeds \in [Tasks -> Nat]
      /\ "graph" \in IndexLocks /\ gen["hnsw"] <= gen["graph"]
    BY GraphFirst DEF TypeOK, IndexLocks
<1>2. gen'["graph"] = gen["graph"] \/ gen'["graph"] = gen["graph"] + 1
    <2>1. gen' = gen \/ \E u \in Tasks : gen' = [gen EXCEPT ![Subject(u)] = gen[Subject(u)] + 1]
        BY DEF Next, Step, Lock, Drop, CallReturns, SearchIndex, Score, Put, GivesUp,
               ServeNext, Finished, vars
    <2> QED
        BY <1>1, <2>1
<1>3. seeds' = seeds \/ \E u \in Tasks : seeds' = [seeds EXCEPT ![u] = gen["hnsw"]]
    BY DEF Next, Step, Lock, Drop, CallReturns, SearchIndex, Score, Put, GivesUp,
           ServeNext, Finished, vars
<1>4. ASSUME NEW t \in Tasks PROVE seeds'[t] <= gen'["graph"]
    <2>1. gen["graph"] \in Nat /\ seeds[t] \in Nat /\ gen["hnsw"] \in Nat
        BY <1>1 DEF IndexLocks
    <2>2. seeds'[t] = seeds[t] \/ seeds'[t] = gen["hnsw"]
        BY <1>1, <1>3
    <2>3. seeds[t] <= gen["graph"]
        BY DEF SeedInv
    <2> QED
        BY <1>1, <1>2, <2>1, <2>2, <2>3
<1> QED
    BY <1>4 DEF SeedInv

LEMMA SwapInvInit == Init => SeatInv /\ GenInv /\ SeedInv
<1> SUFFICES ASSUME Init PROVE SeatInv /\ GenInv /\ SeedInv
    OBVIOUS
<1>1. \A t \in Tasks : at[t] = 1 /\ seeds[t] = 0
    BY DEF Init
<1>2. gen["graph"] = 0 /\ gen["hnsw"] = 0 /\ gen["edge_hnsw"] = 0 /\ gen["store"] = 0
    BY DEF Init, IndexLocks
<1>3. SeatInv
    BY <1>1 DEF SeatInv
<1>4. GenInv
    BY <1>1, <1>2 DEF GenInv, Swaps
<1> QED
    BY <1>1, <1>2, <1>3, <1>4 DEF SeedInv

LEMMA SwapInvariant == Spec => [](TypeOK /\ SeatInv /\ GenInv /\ SeedInv)
<1> DEFINE Inv == TypeOK /\ SeatInv /\ GenInv /\ SeedInv
<1>1. Init => Inv
    BY TypeInit, SwapInvInit
<1>2. Inv /\ WaitInv /\ [Next]_vars => Inv'
    <2> SUFFICES ASSUME Inv, WaitInv, [Next]_vars PROVE Inv'
        OBVIOUS
    <2>1. TypeOK' /\ SeatInv'
        BY TypeStep, SeatStep
    <2>2. GenInv' /\ SeedInv'
        BY <2>1, GenStep, SeedStep DEF WaitInv
    <2> QED
        BY <2>1, <2>2
<1> QED
    BY <1>1, <1>2, WaitInvariant, PTL DEF Spec

\* run_merge takes its four write locks before it replaces anything, so whatever two
\* indices a handler reads under its guards come from the same merge.
THEOREM ReadersSeeOneSnapshot == Spec => []OneSnapshot
<1>1. ASSUME TypeOK, SeatInv, GenInv PROVE OneSnapshot
    <2> SUFFICES ASSUME NEW t \in Tasks, NEW l \in IndexLocks, NEW m \in IndexLocks,
                        readers[l][t] > 0, readers[m][t] > 0
                 PROVE  gen[l] = gen[m]
        BY DEF OneSnapshot
    <2>1. l \in Locks /\ readers[l][t] # 0
        BY DEF Locks
    <2>2. writer[l] = Nobody
        BY <1>1, <2>1, TypeOKParts DEF GuardsOK
    <2>3. ASSUME NEW u \in Tasks, Kind[u] = "merge", at[u] \in 10..13 PROVE FALSE
        BY <1>1, <2>2, <2>3, NobodyAssumption DEF SeatInv
    <2>4. \A u \in Tasks : ~ (Kind[u] = "merge" /\ at[u] \in 10..13)
        BY <2>3, Zenon
    <2>5. \A u \in Tasks : ~ Swaps(u, 10) /\ ~ Swaps(u, 11) /\ ~ Swaps(u, 12)
        <3>1. 10 \in 10..13 /\ 11 \in 10..13 /\ 12 \in 10..13
            OBVIOUS
        <3> QED
            BY <2>4, <3>1, Zenon DEF Swaps
    <2> QED
        BY <1>1, <2>5 DEF GenInv, IndexLocks
<1> QED
    BY <1>1, SwapInvariant, PTL

\* A query lets go of the HNSW before it takes the graph, but the graph is replaced
\* first and never goes back: it has every seed that the HNSW could name.
THEOREM SeedsAreInTheGraph == Spec => []SeedsKnown
<1>1. SeedInv => SeedsKnown
    BY DEF SeedInv, SeedsKnown
<1> QED
    BY <1>1, SwapInvariant, PTL

-----------------------------------------------------------------------------
(***************************************************************************)
(* No circle of waiting tasks.                                             *)
(***************************************************************************)
\* What a task holds is of a lower rank than what it waits for.
LEMMA HeldBelow ==
    ASSUME TypeOK, WaitInv, NEW t \in Tasks, NEW l \in Locks, NEW m \in Locks,
           Holds(t, l), WaitsFor(t, m)
    PROVE  \/ Rank(l) < Rank(m)
           \/ JoinInverted(t) /\ ~ Plain(MyProgram(t))
           \/ ReadsAgain(t) /\ ~ Plain(MyProgram(t))
<1> DEFINE s == MyProgram(t)
<1>1. /\ s \in Seq(Ops) /\ InOrder(s) /\ Joins(s) /\ Len(s) \in Nat
      /\ at[t] \in Nat /\ at[t] \in 1..(Len(s) + 1)
    BY MyProgramType DEF Fragment, WaitInv, AtInv, TypeOK
<1>2. l \in Taken(s, at[t]) /\ (l = m => ReadsAgain(t) /\ ~ Plain(s))
    BY DEF WaitInv, GuardInv, ReadsAgain
<1>3. l = "delta" /\ m = "delta" => ReadsAgain(t) /\ ~ Plain(s)
    BY <1>2
<1>4. PICK i \in DOMAIN queue[m] : queue[m][i].task = t
    BY DEF WaitsFor
<1> DEFINE mode == queue[m][i].mode
<1>5. Asks(t, at[t], m, mode)
    BY <1>4 DEF WaitInv, QueueInv
<1> HIDE DEF mode
<1>6. CASE AsksBy(s, at[t] - 1, m, mode)
    <2> DEFINE p == at[t] - 1
    <2>1. p \in 1..Len(s) /\ p + 1 = at[t] /\ Takes(s[p]) /\ s[p][2] = m
        BY <1>1, <1>6 DEF AsksBy
    <2> HIDE DEF p, s
    <2>2. Taken(s, at[t]) = Taken(s, p) \cup {m}
        BY <1>1, <2>1, TakenNext
    <2>3. l \in Taken(s, p) => Rank(l) < Rank(m) \/ (l = "delta" /\ m = "delta")
        BY <1>1, <2>1 DEF InOrder
    <2> QED
        BY <1>2, <1>3, <2>2, <2>3 DEF s
<1>7. CASE AsksBy(s, at[t] - 2, m, mode) /\ s[at[t] - 1][1] = "join"
    <2> DEFINE p == at[t] - 2  q == at[t] - 1
    <2>1. p \in 1..Len(s) /\ Takes(s[p]) /\ s[p][2] = m
        BY <1>7 DEF AsksBy
    <2>2. q \in 1..Len(s) /\ p + 1 = q /\ q + 1 = at[t] /\ q - 1 = p
        BY <1>1, <2>1
    <2>3. s[q][1] = "join"
        BY <1>7
    <2> HIDE DEF p, q, s
    <2>4. s[p] = <<"read", "hnsw">> /\ s[q] = <<"join", "edge_hnsw">>
        BY <1>1, <2>2, <2>3 DEF Joins
    <2>5. m = "hnsw" /\ Takes(s[q]) /\ s[q][2] = "edge_hnsw"
        BY <2>1, <2>4 DEF Takes
    <2>6. Taken(s, q) = Taken(s, p) \cup {m}
        BY <1>1, <2>1, <2>2, TakenNext
    <2>7. Taken(s, at[t]) = Taken(s, q) \cup {"edge_hnsw"}
        BY <1>1, <2>2, <2>5, TakenNext
    <2>8. l \in Taken(s, p) => Rank(l) < Rank(m) \/ (l = "delta" /\ m = "delta")
        BY <1>1, <2>1 DEF InOrder
    <2>9. ~ Plain(s)
        BY <2>2, <2>3 DEF Plain
    <2>10. l = "edge_hnsw" => JoinInverted(t)
        BY <2>5 DEF JoinInverted
    <2> QED
        BY <1>2, <1>3, <2>6, <2>7, <2>8, <2>9, <2>10 DEF s
<1> QED
    BY <1>5, <1>6, <1>7 DEF Asks

\* Who waits to write waits for nothing else.
LEMMA WriterWaitsOnce ==
    ASSUME TypeOK, WaitInv, NEW l \in Locks, NEW i \in DOMAIN queue[l],
           queue[l][i].mode = "write", NEW m \in Locks, WaitsFor(queue[l][i].task, m)
    PROVE  m = l
<1> DEFINE t == queue[l][i].task  s == MyProgram(t)
<1>1. t \in Tasks /\ Asks(t, at[t], l, "write")
    BY TypeOKParts, QueueTypes DEF WaitInv, QueueInv
<1>2. PICK j \in DOMAIN queue[m] : queue[m][j].task = t
    BY DEF WaitsFor
<1>3. Asks(t, at[t], m, queue[m][j].mode)
    BY <1>2 DEF WaitInv, QueueInv
<1>4. Joins(s) /\ Len(s) \in Nat /\ at[t] \in 1..(Len(s) + 1)
    BY <1>1, MyProgramType DEF Fragment, WaitInv, AtInv
<1> HIDE DEF t
<1>5. ~ (AsksBy(s, at[t] - 2, l, "write") /\ s[at[t] - 1][1] = "join")
    <2> SUFFICES ASSUME AsksBy(s, at[t] - 2, l, "write"), s[at[t] - 1][1] = "join"
                 PROVE  FALSE
        OBVIOUS
    <2> DEFINE p == at[t] - 2  q == at[t] - 1
    <2>1. p \in 1..Len(s) /\ ModeOf(s[p]) = "write" /\ s[q][1] = "join"
        BY DEF AsksBy
    <2>2. q \in 1..Len(s) /\ q - 1 = p
        BY <1>4, <2>1
    <2> HIDE DEF p, q, s
    <2>3. s[p] = <<"read", "hnsw">>
        BY <1>4, <2>1, <2>2 DEF Joins
    <2> QED
        BY <2>1, <2>3 DEF ModeOf
<1>6. AsksBy(s, at[t] - 1, l, "write")
    BY <1>1, <1>5 DEF Asks
<1>7. s[at[t] - 1][2] = l /\ s[at[t] - 1][1] = "write"
    BY <1>6 DEF AsksBy, ModeOf
<1>8. AsksBy(s, at[t] - 1, m, queue[m][j].mode)
    BY <1>3, <1>7 DEF Asks
<1> QED
    BY <1>7, <1>8 DEF AsksBy

\* t waits for l and cannot get it before u lets go of it or has had it.
BlockedAt(t, u, l) ==
    \E i \in DOMAIN queue[l] :
        /\ queue[l][i].task = t
        /\ \/ writer[l] = u
           \/ queue[l][i].mode = "write" /\ readers[l][u] > 0
           \/ \E j \in DOMAIN queue[l] :
                 /\ queue[l][j].task = u /\ queue[l][j].mode = "write"
                 /\ j < i \/ (l = "delta" /\ queue[l][i].mode = "read")

\* Where all of S wait for each other, some of them wait at a lock of a higher rank.
LEMMA BlockedHigher ==
    ASSUME TypeOK, WaitInv, NEW S \in SUBSET Tasks,
           \A t \in S : ~ JoinInverted(t) /\ ~ ReadsAgain(t),
           \A t \in S : \E u \in S : BlockedBy(t, u),
           NEW l \in Locks, \E t, u \in S : BlockedAt(t, u, l)
    PROVE  \E m \in Locks : Rank(l) < Rank(m) /\ \E t, u \in S : BlockedAt(t, u, m)
<1>1. \A t \in S : \E u \in S : \E m \in Locks : BlockedAt(t, u, m)
    BY DEF BlockedBy, BlockedAt
<1>2. \A t, u, m : BlockedAt(t, u, m) => WaitsFor(t, m)
    BY DEF BlockedAt, WaitsFor
<1>3. ASSUME NEW u \in S, Holds(u, l)
      PROVE  \E m \in Locks : Rank(l) < Rank(m) /\ \E t, v \in S : BlockedAt(t, v, m)
    <2>1. PICK v \in S, m \in Locks : BlockedAt(u, v, m)
        BY <1>1
    <2>2. u \in Tasks /\ WaitsFor(u, m)
        BY <1>2, <2>1
    <2>3. Rank(l) < Rank(m)
        BY <1>3, <2>2, HeldBelow
    <2> QED
        BY <2>1, <2>3
<1> DEFINE q == queue[l]
           W == {i \in DOMAIN q : q[i].task \in S /\ q[i].mode = "write"}
<1>4. DOMAIN q \subseteq Nat /\ OneEach(q)
    <2>1. DOMAIN q = 1..Len(q) /\ Len(q) \in Nat
        BY TypeOKParts, QueueTypes
    <2>2. OneEach(q)
        BY DEF WaitInv, QueueInv
    <2> QED
        BY <2>1, <2>2
<1>5. CASE W = {}
    <2>1. PICK t \in S, u \in S : BlockedAt(t, u, l)
        OBVIOUS
    <2>2. \A j \in DOMAIN queue[l] : ~ (queue[l][j].task = u /\ queue[l][j].mode = "write")
        BY <1>5
    <2>3. writer[l] = u \/ readers[l][u] > 0
        BY <2>1, <2>2 DEF BlockedAt
    <2> QED
        BY <1>3, <2>3 DEF Holds
<1>6. CASE W # {}
    <2>1. PICK i \in W : \A j \in W : i <= j
        BY <1>4, <1>6, LeastOfNat
    <2> DEFINE t == q[i].task
    <2>2. i \in DOMAIN q /\ t \in S /\ q[i].mode = "write"
        BY <2>1
    <2>3. PICK u \in S, m \in Locks : BlockedAt(t, u, m)
        BY <1>1, <2>2
    <2>4. m = l
        BY <1>2, <2>2, <2>3, WriterWaitsOnce
    <2>5. BlockedAt(t, u, l)
        BY <2>3, <2>4
    <2>6. \A k \in DOMAIN q : q[k].task = t => k = i
        BY <1>4, <2>2 DEF OneEach
    <2>7. \/ writer[l] = u
          \/ readers[l][u] > 0
          \/ \E j \in DOMAIN q : q[j].task = u /\ q[j].mode = "write" /\ j < i
        <3>1. PICK k \in DOMAIN queue[l] :
                 /\ queue[l][k].task = t
                 /\ \/ writer[l] = u
                    \/ queue[l][k].mode = "write" /\ readers[l][u] > 0
                    \/ \E j \in DOMAIN queue[l] :
                          /\ queue[l][j].task = u /\ queue[l][j].mode = "write"
                          /\ j < k \/ (l = "delta" /\ queue[l][k].mode = "read")
            BY <2>5 DEF BlockedAt
        <3>2. k = i
            BY <2>6, <3>1
        <3> QED
            BY <2>2, <3>1, <3>2
    <2>8. ~ \E j \in DOMAIN q : q[j].task = u /\ q[j].mode = "write" /\ j < i
        <3> SUFFICES ASSUME NEW j \in DOMAIN q, q[j].task = u, q[j].mode = "write", j < i
                     PROVE  FALSE
            OBVIOUS
        <3>1. j \in W
            OBVIOUS
        <3>2. i <= j /\ i \in Nat /\ j \in Nat
            BY <1>4, <2>1, <2>2, <3>1
        <3> QED
            BY <3>2
    <2>9. Holds(u, l)
        BY <2>7, <2>8 DEF Holds
    <2> QED
        BY <1>3, <2>9
<1> QED
    BY <1>5, <1>6

\* Whatever runs, a set of tasks in which nobody asks out of order has one that waits
\* for none of the others: the order in which the handlers take their locks is sound.
OrderIsSound ==
    \A S \in SUBSET Tasks :
        S # {} /\ (\A t \in S : ~ JoinInverted(t) /\ ~ ReadsAgain(t))
            => \E t \in S : \A u \in S : ~ BlockedBy(t, u)

LEMMA NoCircle ==
    ASSUME TypeOK, WaitInv
    PROVE  OrderIsSound
<1> SUFFICES ASSUME NEW S \in SUBSET Tasks, S # {},
                    \A t \in S : ~ JoinInverted(t) /\ ~ ReadsAgain(t),
                    \A t \in S : \E u \in S : BlockedBy(t, u)
             PROVE  FALSE
    BY DEF OrderIsSound
<1> DEFINE A(l) == \E t, u \in S : BlockedAt(t, u, l)
<1>1. \A l \in Locks : A(l) => \E m \in Locks : Rank(l) < Rank(m) /\ A(m)
    BY BlockedHigher
<1>2. \E l \in Locks : A(l)
    <2>1. PICK t \in S, u \in S : BlockedBy(t, u)
        OBVIOUS
    <2>2. PICK l \in Locks : BlockedAt(t, u, l)
        BY <2>1 DEF BlockedBy, BlockedAt
    <2> QED
        BY <2>2
<1> HIDE DEF A
<1>3. /\ Rank("graph") = 1 /\ Rank("hnsw") = 2 /\ Rank("edge_hnsw") = 3
      /\ Rank("store") = 4 /\ Rank("delta") = 5
    BY DEF Rank
<1>4. Locks = {"graph", "hnsw", "edge_hnsw", "store", "delta"}
    BY DEF Locks, IndexLocks
<1>5. ~ A("delta")
    BY <1>1, <1>3, <1>4
<1>6. ~ A("store")
    BY <1>1, <1>3, <1>4, <1>5
<1>7. ~ A("edge_hnsw")
    BY <1>1, <1>3, <1>4, <1>5, <1>6
<1>8. ~ A("hnsw")
    BY <1>1, <1>3, <1>4, <1>5, <1>6, <1>7
<1>9. ~ A("graph")
    BY <1>1, <1>3, <1>4, <1>5, <1>6, <1>7, <1>8
<1> QED
    BY <1>2, <1>4, <1>5, <1>6, <1>7, <1>8, <1>9

\* Any number of queries, ingests, admin requests and merges: those of them that do not
\* ask out of order never wait for each other in a circle.
THEOREM LockOrderIsSound == Spec => []OrderIsSound
BY NoCircle, WaitInvariant, PTL

\* Without search_hnsw's two reads at once and graph_stats's second guard of the delta
\* nobody waits in a circle: the deadlocks that two runs show are of these handlers.
THEOREM OthersNeverDeadlock ==
    ASSUME \A t \in Tasks : Kind[t] \in {"node", "ingest", "node_lookup", "edge_search", "merge"}
    PROVE  Spec => []NoWaitCycle
<1>1. ASSUME TypeOK, WaitInv PROVE NoWaitCycle
    <2>1. \A t \in Tasks : Plain(MyProgram(t))
        BY Programs DEF MyProgram
    <2>2. {"hnsw", "edge_hnsw", "delta"} \subseteq Locks
        BY DEF Locks, IndexLocks
    <2>3. \A t \in Tasks : ~ JoinInverted(t)
        <3> SUFFICES ASSUME NEW t \in Tasks, WaitsFor(t, "hnsw"), Holds(t, "edge_hnsw")
                     PROVE  FALSE
            BY DEF JoinInverted
        <3>1. Rank("edge_hnsw") < Rank("hnsw")
            BY <1>1, <2>1, <2>2, HeldBelow
        <3> QED
            BY <3>1 DEF Rank
    <2>4. \A t \in Tasks : ~ ReadsAgain(t)
        BY <1>1, <2>1, <2>2 DEF ReadsAgain, WaitInv, GuardInv
    <2> QED
        BY <1>1, <2>3, <2>4, NoCircle DEF OrderIsSound, NoWaitCycle
<1> QED
    BY <1>1, WaitInvariant, PTL

=============================================================================
