--------------------------- MODULE DagOrderProofs ---------------------------
(***************************************************************************)
(* What _topological_order computes, for every request.  The provers       *)
(* cannot instantiate a scheme of induction, so the inductions below go    *)
(* over the set of numbers for which the claim holds.                      *)
(***************************************************************************)
EXTENDS DagOrder, FiniteSetTheorems, WellFoundedInduction, TLAPS

LEMMA LeastElement ==
    ASSUME NEW S \in SUBSET Nat, S # {}
    PROVE  \E m \in S : \A k \in S : m <= k
<1>1. PICK less : less = OpToRel(<, Nat)
  OBVIOUS
<1>2. less = {ss \in Nat \X Nat : ss[1] < ss[2]}
  BY <1>1, Zenon DEF OpToRel
<1>3. PICK m \in S : \A k \in S : <<k, m>> \notin less
  BY <1>1, NatLessThanWellFounded, WFMin, Zenon
<1>4. ASSUME NEW k \in S PROVE m <= k
  <2>1. <<k, m>> \in Nat \X Nat /\ <<k, m>>[1] = k /\ <<k, m>>[2] = m /\ k \in Nat /\ m \in Nat
    OBVIOUS
  <2>2. ~(k < m)
    BY <1>2, <1>3, <2>1
  <2> QED
    BY <2>1, <2>2
<1> QED
  BY <1>4

\* A set of numbers that has 0 and every successor has all of them.
LEMMA SetInduction ==
    ASSUME NEW S, 0 \in S, \A n \in S \cap Nat : n + 1 \in S
    PROVE  Nat \subseteq S
<1> SUFFICES ASSUME ~(Nat \subseteq S) PROVE FALSE
  OBVIOUS
<1>1. PICK m \in Nat \ S : \A k \in Nat \ S : m <= k
  BY LeastElement
<1>2. m - 1 \in Nat /\ m - 1 \in S
  BY <1>1
<1>3. m - 1 + 1 \in S
  BY <1>2
<1> QED
  BY <1>1, <1>3

-----------------------------------------------------------------------------
(***************************************************************************)
(* Ascending.                                                              *)
(***************************************************************************)
\* What a list has, and that it has nothing twice.
Listed(seq) == {seq[i] : i \in 1 .. Len(seq)}

Once(seq) == \A i, j \in 1 .. Len(seq) : seq[i] = seq[j] => i = j

\* A list of elements of S that has those in A, and each of them once.
Lists(seq, S, A) == seq \in Seq(S) /\ Once(seq) /\ Listed(seq) = A

Sorts(seq, S) ==
    /\ seq \in [1 .. Cardinality(S) -> S]
    /\ \A i, j \in DOMAIN seq : i < j => seq[i] < seq[j]

LEMMA IntervalCounts ==
    ASSUME NEW n \in Nat
    PROVE  IsFiniteSet(1 .. n) /\ Cardinality(1 .. n) = n
<1>1. IsFiniteSet(1 .. n) /\ Cardinality(1 .. n) = IF 1 > n THEN 0 ELSE n - 1 + 1
  BY FS_Interval
<1> QED
  BY <1>1

LEMMA SortExists ==
    ASSUME NEW m \in Nat, NEW S \in SUBSET (1 .. m)
    PROVE  \E seq : Sorts(seq, S)
<1> DEFINE Good == {k \in Nat : \A T \in SUBSET (1 .. k) : \E seq : Sorts(seq, T)}
<1>1. 0 \in Good
  <2> SUFFICES ASSUME NEW T \in SUBSET (1 .. 0) PROVE \E seq : Sorts(seq, T)
    OBVIOUS
  <2>1. T = {}
    <3>1. \A x \in T : x \in 1 .. 0
      OBVIOUS
    <3> QED
      BY <3>1
  <2> HIDE DEF Good
  <2>2. Sorts([i \in 1 .. 0 |-> i], T)
    <3>1. Cardinality(T) = 0
      BY <2>1, FS_EmptySet
    <3> QED
      BY <2>1, <3>1 DEF Sorts
  <2> QED
    BY <2>2
<1>2. ASSUME NEW k \in Good \cap Nat PROVE k + 1 \in Good
  <2> SUFFICES ASSUME NEW T \in SUBSET (1 .. k + 1) PROVE \E seq : Sorts(seq, T)
    OBVIOUS
  <2> DEFINE U == T \ {k + 1}
  <2>1. U \in SUBSET (1 .. k)
    OBVIOUS
  <2>2. PICK seq : Sorts(seq, U)
    BY <2>1
  <2>3. CASE k + 1 \notin T
    <3>1. U = T
      BY <2>3
    <3> QED
      BY <2>2, <3>1
  <2>4. CASE k + 1 \in T
    <3>1. IsFiniteSet(U) /\ Cardinality(U) \in Nat /\ Cardinality(T) = Cardinality(U) + 1
      <4>1. IsFiniteSet(1 .. k)
        BY FS_Interval
      <4>2. IsFiniteSet(U)
        BY <2>1, <4>1, FS_Subset
      <4>3. T = U \cup {k + 1} /\ k + 1 \notin U
        BY <2>4
      <4> QED
        BY <4>2, <4>3, FS_AddElement, FS_CardinalityType
    <3> PICK c \in Nat : c = Cardinality(U)
      BY <3>1
    <3> DEFINE new == [i \in 1 .. c + 1 |-> IF i = c + 1 THEN k + 1 ELSE seq[i]]
    <3>2. seq \in [1 .. c -> U] /\ \A i, j \in 1 .. c : i < j => seq[i] < seq[j]
      BY <2>2 DEF Sorts
    <3>3. new \in [1 .. c + 1 -> T]
      <4> SUFFICES ASSUME NEW i \in 1 .. c + 1 PROVE new[i] \in T
        OBVIOUS
      <4>1. CASE i = c + 1
        BY <2>4, <4>1
      <4>2. CASE i # c + 1
        <5>1. i \in 1 .. c
          BY <4>2
        <5>2. seq[i] \in U
          BY <3>2, <5>1
        <5> QED
          BY <4>2, <5>2
      <4> QED
        BY <4>1, <4>2
    <3>4. \A i, j \in 1 .. c + 1 : i < j => new[i] < new[j]
      <4> SUFFICES ASSUME NEW i \in 1 .. c + 1, NEW j \in 1 .. c + 1, i < j
                   PROVE  new[i] < new[j]
        OBVIOUS
      <4>1. i \in 1 .. c /\ new[i] = seq[i]
        OBVIOUS
      <4>2. seq[i] \in U
        BY <3>2, <4>1
      <4>3. seq[i] \in 1 .. k
        BY <2>1, <4>2
      <4>4. CASE j = c + 1
        <5>1. new[j] = k + 1
          BY <4>4
        <5> QED
          BY <4>1, <4>3, <5>1
      <4>5. CASE j # c + 1
        <5>1. j \in 1 .. c /\ new[j] = seq[j]
          BY <4>5
        <5> QED
          BY <3>2, <4>1, <5>1
      <4> QED
        BY <4>4, <4>5
    <3> HIDE DEF new
    <3>5. DOMAIN new = 1 .. c + 1 /\ Cardinality(T) = c + 1
      BY <3>1, <3>3
    <3>6. Sorts(new, T)
      BY <3>3, <3>4, <3>5 DEF Sorts
    <3> QED
      BY <3>6
  <2> QED
    BY <2>3, <2>4
<1> HIDE DEF Good
<1>3. m \in Good
  BY <1>1, <1>2, SetInduction
<1> QED
  BY <1>3 DEF Good

\* Ascending lists every position of a set once.
LEMMA AscendingLists ==
    ASSUME NEW m \in Nat, NEW S \in SUBSET (1 .. m), NEW seq, seq = Ascending(S)
    PROVE  seq \in Seq(S) /\ Once(seq) /\ Listed(seq) = S
<1>1. Sorts(seq, S)
  BY SortExists DEF Ascending, Sorts
<1>2. IsFiniteSet(S) /\ Cardinality(S) \in Nat
  <2>1. IsFiniteSet(1 .. m)
    BY FS_Interval
  <2> QED
    BY <2>1, FS_Subset, FS_CardinalityType
<1> PICK c \in Nat : c = Cardinality(S)
  BY <1>2
<1>3. seq \in [1 .. c -> S] /\ \A i, j \in 1 .. c : i < j => seq[i] < seq[j]
  BY <1>1 DEF Sorts
<1>4. \A i, j \in 1 .. c : seq[i] = seq[j] => i = j
  <2> SUFFICES ASSUME NEW i \in 1 .. c, NEW j \in 1 .. c, i # j PROVE seq[i] # seq[j]
    OBVIOUS
  <2>1. seq[i] \in S /\ seq[j] \in S
    BY <1>3
  <2>2. seq[i] \in 1 .. m /\ seq[j] \in 1 .. m
    BY <2>1
  <2>3. i < j \/ j < i
    OBVIOUS
  <2>4. seq[i] < seq[j] \/ seq[j] < seq[i]
    BY <1>3, <2>3
  <2> QED
    BY <2>2, <2>4
<1>5. seq \in Surjection(1 .. c, S)
  <2>1. seq \in Injection(1 .. c, S)
    BY <1>3, <1>4 DEF Injection, IsInjective
  <2>2. Cardinality(1 .. c) = c
    BY FS_Interval
  <2> QED
    BY <1>2, <2>1, <2>2, FS_Injection
<1>6. Len(seq) = c /\ seq \in Seq(S)
  BY <1>3
<1>7. Once(seq)
  BY <1>4, <1>6 DEF Once
<1>8. \A x \in S : \E i \in 1 .. c : seq[i] = x
  BY <1>5 DEF Surjection
<1>9. Listed(seq) = S
  BY <1>3, <1>6, <1>8 DEF Listed
<1> QED
  BY <1>6, <1>7, <1>9

-----------------------------------------------------------------------------
(***************************************************************************)
(* After: the recursive function exists, and goes round by round.          *)
(***************************************************************************)
Fixes(g, steps, m) ==
    g = [n \in 0 .. m |-> IF n = 0 THEN Begin(steps) ELSE Round(steps, g[n - 1])]

LEMMA FixExists ==
    ASSUME NEW steps, NEW m \in Nat
    PROVE  \E g : Fixes(g, steps, m)
<1> DEFINE Good == {k \in Nat : \E g : Fixes(g, steps, k)}
<1>1. 0 \in Good
  <2> DEFINE g == [n \in 0 .. 0 |-> Begin(steps)]
  <2>1. Fixes(g, steps, 0)
    BY DEF Fixes
  <2> QED
    BY <2>1
<1>2. ASSUME NEW k \in Good \cap Nat PROVE k + 1 \in Good
  <2>1. PICK g : Fixes(g, steps, k)
    BY <1>2
  <2> DEFINE new == [n \in 0 .. k + 1 |-> IF n = k + 1 THEN Round(steps, g[k]) ELSE g[n]]
             fix == [n \in 0 .. k + 1 |->
                        IF n = 0 THEN Begin(steps) ELSE Round(steps, new[n - 1])]
  <2>2. ASSUME NEW n \in 0 .. k + 1 PROVE new[n] = fix[n]
    <3>1. CASE n = 0
      BY <2>1, <3>1 DEF Fixes
    <3>2. CASE n = k + 1
      <4>1. new[n] = Round(steps, g[k])
        BY <3>2
      <4>2. n - 1 = k /\ n # 0
        BY <3>2
      <4>3. new[n - 1] = g[k]
        BY <4>2
      <4> QED
        BY <4>1, <4>2, <4>3
    <3>3. CASE n \in 1 .. k
      <4>1. new[n] = g[n] /\ n - 1 \in 0 .. k /\ n \in 0 .. k /\ n # 0
        BY <3>3
      <4>2. new[n - 1] = g[n - 1]
        BY <4>1
      <4>3. g[n] = Round(steps, g[n - 1])
        BY <2>1, <4>1 DEF Fixes
      <4> QED
        BY <4>1, <4>2, <4>3
    <3> QED
      BY <3>1, <3>2, <3>3
  <2>3. new = fix
    BY <2>2
  <2> HIDE DEF new
  <2>4. Fixes(new, steps, k + 1)
    BY <2>3 DEF Fixes
  <2> QED
    BY <2>4
<1> HIDE DEF Good
<1>3. m \in Good
  BY <1>1, <1>2, SetInduction
<1> QED
  BY <1>3 DEF Good

LEMMA AfterRounds ==
    ASSUME NEW steps, Len(steps) \in Nat
    PROVE  /\ After(steps)[0] = Begin(steps)
           /\ \A n \in 0 .. Len(steps) - 1 : After(steps)[n + 1] = Round(steps, After(steps)[n])
<1>1. Fixes(After(steps), steps, Len(steps))
  BY FixExists DEF Fixes, After
<1> PICK g : g = After(steps)
  OBVIOUS
<1>2. Fixes(g, steps, Len(steps))
  BY <1>1
<1>3. g[0] = Begin(steps)
  BY <1>2 DEF Fixes
<1>4. ASSUME NEW n \in 0 .. Len(steps) - 1 PROVE g[n + 1] = Round(steps, g[n])
  <2>1. n + 1 \in 0 .. Len(steps) /\ n + 1 # 0 /\ n + 1 - 1 = n
    OBVIOUS
  <2> QED
    BY <1>2, <2>1 DEF Fixes
<1> QED
  BY <1>3, <1>4

-----------------------------------------------------------------------------
(***************************************************************************)
(* Lists of positions.                                                     *)
(***************************************************************************)
LEMMA HeadTailLists ==
    ASSUME NEW S, NEW seq \in Seq(S), seq # << >>, Once(seq)
    PROVE  /\ Head(seq) \in S /\ Tail(seq) \in Seq(S) /\ Once(Tail(seq))
           /\ Head(seq) \notin Listed(Tail(seq))
           /\ Listed(seq) = {Head(seq)} \cup Listed(Tail(seq))
<1>1. /\ Len(seq) \in Nat \ {0} /\ Head(seq) = seq[1] /\ Head(seq) \in S
      /\ Tail(seq) \in Seq(S) /\ Len(Tail(seq)) = Len(seq) - 1
      /\ \A i \in 1 .. Len(seq) - 1 : Tail(seq)[i] = seq[i + 1]
  OBVIOUS
<1> PICK t : t = Tail(seq)
  OBVIOUS
<1> PICK n \in Nat \ {0} : n = Len(seq)
  BY <1>1
<1>2. Len(t) = n - 1 /\ \A i \in 1 .. n - 1 : t[i] = seq[i + 1]
  BY <1>1
<1>3. Once(t)
  <2> SUFFICES ASSUME NEW i \in 1 .. n - 1, NEW j \in 1 .. n - 1, t[i] = t[j] PROVE i = j
    BY <1>2 DEF Once
  <2>1. i + 1 \in 1 .. n /\ j + 1 \in 1 .. n /\ seq[i + 1] = seq[j + 1]
    BY <1>2
  <2>2. i + 1 = j + 1
    BY <2>1 DEF Once
  <2> QED
    BY <2>2
<1>4. seq[1] \notin Listed(t)
  <2> SUFFICES ASSUME NEW i \in 1 .. n - 1, t[i] = seq[1] PROVE FALSE
    BY <1>2 DEF Listed
  <2>1. i + 1 \in 1 .. n /\ 1 \in 1 .. n /\ seq[i + 1] = seq[1] /\ i + 1 # 1
    BY <1>2
  <2> QED
    BY <2>1 DEF Once
<1>5. Listed(seq) = {seq[1]} \cup Listed(t)
  <2>1. ASSUME NEW x \in Listed(seq) PROVE x \in {seq[1]} \cup Listed(t)
    <3>1. PICK i \in 1 .. n : x = seq[i]
      BY DEF Listed
    <3>2. i # 1 => i - 1 \in 1 .. n - 1 /\ x = t[i - 1]
      BY <1>2, <3>1
    <3> QED
      BY <1>2, <3>1, <3>2 DEF Listed
  <2>2. ASSUME NEW x \in {seq[1]} \cup Listed(t) PROVE x \in Listed(seq)
    <3>1. 1 \in 1 .. n
      OBVIOUS
    <3>2. ASSUME NEW i \in 1 .. n - 1 PROVE t[i] \in Listed(seq)
      BY <1>2 DEF Listed
    <3> QED
      BY <1>2, <3>1, <3>2 DEF Listed
  <2> QED
    BY <2>1, <2>2
<1> QED
  BY <1>1, <1>3, <1>4, <1>5

LEMMA ConcatLists ==
    ASSUME NEW S, NEW A, NEW B, A \cap B = {},
           NEW s, Lists(s, S, A), NEW t, Lists(t, S, B)
    PROVE  Lists(s \o t, S, A \cup B)
<1>0. /\ s \in Seq(S) /\ Once(s) /\ A = Listed(s)
      /\ t \in Seq(S) /\ Once(t) /\ B = Listed(t)
  BY DEF Lists
<1> PICK u : u = s \o t
  OBVIOUS
<1> PICK m \in Nat, n \in Nat : m = Len(s) /\ n = Len(t)
  BY <1>0
<1>1. /\ u \in Seq(S) /\ Len(u) = m + n
      /\ \A i \in 1 .. m : u[i] = s[i]
      /\ \A i \in 1 .. m + n : i > m => u[i] = t[i - m]
  BY <1>0
<1>2. \A i \in 1 .. m : u[i] \in Listed(s)
  BY <1>1 DEF Listed
<1>3. ASSUME NEW i \in 1 .. m + n, i > m PROVE i - m \in 1 .. n /\ u[i] = t[i - m] /\ u[i] \in Listed(t)
  BY <1>1, <1>3 DEF Listed
<1>4. Once(u)
  <2> SUFFICES ASSUME NEW i \in 1 .. m + n, NEW j \in 1 .. m + n, u[i] = u[j] PROVE i = j
    BY <1>1 DEF Once
  <2>1. CASE i <= m /\ j <= m
    BY <1>0, <1>1, <2>1 DEF Once
  <2>2. CASE i > m /\ j > m
    <3>1. i - m \in 1 .. n /\ j - m \in 1 .. n /\ t[i - m] = t[j - m]
      BY <1>3, <2>2
    <3>2. i - m = j - m
      BY <1>0, <3>1 DEF Once
    <3> QED
      BY <3>2
  <2>3. CASE i <= m /\ j > m
    BY <1>0, <1>2, <1>3, <2>3
  <2>4. CASE i > m /\ j <= m
    BY <1>0, <1>2, <1>3, <2>4
  <2> QED
    BY <2>1, <2>2, <2>3, <2>4
<1>5. Listed(u) = Listed(s) \cup Listed(t)
  <2>1. ASSUME NEW x \in Listed(u) PROVE x \in Listed(s) \cup Listed(t)
    <3>1. PICK i \in 1 .. m + n : x = u[i]
      BY <1>1 DEF Listed
    <3> QED
      BY <1>2, <1>3, <3>1
  <2>2. ASSUME NEW i \in 1 .. m PROVE s[i] \in Listed(u)
    BY <1>1 DEF Listed
  <2>3. ASSUME NEW i \in 1 .. n PROVE t[i] \in Listed(u)
    <3>1. i + m \in 1 .. m + n /\ i + m > m /\ i + m - m = i
      OBVIOUS
    <3>2. u[i + m] = t[i]
      BY <1>1, <3>1
    <3> QED
      BY <1>1, <3>1, <3>2 DEF Listed
  <2>4. ASSUME NEW x \in Listed(s) \cup Listed(t) PROVE x \in Listed(u)
    BY <2>2, <2>3 DEF Listed
  <2> QED
    BY <2>1, <2>4
<1>6. Lists(u, S, A \cup B)
  BY <1>0, <1>1, <1>4, <1>5 DEF Lists
<1> QED
  BY <1>6

LEMMA AppendLists ==
    ASSUME NEW S, NEW A, NEW s, Lists(s, S, A), NEW x \in S, x \notin A
    PROVE  Lists(Append(s, x), S, A \cup {x})
<1>1. Append(s, x) = s \o <<x>>
  BY DEF Lists
<1>2. Lists(<<x>>, S, {x})
  BY DEF Lists, Once, Listed
<1>3. A \cap {x} = {}
  OBVIOUS
<1>4. Lists(s \o <<x>>, S, A \cup {x})
  BY <1>2, <1>3, ConcatLists
<1> QED
  BY <1>1, <1>4

-----------------------------------------------------------------------------
(***************************************************************************)
(* The loop of _topological_order.                                         *)
(***************************************************************************)
\* What the definitions need of a request: lists are lists.
IsRequest(steps) ==
    /\ Len(steps) \in Nat /\ DOMAIN steps = 1 .. Len(steps)
    /\ \A q \in DOMAIN steps : /\ Len(steps[q].deps) \in Nat
                               /\ DOMAIN steps[q].deps = 1 .. Len(steps[q].deps)

\* The entries of q's dependsOn that name no position in done.
Pending(steps, done, q) ==
    {i \in DOMAIN steps[q].deps : \A p \in done : steps[p].node # steps[q].deps[i]}

\* After n rounds: what is placed and what is ready are exactly the steps
\* without a pending entry, the counters count the pending entries, and every
\* step is placed behind the steps it depends on.
LoopInv(steps, s, n) ==
    /\ s.ready \in Seq(DOMAIN steps) /\ Once(s.ready)
    /\ s.order \in Seq(DOMAIN steps) /\ Once(s.order)
    /\ Listed(s.order) \cap Listed(s.ready) = {}
    /\ \A q \in DOMAIN steps :
           s.open[q] = Cardinality(Pending(steps, Listed(s.order), q))
    /\ \A q \in DOMAIN steps : s.open[q] = 0 <=> q \in Listed(s.order) \cup Listed(s.ready)
    /\ \A k \in 1 .. Len(s.order) : \A i \in DOMAIN steps[s.order[k]].deps :
           \E j \in 1 .. k - 1 : steps[s.order[j]].node = steps[s.order[k]].deps[i]
    /\ Len(s.order) = n \/ (Len(s.order) < n /\ s.ready = << >>)

LEMMA PendingCounts ==
    ASSUME NEW steps, IsRequest(steps), NEW q \in DOMAIN steps, NEW done
    PROVE  /\ IsFiniteSet(Pending(steps, done, q))
           /\ Cardinality(Pending(steps, done, q)) \in Nat
           /\ Cardinality(Pending(steps, done, q)) = 0 <=> Pending(steps, done, q) = {}
<1>1. IsFiniteSet(DOMAIN steps[q].deps) /\ Pending(steps, done, q) \in SUBSET DOMAIN steps[q].deps
  <2>1. IsFiniteSet(1 .. Len(steps[q].deps))
    BY IntervalCounts DEF IsRequest
  <2> QED
    BY <2>1 DEF IsRequest, Pending
<1>2. IsFiniteSet(Pending(steps, done, q))
  BY <1>1, FS_Subset
<1> QED
  BY <1>2, FS_CardinalityType, FS_EmptySet

LEMMA BeginInv ==
    ASSUME NEW steps, IsRequest(steps)
    PROVE  LoopInv(steps, Begin(steps), 0)
<1> PICK s : s = Begin(steps)
  OBVIOUS
<1> PICK free : free = {q \in DOMAIN steps : Indegree(steps)[q] = 0}
  OBVIOUS
<1>1. s.order = << >> /\ s.open = Indegree(steps) /\ s.ready = Ascending(free)
  BY DEF Begin
<1>2. /\ s.ready \in Seq(free) /\ Once(s.ready) /\ Listed(s.ready) = free
  <2>1. Len(steps) \in Nat /\ free \in SUBSET (1 .. Len(steps))
    BY DEF IsRequest
  <2> QED
    BY ONLY <1>1, <2>1, AscendingLists, Zenon
<1>3. s.ready \in Seq(DOMAIN steps)
  BY <1>2
<1>4. s.order \in Seq(DOMAIN steps) /\ Once(s.order) /\ Listed(s.order) = {} /\ Len(s.order) = 0
  BY <1>1 DEF Once, Listed
<1>5. ASSUME NEW q \in DOMAIN steps
      PROVE  s.open[q] = Cardinality(Pending(steps, Listed(s.order), q))
  <2>1. Pending(steps, Listed(s.order), q) = 1 .. Len(steps[q].deps)
    BY <1>4 DEF Pending, IsRequest
  <2>2. Cardinality(1 .. Len(steps[q].deps)) = Len(steps[q].deps)
    BY IntervalCounts DEF IsRequest
  <2> QED
    BY <1>1, <2>1, <2>2 DEF Indegree
<1>6. \A q \in DOMAIN steps : s.open[q] = 0 <=> q \in Listed(s.order) \cup Listed(s.ready)
  BY <1>1, <1>2, <1>4
<1> QED
  BY <1>2, <1>3, <1>4, <1>5, <1>6 DEF LoopInv

\* Placing p settles the entries that name it, and no others.
LEMMA PlacedCounts ==
    ASSUME NEW steps, IsRequest(steps), ~DuplicateNode(steps),
           NEW q \in DOMAIN steps, NEW done \in SUBSET DOMAIN steps,
           NEW p \in DOMAIN steps, p \notin done
    PROVE  /\ Edges(steps, p, q) \in Nat
           /\ Edges(steps, p, q) <= Cardinality(Pending(steps, done, q))
           /\ Cardinality(Pending(steps, done \cup {p}, q)) =
                  Cardinality(Pending(steps, done, q)) - Edges(steps, p, q)
<1> DEFINE P == Pending(steps, done, q)
           E == {i \in DOMAIN steps[q].deps : steps[q].deps[i] = steps[p].node}
<1>1. \A r \in done : steps[r].node # steps[p].node
  BY DEF DuplicateNode
<1>2. E \subseteq P /\ P \cap E = E
  BY <1>1 DEF Pending
<1>3. Pending(steps, done \cup {p}, q) = P \ E
  BY DEF Pending
<1>4. IsFiniteSet(P) /\ Cardinality(P) \in Nat
  BY PendingCounts
<1>5. Edges(steps, p, q) = Cardinality(E)
  BY DEF Edges
<1> HIDE DEF P, E
<1>6. IsFiniteSet(E) /\ Cardinality(E) <= Cardinality(P)
  BY <1>2, <1>4, FS_Subset
<1>7. Cardinality(E) \in Nat
  BY <1>6, FS_CardinalityType
<1>8. Cardinality(P \ E) = Cardinality(P) - Cardinality(E)
  BY <1>2, <1>4, FS_Difference
<1> QED
  BY <1>3, <1>5, <1>6, <1>7, <1>8 DEF P

LEMMA PlaceInv ==
    ASSUME NEW steps, IsRequest(steps), ~DuplicateNode(steps),
           NEW n \in Nat, NEW s, LoopInv(steps, s, n), s.ready # << >>
    PROVE  LoopInv(steps, Place(steps, s), n + 1)
<1> PICK D : D = DOMAIN steps
  OBVIOUS
<1> PICK p : p = Head(s.ready)
  OBVIOUS
<1> PICK rest : rest = Tail(s.ready)
  OBVIOUS
<1> PICK done : done = Listed(s.order)
  OBVIOUS
<1> PICK open : open = [q \in DOMAIN steps |-> s.open[q] - Edges(steps, p, q)]
  OBVIOUS
<1> PICK freed : freed = {q \in DOMAIN steps : Edges(steps, p, q) > 0 /\ open[q] = 0}
  OBVIOUS
<1> PICK t : t = Place(steps, s)
  OBVIOUS
<1>0. t.ready = rest \o Ascending(freed) /\ t.open = open /\ t.order = Append(s.order, p)
  BY DEF Place
<1>1. /\ s.ready \in Seq(D) /\ Once(s.ready) /\ s.order \in Seq(D) /\ Once(s.order)
      /\ done \cap Listed(s.ready) = {}
      /\ Len(s.order) = n
  BY DEF LoopInv
<1>2. /\ \A q \in D : s.open[q] = Cardinality(Pending(steps, done, q))
      /\ \A q \in D : s.open[q] = 0 <=> q \in done \cup Listed(s.ready)
  BY DEF LoopInv
<1>3. /\ p \in D /\ rest \in Seq(D) /\ Once(rest) /\ p \notin Listed(rest)
      /\ Listed(s.ready) = {p} \cup Listed(rest)
  BY <1>1, HeadTailLists
<1>4. done \in SUBSET D /\ p \notin done
  <2>1. \A i \in 1 .. Len(s.order) : s.order[i] \in D
    BY <1>1
  <2>2. done \in SUBSET D
    BY <2>1 DEF Listed
  <2>3. p \in Listed(s.ready)
    BY <1>3
  <2> QED
    BY <1>1, <2>2, <2>3
<1>5. /\ t.order \in Seq(D) /\ Once(t.order) /\ Listed(t.order) = done \cup {p}
  <2>1. Lists(s.order, D, done)
    BY <1>1 DEF Lists
  <2>2. Lists(t.order, D, done \cup {p})
    BY <1>0, <1>3, <1>4, <2>1, AppendLists
  <2> QED
    BY <2>2 DEF Lists
<1>6. ASSUME NEW q \in D
      PROVE  /\ open[q] = Cardinality(Pending(steps, done \cup {p}, q))
             /\ open[q] \in Nat /\ Edges(steps, p, q) \in Nat /\ s.open[q] \in Nat
             /\ Edges(steps, p, q) <= s.open[q]
             /\ open[q] = s.open[q] - Edges(steps, p, q)
  <2>1. /\ Edges(steps, p, q) \in Nat
        /\ Edges(steps, p, q) <= Cardinality(Pending(steps, done, q))
        /\ Cardinality(Pending(steps, done \cup {p}, q)) =
               Cardinality(Pending(steps, done, q)) - Edges(steps, p, q)
    BY <1>3, <1>4, PlacedCounts
  <2>2. Cardinality(Pending(steps, done, q)) \in Nat
    BY PendingCounts
  <2> QED
    BY <1>2, <2>1, <2>2
<1>7. freed \in SUBSET D /\ freed \cap (done \cup Listed(s.ready)) = {}
  BY <1>2, <1>6
<1> PICK asc : asc = Ascending(freed)
  OBVIOUS
<1>8. asc \in Seq(D) /\ Once(asc) /\ Listed(asc) = freed
  <2>1. Len(steps) \in Nat /\ freed \in SUBSET (1 .. Len(steps))
    BY <1>7 DEF IsRequest
  <2>2. asc = Ascending(freed)
    OBVIOUS
  <2>3. asc \in Seq(freed) /\ Once(asc) /\ Listed(asc) = freed
    BY ONLY <2>1, <2>2, AscendingLists
  <2>4. asc \in Seq(D)
    BY ONLY <1>7, <2>3
  <2> QED
    BY <2>3, <2>4
<1>9. t.ready \in Seq(D) /\ Once(t.ready) /\ Listed(t.ready) = Listed(rest) \cup freed
  <2>1. Lists(rest, D, Listed(rest)) /\ Lists(asc, D, freed)
    BY <1>3, <1>8 DEF Lists
  <2>2. Listed(rest) \cap freed = {}
    BY ONLY <1>3, <1>7
  <2>3. Lists(rest \o asc, D, Listed(rest) \cup freed)
    BY <2>1, <2>2, ConcatLists
  <2> QED
    BY <1>0, <2>3 DEF Lists
<1>10. Listed(t.order) \cap Listed(t.ready) = {}
  BY ONLY <1>1, <1>3, <1>4, <1>5, <1>7, <1>9
<1>11. ASSUME NEW q \in D
       PROVE  open[q] = 0 <=> q \in Listed(t.order) \cup Listed(t.ready)
  <2>1. CASE s.open[q] = 0
    <3>1. open[q] = 0
      BY <1>6, <2>1
    <3> QED
      BY <1>2, <1>3, <1>5, <1>9, <2>1, <3>1
  <2>2. CASE s.open[q] # 0
    <3>1. q \notin done \cup Listed(s.ready)
      BY <1>2, <2>2
    <3>2. open[q] = 0 <=> q \in freed
      BY <1>6, <2>2
    <3> QED
      BY <1>3, <1>5, <1>9, <3>1, <3>2
  <2> QED
    BY <2>1, <2>2
<1>12. Len(t.order) = n + 1 /\ t.order[n + 1] = p /\ \A k \in 1 .. n : t.order[k] = s.order[k]
  BY <1>0, <1>1, <1>3
<1>13. ASSUME NEW k \in 1 .. n + 1, NEW i \in DOMAIN steps[t.order[k]].deps
       PROVE  \E j \in 1 .. k - 1 : steps[t.order[j]].node = steps[t.order[k]].deps[i]
  <2>1. CASE k \in 1 .. n
    <3>1. PICK j \in 1 .. k - 1 : steps[s.order[j]].node = steps[s.order[k]].deps[i]
      BY <1>1, <1>12, <1>13, <2>1, SMTT(30) DEF LoopInv
    <3>2. j \in 1 .. n
      BY <2>1
    <3> QED
      BY <1>12, <2>1, <3>1, <3>2
  <2>2. CASE k = n + 1
    <3>1. Pending(steps, done, p) = {}
      <4>1. s.open[p] = 0
        BY <1>2, <1>3
      <4> QED
        BY <1>2, <1>3, <4>1, PendingCounts
    <3>2. i \in DOMAIN steps[p].deps
      BY <1>12, <1>13, <2>2
    <3>3. PICK r \in done : steps[r].node = steps[p].deps[i]
      BY <3>1, <3>2 DEF Pending
    <3>4. PICK j \in 1 .. n : s.order[j] = r
      BY <1>1 DEF Listed
    <3>5. j \in 1 .. k - 1 /\ t.order[j] = r /\ t.order[k] = p
      BY <1>12, <2>2, <3>4, SMTT(30)
    <3> QED
      BY <3>3, <3>5
  <2> QED
    BY <2>1, <2>2
<1> QED
  <2>1. LoopInv(steps, t, n + 1)
    <3>1. t.open = open
      BY <1>0
    <3>2. \A q \in DOMAIN steps : t.open[q] = Cardinality(Pending(steps, Listed(t.order), q))
      BY <1>5, <1>6, <3>1
    <3>3. \A q \in DOMAIN steps : t.open[q] = 0 <=> q \in Listed(t.order) \cup Listed(t.ready)
      BY <1>11, <3>1
    <3>4. \A k \in 1 .. Len(t.order) : \A i \in DOMAIN steps[t.order[k]].deps :
              \E j \in 1 .. k - 1 : steps[t.order[j]].node = steps[t.order[k]].deps[i]
      BY <1>12, <1>13
    <3>5. t.ready \in Seq(DOMAIN steps) /\ t.order \in Seq(DOMAIN steps)
      BY <1>5, <1>9
    <3> QED
      BY ONLY <1>5, <1>9, <1>10, <1>12, <3>2, <3>3, <3>4, <3>5 DEF LoopInv
  <2> QED
    BY <2>1

\* The invariant of the loop, after any number of rounds.
LEMMA LoopInvariant ==
    ASSUME NEW steps, IsRequest(steps), ~DuplicateNode(steps)
    PROVE  \A n \in 0 .. Len(steps) : LoopInv(steps, After(steps)[n], n)
<1> PICK after : after = After(steps)
  OBVIOUS
<1> PICK len \in Nat : len = Len(steps)
  BY DEF IsRequest
<1>0. /\ after[0] = Begin(steps)
      /\ \A n \in 0 .. len - 1 : after[n + 1] = Round(steps, after[n])
  BY AfterRounds
<1> DEFINE Good == {n \in Nat : n <= len => LoopInv(steps, after[n], n)}
<1>1. 0 \in Good
  BY <1>0, BeginInv
<1>2. ASSUME NEW n \in Good \cap Nat PROVE n + 1 \in Good
  <2> SUFFICES ASSUME n + 1 <= len PROVE LoopInv(steps, after[n + 1], n + 1)
    OBVIOUS
  <2> PICK s : s = after[n]
    OBVIOUS
  <2>1. n \in 0 .. len - 1 /\ LoopInv(steps, s, n)
    BY <1>2
  <2>2. after[n + 1] = Round(steps, s)
    BY <1>0, <2>1
  <2>3. CASE s.ready = << >>
    <3>1. LoopInv(steps, s, n + 1)
      BY <2>1, <2>3, SMTT(30) DEF LoopInv
    <3> QED
      BY <2>2, <2>3, <3>1 DEF Round
  <2>4. CASE s.ready # << >>
    <3>1. LoopInv(steps, Place(steps, s), n + 1)
      BY <2>1, <2>4, PlaceInv
    <3> QED
      BY <2>2, <2>4, <3>1 DEF Round
  <2> QED
    BY <2>3, <2>4
<1> HIDE DEF Good
<1>3. Nat \subseteq Good
  BY <1>1, <1>2, SetInduction
<1> QED
  BY <1>3 DEF Good

=============================================================================
