---------------------------- MODULE ThreadsProofs -----------------------------
(***************************************************************************)
(* Facts about the list operations, the scheduler functions of Threads and *)
(* the semaphore functions of Semaphores, for the proofs about the modules *)
(* built from them.                                                        *)
(***************************************************************************)
EXTENDS Semaphores, SequenceTheorems, FiniteSetTheorems, WellFoundedInduction, TLAPS

\* A set of naturals with an element has a least one.
LEMMA LeastNat ==
  ASSUME NEW N \in SUBSET Nat, NEW n \in N
  PROVE  \E m \in N : \A k \in N : m <= k
<1> DEFINE R == OpToRel(<, Nat)
<1>1. IsWellFoundedOn(R, Nat)
  BY NatLessThanWellFounded
<1>2. \E m \in N : \A k \in N : ~(<<k, m>> \in R)
  BY <1>1, WFMin
<1>3. PICK m \in N : \A k \in N : ~(<<k, m>> \in R)
  BY <1>2
<1>4. \A k \in N : ~(k < m)
  BY <1>3 DEF OpToRel
<1> QED
  BY <1>4

-------------------------------------------------------------------------------
(***************************************************************************)
(* list_insert_ordered                                                     *)
(***************************************************************************)

\* There is a position to insert at: that of the first larger element, or
\* one past the end of the list.
LEMMA InsertPositionExists ==
  ASSUME NEW S, NEW list \in Seq(S), NEW larger
  PROVE  LET i == InsertPosition(list, larger)
         IN  /\ i \in 1 .. Len(list) + 1
             /\ \A j \in 1 .. i - 1 : list[j] \notin larger
             /\ i <= Len(list) => list[i] \in larger
<1> DEFINE N == { i \in 1 .. Len(list) + 1 : i <= Len(list) => list[i] \in larger }
<1>1. Len(list) \in Nat
  BY LenProperties
<1>2. N \in SUBSET Nat /\ Len(list) + 1 \in N
  BY <1>1
<1>3. PICK m \in N : \A k \in N : m <= k
  BY <1>2, LeastNat
<1>4. \A j \in 1 .. m - 1 : list[j] \notin larger
  <2> SUFFICES ASSUME NEW j \in 1 .. m - 1, list[j] \in larger
               PROVE  FALSE
    OBVIOUS
  <2>1. j \in N /\ j < m
    BY <1>1, <1>3
  <2> QED
    BY <2>1, <1>1, <1>3
<1> QED
  BY <1>3, <1>4 DEF InsertPosition

\* The list with the new element at that position, element by element.
LEMMA InsertOrderedElements ==
  ASSUME NEW S, NEW list \in Seq(S), NEW elem \in S, NEW larger
  PROVE  LET i == InsertPosition(list, larger)
             new == InsertOrdered(list, elem, larger)
         IN  /\ new \in Seq(S)
             /\ Len(new) = Len(list) + 1
             /\ \A k \in 1 .. Len(new) :
                  new[k] = IF k < i THEN list[k]
                           ELSE IF k = i THEN elem ELSE list[k - 1]
<1> DEFINE i == InsertPosition(list, larger)
           new == InsertOrdered(list, elem, larger)
           front == SubSeq(list, 1, i - 1)
           back == SubSeq(list, i, Len(list))
<1>1. Len(list) \in Nat /\ i \in 1 .. Len(list) + 1
  BY InsertPositionExists, LenProperties
<1> HIDE DEF i
<1>2. /\ front \in Seq(S) /\ Len(front) = i - 1
      /\ \A k \in 1 .. i - 1 : front[k] = list[k]
  <2>1. \A k \in 1 .. i - 1 : k \in 1 .. Len(list)
    BY <1>1
  <2>2. \A k \in 1 .. Len(list) : list[k] \in S
    BY ElementOfSeq
  <2> QED
    BY <1>1, <2>1, <2>2
<1>3. /\ back \in Seq(S) /\ Len(back) = Len(list) + 1 - i
      /\ \A k \in 1 .. Len(list) + 1 - i : back[k] = list[i + k - 1]
  <2>1. \A k \in 1 .. Len(list) + 1 - i : i + k - 1 \in 1 .. Len(list)
    BY <1>1
  <2>2. \A k \in 1 .. Len(list) : list[k] \in S
    BY ElementOfSeq
  <2> QED
    BY <1>1, <2>1, <2>2
<1>4. new = (front \o <<elem>>) \o back
  BY DEF InsertOrdered, InsertAt, i
<1> HIDE DEF front, back, new
<1> DEFINE head == front \o <<elem>>
<1>5. /\ head \in Seq(S) /\ Len(head) = i
      /\ \A k \in 1 .. i : head[k] = IF k < i THEN list[k] ELSE elem
  BY <1>1, <1>2
<1>8. new = head \o back
  BY <1>4
<1> HIDE DEF head
<1>6. /\ new \in Seq(S) /\ Len(new) = Len(list) + 1
      /\ \A k \in 1 .. Len(list) + 1 :
           new[k] = IF k <= i THEN head[k] ELSE back[k - i]
  BY <1>1, <1>3, <1>5, <1>8, ConcatProperties
<1>7. \A k \in 1 .. Len(list) + 1 :
        new[k] = IF k < i THEN list[k] ELSE IF k = i THEN elem ELSE list[k - 1]
  <2> SUFFICES ASSUME NEW k \in 1 .. Len(list) + 1
               PROVE new[k] = IF k < i THEN list[k]
                              ELSE IF k = i THEN elem ELSE list[k - 1]
    OBVIOUS
  <2>1. CASE k <= i
    <3>1. k \in 1 .. i /\ new[k] = head[k]
      BY <2>1, <1>1, <1>6
    <3>2. head[k] = IF k < i THEN list[k] ELSE elem
      BY <3>1, <1>5
    <3> QED
      BY <2>1, <3>1, <3>2, <1>1
  <2>2. CASE k > i
    <3>1. new[k] = back[k - i] /\ k - i \in 1 .. Len(list) + 1 - i
      BY <2>2, <1>1, <1>6
    <3>2. back[k - i] = list[i + (k - i) - 1] /\ i + (k - i) - 1 = k - 1
      BY <3>1, <1>1, <1>3
    <3> QED
      BY <2>2, <1>1, <3>1, <3>2
  <2> QED
    BY <2>1, <2>2, <1>1
<1> QED
  BY <1>6, <1>7 DEF i, new

\* The elements are those of the list and the new one, which stays the only
\* occurrence of itself if it was not on the list.
LEMMA InsertOrderedSet ==
  ASSUME NEW S, NEW list \in Seq(S), NEW elem \in S, NEW larger
  PROVE  LET new == InsertOrdered(list, elem, larger)
         IN  /\ new \in Seq(S)
             /\ ToSet(new) = ToSet(list) \union {elem}
             /\ Distinct(list) /\ elem \notin ToSet(list) => Distinct(new)
<1> DEFINE i == InsertPosition(list, larger)
           new == InsertOrdered(list, elem, larger)
           n == Len(list)
<1>1. /\ n \in Nat /\ i \in 1 .. n + 1 /\ DOMAIN list = 1 .. n
      /\ \A k \in 1 .. n : list[k] \in S
  BY InsertPositionExists, LenProperties, ElementOfSeq
<1>2. /\ new \in Seq(S) /\ Len(new) = n + 1
      /\ \A k \in 1 .. n + 1 :
           new[k] = IF k < i THEN list[k] ELSE IF k = i THEN elem ELSE list[k - 1]
  BY InsertOrderedElements
<1>3. DOMAIN new = 1 .. n + 1
  BY <1>2, LenProperties
<1> HIDE DEF i, new, n
<1>4. ToSet(new) = ToSet(list) \union {elem}
  <2>1. ASSUME NEW k \in 1 .. n + 1
        PROVE  new[k] \in ToSet(list) \union {elem}
    <3>1. CASE k < i
      BY <3>1, <1>1, <1>2 DEF ToSet
    <3>2. CASE k = i
      BY <3>2, <1>1, <1>2
    <3>3. CASE k > i
      <4>1. k - 1 \in 1 .. n /\ new[k] = list[k - 1]
        BY <3>3, <1>1, <1>2
      <4> QED
        BY <4>1, <1>1 DEF ToSet
    <3> QED
      BY <3>1, <3>2, <3>3, <1>1
  <2>2. ASSUME NEW k \in 1 .. n
        PROVE  list[k] \in ToSet(new)
    <3>1. CASE k < i
      BY <3>1, <1>1, <1>2, <1>3 DEF ToSet
    <3>2. CASE k >= i
      <4>1. k + 1 \in 1 .. n + 1 /\ new[k + 1] = list[k + 1 - 1] /\ k + 1 - 1 = k
        BY <3>2, <1>1, <1>2
      <4> QED
        BY <4>1, <1>3 DEF ToSet
    <3> QED
      BY <3>1, <3>2, <1>1
  <2>3. elem \in ToSet(new)
    <3>1. i \in 1 .. n + 1 /\ new[i] = elem
      BY <1>1, <1>2
    <3> QED
      BY <3>1, <1>3 DEF ToSet
  <2> QED
    BY <2>1, <2>2, <2>3, <1>1, <1>3 DEF ToSet
<1>5. ASSUME Distinct(list), elem \notin ToSet(list)
      PROVE  Distinct(new)
  <2> DEFINE old(k) == IF k < i THEN k ELSE k - 1
  <2>1. ASSUME NEW k \in 1 .. n + 1, k # i
        PROVE  old(k) \in 1 .. n /\ new[k] = list[old(k)] /\ new[k] # elem
    BY <2>1, <1>1, <1>2, <1>5 DEF ToSet
  <2>2. new[i] = elem
    BY <1>1, <1>2
  <2>3. ASSUME NEW j \in 1 .. n + 1, NEW k \in 1 .. n + 1, new[j] = new[k]
        PROVE  j = k
    <3>1. CASE j = i \/ k = i
      BY <3>1, <2>1, <2>2, <2>3
    <3>2. CASE j # i /\ k # i
      <4>1. old(j) = old(k)
        BY <3>2, <2>1, <2>3, <1>1, <1>5 DEF Distinct
      <4> QED
        BY <4>1, <3>2, <1>1
    <3> QED
      BY <3>1, <3>2
  <2> QED
    BY <2>3, <1>3 DEF Distinct
<1> QED
  BY <1>2, <1>4, <1>5 DEF new

\* Inserted before the first thread of lower priority, a thread leaves a
\* sorted list sorted.
LEMMA InsertByPrioritySorted ==
  ASSUME NEW S, NEW list \in Seq(S), NEW elem \in S,
         NEW priority \in [S -> Int], SortedByPriority(list, priority)
  PROVE  SortedByPriority(InsertByPriority(list, elem, priority), priority)
<1> DEFINE larger == { e \in ToSet(list) : priority[elem] > priority[e] }
           i == InsertPosition(list, larger)
           new == InsertOrdered(list, elem, larger)
           n == Len(list)
<1>1. /\ n \in Nat /\ i \in 1 .. n + 1 /\ DOMAIN list = 1 .. n
      /\ \A k \in 1 .. n : list[k] \in S /\ list[k] \in ToSet(list)
  BY InsertPositionExists, LenProperties, ElementOfSeq DEF ToSet
<1>2. /\ DOMAIN new = 1 .. n + 1
      /\ \A k \in 1 .. n + 1 :
           new[k] = IF k < i THEN list[k] ELSE IF k = i THEN elem ELSE list[k - 1]
  BY InsertOrderedElements, LenProperties
<1>3. /\ \A j \in 1 .. i - 1 : list[j] \notin larger
      /\ i <= n => list[i] \in larger
  BY InsertPositionExists
<1> HIDE DEF i, new, n
<1>4. \A j \in 1 .. i - 1 : priority[list[j]] >= priority[elem]
  BY <1>1, <1>3
<1>5. \A j \in i .. n : priority[list[j]] <= priority[elem]
  <2> SUFFICES ASSUME NEW j \in i .. n
               PROVE  priority[list[j]] <= priority[elem]
    OBVIOUS
  <2>1. i \in 1 .. n /\ j \in 1 .. n /\ priority[list[i]] <= priority[elem]
    BY <1>1, <1>3
  <2>2. priority[list[j]] <= priority[list[i]]
    BY <2>1, <1>1 DEF SortedByPriority
  <2> QED
    BY <2>1, <2>2, <1>1
<1> HIDE DEF larger
<1>6. ASSUME NEW j \in 1 .. n + 1, NEW k \in 1 .. n + 1, j < k
      PROVE  priority[new[j]] >= priority[new[k]]
  <2>1. CASE j = i
    <3>1. new[j] = elem /\ new[k] = list[k - 1] /\ k - 1 \in i .. n
      BY <2>1, <1>1, <1>2, <1>6
    <3> QED
      BY <3>1, <1>5, <1>1
  <2>2. CASE k = i
    <3>1. new[k] = elem /\ new[j] = list[j] /\ j \in 1 .. i - 1
      BY <2>2, <1>1, <1>2, <1>6
    <3> QED
      BY <3>1, <1>4, <1>1
  <2>3. CASE j # i /\ k # i
    <3> DEFINE oldj == IF j < i THEN j ELSE j - 1
               oldk == IF k < i THEN k ELSE k - 1
    <3>1. oldj \in 1 .. n /\ oldk \in 1 .. n /\ oldj < oldk
      BY <2>3, <1>1, <1>6
    <3>2. new[j] = list[oldj] /\ new[k] = list[oldk]
      BY <2>3, <1>1, <1>2
    <3> QED
      BY <3>1, <3>2, <1>1 DEF SortedByPriority
  <2> QED
    BY <2>1, <2>2, <2>3
<1> QED
  BY <1>2, <1>6 DEF SortedByPriority, InsertByPriority, new, larger

-------------------------------------------------------------------------------
(***************************************************************************)
(* list_sort, and the end of a list                                        *)
(***************************************************************************)

\* The rank that SortByPriority gives the elements of a list puts them in some
\* order: it is a permutation of the positions.
LEMMA SortPermutes ==
  ASSUME NEW S, NEW list \in Seq(S), NEW priority, \A x \in S : priority[x] \in Int
  PROVE  LET new == SortByPriority(list, priority)
             n == Len(list)
         IN  /\ new \in Seq(S) /\ Len(new) = n
             /\ \E at \in [1 .. n -> 1 .. n] :
                  /\ \A j, k \in 1 .. n : at[j] = at[k] => j = k
                  /\ \A i \in 1 .. n : \E k \in 1 .. n : at[k] = i
                  /\ \A k \in 1 .. n : new[k] = list[at[k]]
                  /\ \A j, k \in 1 .. n :
                       j < k => priority[list[at[j]]] >= priority[list[at[k]]]
<1> DEFINE n == Len(list)
           D == 1 .. n
           pr == [i \in D |-> priority[list[i]]]
           B == [i \in D |-> { j \in D : pr[j] > pr[i] \/ (pr[j] = pr[i] /\ j <= i) }]
           rank == [i \in D |-> Cardinality(B[i])]
           at == [k \in D |-> CHOOSE i \in D : rank[i] = k]
           new == SortByPriority(list, priority)
<1>1. n \in Nat /\ DOMAIN list = D /\ \A i \in D : list[i] \in S
  BY LenProperties, ElementOfSeq
<1>2. pr \in [D -> Int] /\ D \subseteq Nat
  BY <1>1
<1>3. IsFiniteSet(D) /\ Cardinality(D) = n
  <2>1. n \in Int /\ 1 \in Int /\ (IF 1 > n THEN 0 ELSE n - 1 + 1) = n
    BY <1>1
  <2> HIDE DEF n
  <2> QED
    BY <2>1, FS_Interval
<1>4. new = [k \in D |-> list[at[k]]]
  <2> DEFINE Before(i) ==
        { j \in DOMAIN list :
            \/ priority[list[j]] > priority[list[i]]
            \/ priority[list[j]] = priority[list[i]] /\ j <= i }
  <2>1. \A i \in D : Before(i) = B[i]
    BY <1>1
  <2>2. \A i \in D : Cardinality(Before(i)) = rank[i]
    BY <2>1
  <2> HIDE DEF Before, rank
  <2>3. \A k \in D : (CHOOSE i \in DOMAIN list : Cardinality(Before(i)) = k)
                       = CHOOSE i \in D : rank[i] = k
    <3> SUFFICES ASSUME NEW k \in D
                 PROVE (CHOOSE i \in DOMAIN list : Cardinality(Before(i)) = k)
                       = CHOOSE i \in D : rank[i] = k
      OBVIOUS
    <3>1. \A i : i \in DOMAIN list /\ Cardinality(Before(i)) = k
                   <=> i \in D /\ rank[i] = k
      BY <1>1, <2>2
    <3> QED
      BY <3>1, Zenon
  <2>4. new = [k \in DOMAIN list |->
                 list[CHOOSE i \in DOMAIN list : Cardinality(Before(i)) = k]]
    BY DEF SortByPriority, Before
  <2> QED
    BY <2>3, <2>4, <1>1
<1> HIDE DEF pr, new
<1>5. \A i \in D : B[i] \subseteq D /\ i \in B[i]
  BY <1>2
<1>6. \A i, j \in D : j \in B[i] => B[j] \subseteq B[i]
  BY <1>2, SMTT(60)
<1>7. \A i, j \in D : i # j => (j \in B[i] /\ i \notin B[j]) \/ (i \in B[j] /\ j \notin B[i])
  BY <1>2, SMTT(60)
<1>17. \A i, j \in D : pr[i] > pr[j] => i \in B[j]
  BY <1>2, SMTT(60)
<1> HIDE DEF B
<1>8. \A i \in D : IsFiniteSet(B[i]) /\ rank[i] \in 1 .. n
  <2> SUFFICES ASSUME NEW i \in D
               PROVE  IsFiniteSet(B[i]) /\ Cardinality(B[i]) \in 1 .. n
    OBVIOUS
  <2>1. IsFiniteSet(B[i]) /\ Cardinality(B[i]) <= n
    BY <1>3, <1>5, FS_Subset
  <2>2. Cardinality(B[i]) \in Nat /\ Cardinality(B[i]) # 0
    BY <2>1, <1>5, FS_CardinalityType, FS_EmptySet
  <2> QED
    BY <2>1, <2>2, <1>1
<1>9. \A i, j \in D : j \in B[i] => rank[j] <= rank[i]
  BY <1>6, <1>8, FS_Subset
<1>10. \A i, j \in D : rank[i] = rank[j] => i = j
  <2> SUFFICES ASSUME NEW i \in D, NEW j \in D, j \in B[i], i \notin B[j],
                      Cardinality(B[i]) = Cardinality(B[j])
               PROVE  FALSE
    BY <1>7
  <2>1. B[i] = B[j]
    BY <1>6, <1>8, FS_Subset
  <2> QED
    BY <2>1, <1>5
<1>11. rank \in Injection(D, D)
  BY <1>8, <1>10 DEF Injection, IsInjective
<1>12. rank \in Surjection(D, D)
  BY <1>3, <1>11, FS_Injection
<1> HIDE DEF rank
<1>13. \A k \in D : at[k] \in D /\ rank[at[k]] = k
  BY <1>12 DEF Surjection
<1>14. \A i \in D : rank[i] \in D /\ at[rank[i]] = i
  BY <1>8, <1>10, <1>13
<1>18. DOMAIN at = D
  OBVIOUS
<1> HIDE DEF at
<1>15. \A j, k \in D : j < k => pr[at[j]] >= pr[at[k]]
  <2> SUFFICES ASSUME NEW j \in D, NEW k \in D, j < k, pr[at[k]] > pr[at[j]]
               PROVE  FALSE
    BY <1>2, <1>13
  <2>1. at[k] \in B[at[j]]
    BY <1>13, <1>17
  <2>2. rank[at[k]] <= rank[at[j]]
    BY <2>1, <1>13, <1>9
  <2> QED
    BY <2>2, <1>13, <1>1
<1>16. new \in Seq(S) /\ Len(new) = n
  <2>1. \A k \in D : list[at[k]] \in S
    BY <1>1, <1>13
  <2>2. new \in [1 .. n -> S]
    BY <1>4, <2>1
  <2> QED
    BY <1>1, <2>2
<1>19. \A j, k \in D : j < k => priority[list[at[j]]] >= priority[list[at[k]]]
  BY <1>13, <1>15 DEF pr
<1>20. \A k \in D : new[k] = list[at[k]]
  BY <1>4
<1>21. at \in [D -> D]
  BY <1>13 DEF at
<1>22. \A j, k \in D : at[j] = at[k] => j = k
  BY <1>13
<1>23. \A i \in D : \E k \in D : at[k] = i
  BY <1>14
<1> HIDE DEF n
<1>24. \E a \in [D -> D] :
         /\ \A j, k \in D : a[j] = a[k] => j = k
         /\ \A i \in D : \E k \in D : a[k] = i
         /\ \A k \in D : new[k] = list[a[k]]
         /\ \A j, k \in D : j < k => priority[list[a[j]]] >= priority[list[a[k]]]
  BY <1>19, <1>20, <1>21, <1>22, <1>23
<1> QED
  BY <1>16, <1>24 DEF n, new

\* Sorted, a list has the same elements, each as often, and is in order.
LEMMA SortKeeps ==
  ASSUME NEW S, NEW list \in Seq(S), NEW priority, \A x \in S : priority[x] \in Int
  PROVE  LET new == SortByPriority(list, priority)
         IN  /\ new \in Seq(S)
             /\ Len(new) = Len(list)
             /\ ToSet(new) = ToSet(list)
             /\ Distinct(list) => Distinct(new)
             /\ SortedByPriority(new, priority)
<1> DEFINE new == SortByPriority(list, priority)
           n == Len(list)
<1>1. n \in Nat /\ DOMAIN list = 1 .. n
  BY LenProperties
<1>2. new \in Seq(S) /\ Len(new) = n
  BY SortPermutes
<1>3. PICK at \in [1 .. n -> 1 .. n] :
        /\ \A j, k \in 1 .. n : at[j] = at[k] => j = k
        /\ \A i \in 1 .. n : \E k \in 1 .. n : at[k] = i
        /\ \A k \in 1 .. n : new[k] = list[at[k]]
        /\ \A j, k \in 1 .. n :
             j < k => priority[list[at[j]]] >= priority[list[at[k]]]
  BY SortPermutes
<1>4. DOMAIN new = 1 .. n
  BY <1>2, LenProperties
<1> HIDE DEF new, n
<1>5. ToSet(new) = ToSet(list)
  <2>1. \A u : u \in ToSet(new) <=> \E k \in 1 .. n : u = new[k]
    BY <1>4 DEF ToSet
  <2>2. \A u : u \in ToSet(list) <=> \E k \in 1 .. n : u = list[k]
    BY <1>1 DEF ToSet
  <2>3. ASSUME NEW k \in 1 .. n PROVE new[k] \in ToSet(list)
    <3>1. at[k] \in 1 .. n /\ new[k] = list[at[k]]
      BY <1>3
    <3> QED
      BY <2>2, <3>1
  <2>4. ASSUME NEW i \in 1 .. n PROVE list[i] \in ToSet(new)
    <3>1. PICK k \in 1 .. n : at[k] = i
      BY <1>3
    <3>2. new[k] = list[i]
      BY <1>3, <3>1
    <3> QED
      BY <2>1, <3>2
  <2>5. \A u : u \in ToSet(new) <=> u \in ToSet(list)
    BY <2>1, <2>2, <2>3, <2>4
  <2> QED
    BY <2>5
<1>6. Distinct(list) => Distinct(new)
  <2> SUFFICES ASSUME Distinct(list), NEW j \in 1 .. n, NEW k \in 1 .. n, new[j] = new[k]
               PROVE  j = k
    BY <1>4 DEF Distinct
  <2>1. at[j] \in 1 .. n /\ at[k] \in 1 .. n /\ list[at[j]] = list[at[k]]
    BY <1>3
  <2>2. at[j] = at[k]
    BY <1>1, <2>1 DEF Distinct
  <2> QED
    BY <1>3, <2>2
<1>7. SortedByPriority(new, priority)
  <2> SUFFICES ASSUME NEW j \in 1 .. n, NEW k \in 1 .. n, j < k
               PROVE  priority[new[j]] >= priority[new[k]]
    BY <1>4 DEF SortedByPriority
  <2>1. new[j] = list[at[j]] /\ new[k] = list[at[k]]
    BY <1>3
  <2> QED
    BY <1>3, <2>1
<1> QED
  BY <1>2, <1>5, <1>6, <1>7 DEF new, n

\* list_pop_front takes the front off, and with it one element of the set.
LEMMA PopFront ==
  ASSUME NEW S, NEW list \in Seq(S), list # << >>, Distinct(list)
  PROVE  /\ Head(list) \in ToSet(list) /\ Head(list) \in S
         /\ Tail(list) \in Seq(S)
         /\ ToSet(Tail(list)) = ToSet(list) \ {Head(list)}
         /\ Distinct(Tail(list))
<1> DEFINE n == Len(list)
           rest == Tail(list)
<1>1. /\ n \in Nat /\ n >= 1 /\ DOMAIN list = 1 .. n
      /\ Head(list) = list[1] /\ Head(list) \in S
  BY LenProperties, EmptySeq, HeadTailProperties
<1>2. /\ rest \in Seq(S) /\ DOMAIN rest = 1 .. n - 1
      /\ \A k \in 1 .. n - 1 : rest[k] = list[k + 1]
  BY <1>1, HeadTailProperties, LenProperties
<1> HIDE DEF n, rest
<1>3. ToSet(list) = { list[k] : k \in 1 .. n } /\ ToSet(rest) = { rest[k] : k \in 1 .. n - 1 }
  BY <1>1, <1>2 DEF ToSet
<1>4. ASSUME NEW k \in 1 .. n - 1
      PROVE  rest[k] \in ToSet(list) \ {list[1]}
  <2>1. k + 1 \in 1 .. n /\ 1 \in 1 .. n /\ k + 1 # 1
    BY <1>1
  <2>2. rest[k] = list[k + 1]
    BY <1>2
  <2>3. list[k + 1] \in ToSet(list)
    BY <1>3, <2>1
  <2>4. list[k + 1] # list[1]
    BY <1>1, <2>1 DEF Distinct
  <2> QED
    BY <2>2, <2>3, <2>4
<1>5. ASSUME NEW k \in 1 .. n, list[k] # list[1]
      PROVE  list[k] \in ToSet(rest)
  <2>1. k - 1 \in 1 .. n - 1 /\ rest[k - 1] = list[k - 1 + 1] /\ k - 1 + 1 = k
    BY <1>1, <1>2, <1>5
  <2> QED
    BY <2>1, <1>3
<1>6. Distinct(rest)
  <2> SUFFICES ASSUME NEW j \in 1 .. n - 1, NEW k \in 1 .. n - 1, rest[j] = rest[k]
               PROVE  j = k
    BY <1>2 DEF Distinct
  <2>1. j + 1 \in 1 .. n /\ k + 1 \in 1 .. n /\ list[j + 1] = list[k + 1]
    BY <1>1, <1>2
  <2>2. j + 1 = k + 1
    BY <2>1, <1>1 DEF Distinct
  <2> QED
    BY <2>2
<1>7. list[1] \in ToSet(list)
  BY <1>1, <1>3
<1> QED
  BY <1>1, <1>2, <1>3, <1>4, <1>5, <1>6, <1>7 DEF rest

-------------------------------------------------------------------------------
(***************************************************************************)
(* The scheduler functions.  SchedOK is what holds between any two steps   *)
(* (see Threads); Switching is what schedule expects of its caller.        *)
(***************************************************************************)
Switching(s) == ReadyOK(s) /\ \A t \in AnyThread : s.status[t] # "RUNNING"

LEMMA PriorityIsInt == Priority \subseteq Int /\ PRI_MIN \in Priority
BY ThreadsAssumption DEF Priority

\* schedule, field by field.
LEMMA ScheduleFields ==
  ASSUME NEW s \in SchedState
  PROVE  LET r == Schedule(s)
             next == NextThreadToRun(s)
         IN  /\ r \in SchedState
             /\ next \in AnyThread
             /\ r.cur = next
             /\ r.ready = IF s.ready = << >> THEN s.ready ELSE Tail(s.ready)
             /\ r.priority = s.priority
             /\ r.panic = s.panic
             /\ r.yield_on_return = s.yield_on_return
             /\ \A t \in AnyThread :
                  r.status[t] = IF t = next THEN "RUNNING"
                                ELSE IF /\ t = s.cur
                                        /\ s.status[t] = "DYING" /\ t # Main
                                     THEN "FREE"
                                ELSE s.status[t]
<1> DEFINE next == NextThreadToRun(s)
           rest == IF s.ready = << >> THEN s.ready ELSE Tail(s.ready)
           left == IF s.status[s.cur] = "DYING" /\ s.cur # Main
                     THEN "FREE" ELSE s.status[s.cur]
           status == [s.status EXCEPT ![s.cur] = left, ![next] = "RUNNING"]
<1>1. /\ s.ready \in Seq(AnyThread) /\ s.cur \in AnyThread
      /\ s.status \in [AnyThread -> Status]
  BY DEF SchedState
<1>2. next \in AnyThread
  BY <1>1 DEF NextThreadToRun, AnyThread
<1>3. rest \in Seq(AnyThread)
  BY <1>1
<1> HIDE DEF next, rest
<1>4. /\ status \in [AnyThread -> Status]
      /\ \A t \in AnyThread :
           status[t] = IF t = next THEN "RUNNING"
                       ELSE IF t = s.cur /\ s.status[t] = "DYING" /\ t # Main
                            THEN "FREE" ELSE s.status[t]
  BY <1>1, <1>2 DEF Status
<1>5. Schedule(s) = [s EXCEPT !.cur = next, !.ready = rest, !.status = status,
                              !.thread_ticks = 0]
  BY DEF Schedule, next, rest
<1> HIDE DEF status
<1> DEFINE r == Schedule(s)
<1>6. /\ r.cur = next /\ r.ready = rest /\ r.status = status
      /\ r.priority = s.priority /\ r.panic = s.panic
      /\ r.yield_on_return = s.yield_on_return
  BY <1>5 DEF SchedState
<1>7. r \in SchedState
  <2>1. r = [cur |-> next, status |-> status, priority |-> s.priority,
             ready |-> rest, thread_ticks |-> 0,
             yield_on_return |-> s.yield_on_return, panic |-> s.panic]
    BY <1>5 DEF SchedState
  <2>2. /\ s.priority \in [AnyThread -> Priority]
        /\ s.yield_on_return \in BOOLEAN /\ s.panic \in BOOLEAN
    BY DEF SchedState
  <2> HIDE DEF r
  <2> QED
    BY <1>2, <1>3, <1>4, <2>1, <2>2 DEF SchedState
<1> HIDE DEF r
<1>8. \A t \in AnyThread :
        r.status[t] = IF t = next THEN "RUNNING"
                      ELSE IF t = s.cur /\ s.status[t] = "DYING" /\ t # Main
                           THEN "FREE" ELSE s.status[t]
  BY <1>4, <1>6
<1> QED
  BY <1>2, <1>6, <1>7, <1>8 DEF next, rest, r

\* schedule hands the CPU to a thread that no ready thread outranks, and to
\* the idle thread only when the ready list is empty.
LEMMA ScheduleOK ==
  ASSUME NEW s, Switching(s)
  PROVE  LET r == Schedule(s)
         IN  /\ SchedOK(r)
             /\ ~Outranked(r)
             /\ r.cur = Idle => r.ready = << >>
<1> DEFINE r == Schedule(s)
           next == NextThreadToRun(s)
<1>1. /\ s \in SchedState /\ s.ready \in Seq(AnyThread)
      /\ s.priority \in [AnyThread -> Priority]
  BY DEF Switching, ReadyOK, SchedState
<1>2. /\ r \in SchedState /\ next \in AnyThread /\ r.cur = next
      /\ r.ready = IF s.ready = << >> THEN s.ready ELSE Tail(s.ready)
      /\ r.priority = s.priority
      /\ \A t \in AnyThread :
           r.status[t] = IF t = next THEN "RUNNING"
                         ELSE IF t = s.cur /\ s.status[t] = "DYING" /\ t # Main
                              THEN "FREE" ELSE s.status[t]
  BY <1>1, ScheduleFields
<1> HIDE DEF r
<1>3. OneRunning(r)
  BY <1>2 DEF OneRunning, Switching
<1>4. ASSUME s.ready = << >>
      PROVE  SchedOK(r) /\ ~Outranked(r) /\ (r.cur = Idle => r.ready = << >>)
  <2>1. next = Idle /\ r.ready = << >>
    BY <1>4, <1>2 DEF NextThreadToRun
  <2>2. ReadyListExact(r)
    <3>1. \A t \in Thread : r.status[t] # "READY"
      BY <1>2, <1>4 DEF Switching, ReadyOK, ReadyListExact, ToSet, AnyThread
    <3> QED
      BY <2>1, <3>1 DEF ReadyListExact, Distinct, ToSet
  <2>3. ReadyListSorted(r)
    BY <2>1 DEF ReadyListSorted, SortedByPriority
  <2> QED
    BY <1>2, <1>3, <2>1, <2>2, <2>3 DEF SchedOK, ReadyOK, Outranked
<1>5. ASSUME s.ready # << >>
      PROVE  SchedOK(r) /\ ~Outranked(r) /\ (r.cur = Idle => r.ready = << >>)
  <2> DEFINE n == Len(s.ready)
  <2>1. /\ n \in Nat /\ n >= 1 /\ DOMAIN s.ready = 1 .. n
        /\ \A k \in 1 .. n : s.ready[k] \in AnyThread
        /\ next = s.ready[1]
    BY <1>1, <1>5, LenProperties, ElementOfSeq, EmptySeq DEF NextThreadToRun
  <2>2. /\ r.ready \in Seq(AnyThread) /\ Len(r.ready) = n - 1
        /\ DOMAIN r.ready = 1 .. n - 1
        /\ \A k \in 1 .. n - 1 : r.ready[k] = s.ready[k + 1]
    BY <1>1, <1>2, <1>5, <2>1, HeadTailProperties, LenProperties
  <2>3. Distinct(s.ready)
    BY DEF Switching, ReadyOK, ReadyListExact
  <2> HIDE DEF n
  <2>4. Distinct(r.ready)
    <3> SUFFICES ASSUME NEW j \in 1 .. n - 1, NEW k \in 1 .. n - 1,
                        r.ready[j] = r.ready[k]
                 PROVE  j = k
      BY <2>2 DEF Distinct
    <3>1. /\ j + 1 \in 1 .. n /\ k + 1 \in 1 .. n
          /\ s.ready[j + 1] = s.ready[k + 1]
      BY <2>1, <2>2
    <3>2. j + 1 = k + 1
      BY <3>1, <2>1, <2>3 DEF Distinct
    <3> QED
      BY <3>2
  <2>5. ToSet(r.ready) = ToSet(s.ready) \ {next}
    <3>1. ASSUME NEW k \in 1 .. n - 1
          PROVE  r.ready[k] \in ToSet(s.ready) \ {next}
      <4>1. k + 1 \in 1 .. n /\ 1 \in 1 .. n /\ k + 1 # 1
        BY <2>1
      <4>2. s.ready[k + 1] # s.ready[1]
        BY <4>1, <2>1, <2>3 DEF Distinct
      <4> QED
        BY <4>1, <4>2, <2>1, <2>2 DEF ToSet
    <3>2. ASSUME NEW k \in 1 .. n, s.ready[k] # next
          PROVE  s.ready[k] \in ToSet(r.ready)
      <4>1. k - 1 \in 1 .. n - 1
        BY <3>2, <2>1
      <4>2. r.ready[k - 1] = s.ready[k - 1 + 1] /\ k - 1 + 1 = k
        BY <4>1, <2>1, <2>2
      <4> QED
        BY <4>1, <4>2, <2>2 DEF ToSet
    <3>3. /\ ToSet(r.ready) = { r.ready[k] : k \in 1 .. n - 1 }
          /\ ToSet(s.ready) = { s.ready[k] : k \in 1 .. n }
      BY <2>1, <2>2 DEF ToSet
    <3> QED
      BY <3>1, <3>2, <3>3
  <2>6. next \in Thread
    BY <2>1 DEF Switching, ReadyOK, ReadyListExact, ToSet
  <2>7. ReadyListExact(r)
    <3>1. { t \in Thread : r.status[t] = "READY" }
            = { t \in Thread : s.status[t] = "READY" } \ {next}
      BY <1>2 DEF AnyThread
    <3> QED
      BY <3>1, <2>4, <2>5 DEF ReadyListExact, Switching, ReadyOK
  <2>8. \A j, k \in 1 .. n : j < k =>
          s.priority[s.ready[j]] >= s.priority[s.ready[k]]
    BY <2>1 DEF Switching, ReadyOK, ReadyListSorted, SortedByPriority
  <2>9. ReadyListSorted(r)
    <3> SUFFICES ASSUME NEW j \in 1 .. n - 1, NEW k \in 1 .. n - 1, j < k
                 PROVE  s.priority[r.ready[j]] >= s.priority[r.ready[k]]
      BY <1>2, <2>2 DEF ReadyListSorted, SortedByPriority
    <3>1. j + 1 \in 1 .. n /\ k + 1 \in 1 .. n /\ j + 1 < k + 1
      BY <2>1
    <3> QED
      BY <3>1, <2>2, <2>8
  <2>10. ~Outranked(r)
    <3> SUFFICES ASSUME r.ready # << >>
                 PROVE  ~(s.priority[next] < s.priority[Head(r.ready)])
      BY <1>2 DEF Outranked
    <3>1. 1 \in 1 .. n /\ 2 \in 1 .. n /\ 1 \in 1 .. n - 1
      BY <2>1, <2>2, EmptySeq
    <3>2. Head(r.ready) = s.ready[2]
      BY <3>1, <2>2
    <3>3. s.priority[s.ready[1]] >= s.priority[s.ready[2]]
      BY <3>1, <2>8
    <3>4. s.priority[s.ready[1]] \in Int /\ s.priority[s.ready[2]] \in Int
      BY <3>1, <1>1, <2>1, PriorityIsInt
    <3> QED
      BY <3>2, <3>3, <3>4, <2>1
  <2> QED
    BY <1>2, <1>3, <2>6, <2>7, <2>9, <2>10, ThreadsAssumption DEF SchedOK, ReadyOK
<1> QED
  BY <1>4, <1>5 DEF r

\* What a switch away from the current thread does to the other threads: none
\* of them is blocked or unblocked, and no priority changes.
Switched(s, r) ==
  /\ SchedOK(r)
  /\ ~Outranked(r)
  /\ r.cur = Idle => r.ready = << >>
  /\ r.priority = s.priority
  /\ r.panic = s.panic
  /\ \A t \in Thread : t # s.cur =>
       (r.status[t] = "BLOCKED" <=> s.status[t] = "BLOCKED")

\* schedule after the caller has changed the current thread's status in s to
\* get to u.
LEMMA ScheduleSwitched ==
  ASSUME NEW s, SchedOK(s), NEW u, Switching(u),
         u.priority = s.priority, u.panic = s.panic, u.cur = s.cur,
         \A t \in AnyThread : t # s.cur => u.status[t] = s.status[t]
  PROVE  Switched(s, Schedule(u))
<1>1. u \in SchedState
  BY DEF Switching, ReadyOK
<1> DEFINE r == Schedule(u)
           next == NextThreadToRun(u)
<1>2. /\ r.priority = s.priority /\ r.panic = s.panic
      /\ \A t \in AnyThread :
           r.status[t] = IF t = next THEN "RUNNING"
                         ELSE IF t = s.cur /\ u.status[t] = "DYING" /\ t # Main
                              THEN "FREE" ELSE u.status[t]
  BY <1>1, ScheduleFields
<1>3. SchedOK(r) /\ ~Outranked(r) /\ (r.cur = Idle => r.ready = << >>)
  BY ScheduleOK
<1>4. next = Idle \/ (next \in Thread /\ u.status[next] = "READY")
  <2>1. CASE u.ready = << >>
    BY <2>1 DEF NextThreadToRun
  <2>2. CASE u.ready # << >>
    <3>1. u.ready \in Seq(AnyThread)
      BY <1>1 DEF SchedState
    <3>2. 1 \in DOMAIN u.ready /\ Head(u.ready) = u.ready[1]
      BY <2>2, <3>1, EmptySeq, LenProperties
    <3>3. next \in ToSet(u.ready)
      BY <2>2, <3>2 DEF ToSet, NextThreadToRun
    <3> QED
      BY <3>3 DEF Switching, ReadyOK, ReadyListExact
  <2> QED
    BY <2>1, <2>2
<1> HIDE DEF r, next
<1>5. \A t \in Thread : t # s.cur =>
        (r.status[t] = "BLOCKED" <=> s.status[t] = "BLOCKED")
  BY <1>2, <1>4, ThreadsAssumption DEF AnyThread
<1> QED
  BY <1>2, <1>3, <1>5 DEF Switched, r

\* The fields of a state in which only the current thread's status and the
\* ready list differ.
LEMMA StatusAndReady ==
  ASSUME NEW s \in SchedState, NEW t \in AnyThread, NEW st \in Status,
         NEW list \in Seq(AnyThread)
  PROVE  LET u == Restate(s, t, st, list)
         IN  /\ u \in SchedState
             /\ u.cur = s.cur /\ u.ready = list /\ u.priority = s.priority
             /\ u.panic = s.panic
             /\ u.status[t] = st
             /\ \A v \in AnyThread : v # t => u.status[v] = s.status[v]
<1> DEFINE status == [s.status EXCEPT ![t] = st]
           u == Restate(s, t, st, list)
<1>1. /\ s.status \in [AnyThread -> Status] /\ s.cur \in AnyThread
      /\ s.priority \in [AnyThread -> Priority] /\ s.thread_ticks \in Nat
      /\ s.yield_on_return \in BOOLEAN /\ s.panic \in BOOLEAN
  BY DEF SchedState
<1>2. /\ status \in [AnyThread -> Status] /\ status[t] = st
      /\ \A v \in AnyThread : v # t => status[v] = s.status[v]
  BY <1>1
<1>6. u = [s EXCEPT !.ready = list, !.status = status]
  BY DEF Restate
<1> HIDE DEF u, status
<1>3. u = [cur |-> s.cur, status |-> status, priority |-> s.priority,
           ready |-> list, thread_ticks |-> s.thread_ticks,
           yield_on_return |-> s.yield_on_return, panic |-> s.panic]
  BY <1>6 DEF SchedState
<1>4. u \in SchedState
  BY <1>1, <1>2, <1>3 DEF SchedState
<1>5. u.cur = s.cur /\ u.ready = list /\ u.priority = s.priority
      /\ u.panic = s.panic /\ u.status = status
  BY <1>3
<1> QED
  BY <1>2, <1>4, <1>5 DEF u

\* thread_block and thread_exit: the current thread is on no list.
LEMMA LeaveCPU ==
  ASSUME NEW s, SchedOK(s), NEW st \in {"BLOCKED", "DYING"}
  PROVE  Switched(s, Schedule(Restate(s, s.cur, st, s.ready)))
<1>1. s \in SchedState /\ s.cur \in AnyThread /\ s.ready \in Seq(AnyThread)
  BY DEF SchedOK, ReadyOK, SchedState
<1> DEFINE u == Restate(s, s.cur, st, s.ready)
<1>3. st \in Status
  BY DEF Status
<1>4. /\ u \in SchedState
      /\ u.cur = s.cur /\ u.ready = s.ready /\ u.priority = s.priority
      /\ u.panic = s.panic /\ u.status[s.cur] = st
      /\ \A v \in AnyThread : v # s.cur => u.status[v] = s.status[v]
  BY <1>1, <1>3, StatusAndReady
<1> HIDE DEF u
<1>5. { t \in Thread : u.status[t] = "READY" }
        = { t \in Thread : s.status[t] = "READY" }
  BY <1>1, <1>4 DEF SchedOK, OneRunning, AnyThread
<1>6. Switching(u)
  BY <1>4, <1>5
     DEF Switching, SchedOK, ReadyOK, ReadyListExact, ReadyListSorted, OneRunning
<1> QED
  BY <1>4, <1>6, ScheduleSwitched DEF u

LEMMA ThreadBlockSwitched ==
  ASSUME NEW s, SchedOK(s)
  PROVE  Switched(s, ThreadBlock(s))
BY LeaveCPU DEF ThreadBlock

LEMMA ThreadExitSwitched ==
  ASSUME NEW s, SchedOK(s)
  PROVE  Switched(s, ThreadExit(s))
BY LeaveCPU DEF ThreadExit

\* A thread that is not READY joins the ready list as it becomes so.
LEMMA JoinReadyList ==
  ASSUME NEW s, ReadyOK(s), NEW t \in Thread, s.status[t] # "READY"
  PROVE  LET u == Restate(s, t, "READY", InsertByPriority(s.ready, t, s.priority))
         IN  /\ ReadyOK(u)
             /\ u.cur = s.cur /\ u.priority = s.priority /\ u.panic = s.panic
             /\ u.status[t] = "READY"
             /\ \A v \in AnyThread : v # t => u.status[v] = s.status[v]
<1> DEFINE list == InsertByPriority(s.ready, t, s.priority)
           larger == { e \in ToSet(s.ready) : s.priority[t] > s.priority[e] }
           u == Restate(s, t, "READY", list)
<1>1. /\ s \in SchedState /\ s.ready \in Seq(AnyThread)
      /\ s.priority \in [AnyThread -> Int] /\ t \in AnyThread
  BY PriorityIsInt DEF ReadyOK, SchedState, AnyThread
<1>2. t \notin ToSet(s.ready) /\ Distinct(s.ready)
  BY DEF ReadyOK, ReadyListExact
<1>3. list = InsertOrdered(s.ready, t, larger)
  BY DEF InsertByPriority
<1>4. /\ list \in Seq(AnyThread)
      /\ ToSet(list) = ToSet(s.ready) \union {t}
      /\ Distinct(list)
  BY <1>1, <1>2, <1>3, InsertOrderedSet
<1>5. SortedByPriority(list, s.priority)
  BY <1>1, InsertByPrioritySorted DEF ReadyOK, ReadyListSorted
<1>6. "READY" \in Status
  BY DEF Status
<1> HIDE DEF list, larger
<1>7. /\ u \in SchedState
      /\ u.cur = s.cur /\ u.ready = list /\ u.priority = s.priority
      /\ u.panic = s.panic /\ u.status[t] = "READY"
      /\ \A v \in AnyThread : v # t => u.status[v] = s.status[v]
  BY <1>1, <1>4, <1>6, StatusAndReady
<1> HIDE DEF u
<1>8. { v \in Thread : u.status[v] = "READY" }
        = { v \in Thread : s.status[v] = "READY" } \union {t}
  BY <1>7 DEF AnyThread
<1>9. ReadyOK(u)
  BY <1>4, <1>5, <1>7, <1>8 DEF ReadyOK, ReadyListExact, ReadyListSorted
<1> QED
  BY <1>7, <1>9 DEF u, list

LEMMA ThreadYieldSwitched ==
  ASSUME NEW s, SchedOK(s)
  PROVE  Switched(s, ThreadYield(s))
<1>1. /\ s \in SchedState /\ s.cur \in AnyThread /\ s.ready \in Seq(AnyThread)
      /\ ReadyOK(s) /\ s.status[s.cur] = "RUNNING"
  BY DEF SchedOK, ReadyOK, SchedState, OneRunning
<1>2. CASE s.cur = Idle
  <2> DEFINE u == Restate(s, s.cur, "READY", s.ready)
  <2>5. "READY" \in Status
    BY DEF Status
  <2>1. /\ u \in SchedState
        /\ u.cur = s.cur /\ u.ready = s.ready /\ u.priority = s.priority
        /\ u.panic = s.panic /\ u.status[s.cur] = "READY"
        /\ \A v \in AnyThread : v # s.cur => u.status[v] = s.status[v]
    BY <1>1, <2>5, StatusAndReady
  <2>2. ThreadYield(s) = Schedule(u)
    BY <1>2 DEF ThreadYield
  <2> HIDE DEF u
  <2>3. { t \in Thread : u.status[t] = "READY" }
          = { t \in Thread : s.status[t] = "READY" }
    BY <1>2, <2>1, ThreadsAssumption DEF AnyThread
  <2>4. Switching(u)
    BY <1>1, <2>1, <2>3
       DEF Switching, SchedOK, ReadyOK, ReadyListExact, ReadyListSorted, OneRunning
  <2> QED
    BY <2>1, <2>2, <2>4, ScheduleSwitched
<1>3. CASE s.cur # Idle
  <2> DEFINE u == Restate(s, s.cur, "READY",
                    InsertByPriority(s.ready, s.cur, s.priority))
  <2>1. s.cur \in Thread
    BY <1>1, <1>3 DEF AnyThread
  <2>2. /\ ReadyOK(u)
        /\ u.cur = s.cur /\ u.priority = s.priority /\ u.panic = s.panic
        /\ u.status[s.cur] = "READY"
        /\ \A v \in AnyThread : v # s.cur => u.status[v] = s.status[v]
    BY <1>1, <2>1, JoinReadyList
  <2>3. ThreadYield(s) = Schedule(u)
    BY <1>3 DEF ThreadYield
  <2> HIDE DEF u
  <2>4. Switching(u)
    BY <2>2 DEF Switching, SchedOK, OneRunning
  <2> QED
    BY <2>2, <2>3, <2>4, ScheduleSwitched
<1> QED
  BY <1>2, <1>3

\* thread_unblock of a blocked thread.
LEMMA ThreadUnblockOK ==
  ASSUME NEW s, SchedOK(s), NEW t \in Thread, s.status[t] = "BLOCKED"
  PROVE  LET r == ThreadUnblock(s, t)
         IN  /\ SchedOK(r)
             /\ r.cur = s.cur /\ r.priority = s.priority /\ r.panic = s.panic
             /\ \A v \in AnyThread : v # t => r.status[v] = s.status[v]
<1> DEFINE u == Restate(s, t, "READY", InsertByPriority(s.ready, t, s.priority))
<1>1. /\ ReadyOK(u)
      /\ u.cur = s.cur /\ u.priority = s.priority /\ u.panic = s.panic
      /\ u.status[t] = "READY"
      /\ \A v \in AnyThread : v # t => u.status[v] = s.status[v]
  BY JoinReadyList DEF SchedOK
<1>2. ThreadUnblock(s, t) = u
  BY DEF ThreadUnblock
<1> HIDE DEF u
<1>3. OneRunning(u)
  BY <1>1 DEF SchedOK, OneRunning
<1> QED
  BY <1>1, <1>2, <1>3 DEF SchedOK

-------------------------------------------------------------------------------
(***************************************************************************)
(* Preemption and interrupts.                                              *)
(***************************************************************************)

\* States that differ in thread_ticks and yield_on_return at most.
SameThreads(s, r) ==
  /\ r.cur = s.cur /\ r.status = s.status /\ r.priority = s.priority
  /\ r.ready = s.ready /\ r.panic = s.panic

LEMMA SameThreadsOK ==
  ASSUME NEW s, SchedOK(s), NEW r \in SchedState, SameThreads(s, r)
  PROVE  SchedOK(r) /\ (Outranked(r) <=> Outranked(s))
BY DEF SameThreads, SchedOK, ReadyOK, ReadyListExact, ReadyListSorted,
       OneRunning, Outranked

LEMMA SetTicksAndFlag ==
  ASSUME NEW s \in SchedState, NEW n \in Nat, NEW b, b \in BOOLEAN
  PROVE  LET u == [s EXCEPT !.thread_ticks = n, !.yield_on_return = b]
         IN  u \in SchedState /\ SameThreads(s, u) /\ u.yield_on_return = b
<1> DEFINE u == [s EXCEPT !.thread_ticks = n, !.yield_on_return = b]
<1>1. u \in SchedState
  BY DEF SchedState
<1>2. u.cur = s.cur /\ u.status = s.status /\ u.priority = s.priority
  BY DEF SchedState
<1>3. u.ready = s.ready /\ u.panic = s.panic
  BY DEF SchedState
<1>4. u.yield_on_return = b
  BY DEF SchedState
<1> QED
  BY <1>1, <1>2, <1>3, <1>4 DEF SameThreads

LEMMA TickOK ==
  ASSUME NEW s \in SchedState, NEW b, b \in BOOLEAN
  PROVE  /\ Tick(s, b) \in SchedState
         /\ SameThreads(s, Tick(s, b))
         /\ Tick(s, b).yield_on_return = b
<1>1. s.thread_ticks + 1 \in Nat
  BY DEF SchedState
<1> QED
  BY <1>1, SetTicksAndFlag DEF Tick

LEMMA ThreadTickOK ==
  ASSUME NEW s, SchedOK(s)
  PROVE  ThreadTick(s) \in SchedState /\ SameThreads(s, ThreadTick(s))
<1> DEFINE b == s.yield_on_return \/ s.thread_ticks + 1 >= TIME_SLICE
<1>1. s \in SchedState /\ b \in BOOLEAN
  BY DEF SchedOK, ReadyOK, SchedState
<1>2. ThreadTick(s) = Tick(s, b)
  BY Zenon DEF ThreadTick
<1> HIDE DEF b
<1> QED
  BY <1>1, <1>2, TickOK, Zenon

\* An interrupt that leaves the current thread outranked makes it yield.
LEMMA IntrPreemptionOK ==
  ASSUME NEW s, SchedOK(s)
  PROVE  LET r == IntrPreemption(s)
         IN  /\ r \in SchedState
             /\ SameThreads(s, r)
             /\ Outranked(s) => r.yield_on_return
<1>1. s \in SchedState
  BY DEF SchedOK, ReadyOK
<1>2. CASE s.ready = << >>
  BY <1>1, <1>2 DEF IntrPreemption, SameThreads, Outranked
<1>3. CASE s.ready # << >>
  <2> DEFINE b == \/ s.yield_on_return
                  \/ Outranked(s)
                  \/ /\ s.priority[s.cur] = s.priority[Head(s.ready)]
                     /\ s.thread_ticks + 1 >= TIME_SLICE
  <2>1. b \in BOOLEAN /\ (Outranked(s) => b)
    BY <1>1 DEF SchedState
  <2>2. IntrPreemption(s) = Tick(s, b)
    BY <1>3, Zenon DEF IntrPreemption
  <2> HIDE DEF b
  <2> QED
    BY <1>1, <2>1, <2>2, TickOK, Zenon
<1> QED
  BY <1>2, <1>3

\* What a handler does to the threads: the current thread of r is outranked by
\* no ready thread, and nobody has been blocked on the way.
Handled(s, r) ==
  /\ SchedOK(r)
  /\ ~Outranked(r)
  /\ r.cur = Idle => (r.ready = << >> \/ s.cur = Idle)
  /\ r.priority = s.priority
  /\ r.panic = s.panic
  /\ \A t \in Thread : s.status[t] = "BLOCKED" => r.status[t] = "BLOCKED"

LEMMA SwitchedHandled ==
  ASSUME NEW s, SchedOK(s), NEW r, Switched(s, r)
  PROVE  Handled(s, r)
BY DEF Switched, Handled, SchedOK, OneRunning, AnyThread

LEMMA ThreadPreemptionHandled ==
  ASSUME NEW s, SchedOK(s)
  PROVE  Handled(s, ThreadPreemption(s))
<1>1. CASE Outranked(s)
  BY <1>1, ThreadYieldSwitched, SwitchedHandled DEF ThreadPreemption
<1>2. CASE ~Outranked(s)
  BY <1>2 DEF ThreadPreemption, Handled
<1> QED
  BY <1>1, <1>2

LEMMA IntrReturnHandled ==
  ASSUME NEW s, SchedOK(s), ~s.panic, Outranked(s) => s.yield_on_return
  PROVE  Handled(s, IntrReturn(s))
<1> DEFINE done == [s EXCEPT !.yield_on_return = FALSE]
<1>1. s \in SchedState /\ s.thread_ticks \in Nat
  BY DEF SchedOK, ReadyOK, SchedState
<1>2. done = [s EXCEPT !.thread_ticks = s.thread_ticks, !.yield_on_return = FALSE]
  BY <1>1 DEF SchedState
<1>3. done \in SchedState /\ SameThreads(s, done)
  BY <1>1, <1>2, SetTicksAndFlag
<1>4. IntrReturn(s) = IF s.yield_on_return THEN ThreadYield(done) ELSE done
  BY DEF IntrReturn
<1> HIDE DEF done
<1>5. SchedOK(done) /\ (Outranked(done) <=> Outranked(s))
  BY <1>3, SameThreadsOK
<1>6. CASE s.yield_on_return
  <2>1. Handled(done, ThreadYield(done))
    BY <1>5, ThreadYieldSwitched, SwitchedHandled
  <2> QED
    BY <1>3, <1>4, <1>6, <2>1 DEF Handled, SameThreads
<1>7. CASE ~s.yield_on_return
  BY <1>3, <1>4, <1>5, <1>7 DEF Handled, SameThreads
<1> QED
  BY <1>6, <1>7

\* A whole interrupt whose handler ends in thread_preemption.
LEMMA InterruptHandled ==
  ASSUME NEW s, SchedOK(s), ~s.panic
  PROVE  Handled(s, IntrReturn(IntrPreemption(s)))
<1> DEFINE p == IntrPreemption(s)
<1>1. /\ p \in SchedState /\ SameThreads(s, p)
      /\ Outranked(s) => p.yield_on_return
  BY IntrPreemptionOK
<1> HIDE DEF p
<1>2. SchedOK(p) /\ (Outranked(p) <=> Outranked(s)) /\ ~p.panic
  BY <1>1, SameThreadsOK DEF SameThreads
<1>3. Handled(p, IntrReturn(p))
  BY <1>1, <1>2, IntrReturnHandled
<1> QED
  BY <1>1, <1>3 DEF Handled, SameThreads, p

LEMMA TimerHandled ==
  ASSUME NEW s, SchedOK(s), ~s.panic
  PROVE  Handled(s, IntrReturn(IntrPreemption(ThreadTick(s))))
<1> DEFINE p == ThreadTick(s)
<1>1. p \in SchedState /\ SameThreads(s, p)
  BY ThreadTickOK
<1> HIDE DEF p
<1>2. SchedOK(p) /\ ~p.panic
  BY <1>1, SameThreadsOK DEF SameThreads
<1>3. Handled(p, IntrReturn(IntrPreemption(p)))
  BY <1>2, InterruptHandled
<1> QED
  BY <1>1, <1>3 DEF Handled, SameThreads, p

-------------------------------------------------------------------------------
(***************************************************************************)
(* A thread that is not on the ready list gets a new priority, and perhaps *)
(* a new status: init_thread and thread_set_priority.                      *)
(***************************************************************************)
LEMMA SetPriorityFields ==
  ASSUME NEW s \in SchedState, NEW t \in AnyThread, NEW p \in Priority
  PROVE  LET u == [s EXCEPT !.priority[t] = p]
         IN  /\ u \in SchedState
             /\ u.cur = s.cur /\ u.status = s.status /\ u.ready = s.ready
             /\ u.panic = s.panic
             /\ u.priority[t] = p
             /\ \A v \in AnyThread : v # t => u.priority[v] = s.priority[v]
BY DEF SchedState

LEMMA SetPriorityOK ==
  ASSUME NEW s, SchedOK(s), NEW t \in Thread, t \notin ToSet(s.ready),
         NEW p \in Priority
  PROVE  LET u == [s EXCEPT !.priority[t] = p]
         IN  /\ SchedOK(u)
             /\ u.cur = s.cur /\ u.status = s.status /\ u.ready = s.ready
             /\ u.panic = s.panic
             /\ t # s.cur => (Outranked(u) <=> Outranked(s))
<1> DEFINE u == [s EXCEPT !.priority[t] = p]
<1>1. s \in SchedState /\ t \in AnyThread /\ s.cur \in AnyThread
      /\ s.ready \in Seq(AnyThread)
  BY DEF SchedOK, ReadyOK, SchedState, AnyThread
<1>2. /\ u \in SchedState
      /\ u.cur = s.cur /\ u.status = s.status /\ u.ready = s.ready
      /\ u.panic = s.panic
      /\ \A v \in AnyThread : v # t => u.priority[v] = s.priority[v]
  BY <1>1, SetPriorityFields
<1> HIDE DEF u
<1>3. \A i \in DOMAIN s.ready :
        s.ready[i] \in AnyThread /\ u.priority[s.ready[i]] = s.priority[s.ready[i]]
  BY <1>1, <1>2 DEF ToSet
<1>4. ReadyListSorted(u)
  BY <1>2, <1>3 DEF ReadyListSorted, SortedByPriority, SchedOK, ReadyOK
<1>5. SchedOK(u)
  BY <1>2, <1>4 DEF SchedOK, ReadyOK, ReadyListExact, OneRunning
<1>6. ASSUME t # s.cur
      PROVE  Outranked(u) <=> Outranked(s)
  <2>1. CASE s.ready = << >>
    BY <2>1, <1>2 DEF Outranked
  <2>2. CASE s.ready # << >>
    <3>1. 1 \in DOMAIN s.ready /\ Head(s.ready) = s.ready[1]
      BY <2>2, <1>1, EmptySeq, LenProperties
    <3> QED
      BY <3>1, <1>1, <1>2, <1>3, <1>6 DEF Outranked
  <2> QED
    BY <2>1, <2>2
<1> QED
  BY <1>2, <1>5, <1>6 DEF u

LEMMA InitThreadOK ==
  ASSUME NEW s, SchedOK(s), NEW t \in Thread, s.status[t] = "FREE",
         NEW p \in Priority
  PROVE  LET r == InitThread(s, t, p)
         IN  /\ SchedOK(r)
             /\ r.cur = s.cur /\ r.ready = s.ready /\ r.panic = s.panic
             /\ Outranked(r) <=> Outranked(s)
             /\ r.status[t] = "BLOCKED"
             /\ \A v \in AnyThread : v # t => r.status[v] = s.status[v]
<1> DEFINE u == Restate(s, t, "BLOCKED", s.ready)
           r == [u EXCEPT !.priority[t] = p]
<1>1. s \in SchedState /\ t \in AnyThread /\ s.ready \in Seq(AnyThread)
      /\ "BLOCKED" \in Status
  BY DEF SchedOK, ReadyOK, SchedState, AnyThread, Status
<1>2. InitThread(s, t, p) = r
  BY DEF InitThread
<1>3. /\ u \in SchedState
      /\ u.cur = s.cur /\ u.ready = s.ready /\ u.priority = s.priority
      /\ u.panic = s.panic /\ u.status[t] = "BLOCKED"
      /\ \A v \in AnyThread : v # t => u.status[v] = s.status[v]
  BY <1>1, StatusAndReady
<1> HIDE DEF u
<1>4. { v \in Thread : u.status[v] = "READY" } = { v \in Thread : s.status[v] = "READY" }
  BY <1>3 DEF AnyThread
<1>5. SchedOK(u) /\ t \notin ToSet(u.ready)
  BY <1>3, <1>4
     DEF SchedOK, ReadyOK, ReadyListExact, ReadyListSorted, OneRunning
<1>6. t # u.cur
  BY <1>3 DEF SchedOK, OneRunning, AnyThread
<1>7. /\ SchedOK(r)
      /\ r.cur = u.cur /\ r.status = u.status /\ r.ready = u.ready
      /\ r.panic = u.panic
      /\ Outranked(r) <=> Outranked(u)
  BY <1>5, <1>6, SetPriorityOK
<1>8. Outranked(u) <=> Outranked(s)
  BY <1>3 DEF Outranked
<1> HIDE DEF r
<1> QED
  BY <1>2, <1>3, <1>7, <1>8

-------------------------------------------------------------------------------
(***************************************************************************)
(* Who is blocked after a step of the scheduler.                           *)
(***************************************************************************)
Blocked(s) == { t \in Thread : s.status[t] = "BLOCKED" }

\* A step that may take the CPU from the current thread and does nothing else
\* that anybody who waits can tell.
Preempted(s, r) ==
  SchedOK(r) /\ r.priority = s.priority /\ r.panic = s.panic /\ Blocked(r) = Blocked(s)

LEMMA YieldPreempts ==
  ASSUME NEW s, SchedOK(s)
  PROVE  Preempted(s, ThreadYield(s))
<1>1. Switched(s, ThreadYield(s))
  BY ThreadYieldSwitched
<1>2. s.cur \in Thread => ThreadYield(s).status[s.cur] # "BLOCKED" /\ s.status[s.cur] # "BLOCKED"
  <2> SUFFICES ASSUME s.cur \in Thread
               PROVE  ThreadYield(s).status[s.cur] # "BLOCKED" /\ s.status[s.cur] # "BLOCKED"
    OBVIOUS
  <2> DEFINE u == Restate(s, s.cur, "READY", InsertByPriority(s.ready, s.cur, s.priority))
  <2>1. /\ s \in SchedState /\ ReadyOK(s)
        /\ s.cur \in AnyThread /\ s.status[s.cur] = "RUNNING" /\ s.cur # Idle
    BY ThreadsAssumption DEF SchedOK, ReadyOK, OneRunning, AnyThread
  <2>2. ReadyOK(u) /\ u.status[s.cur] = "READY"
    BY <2>1, JoinReadyList
  <2>3. ThreadYield(s) = Schedule(u)
    BY <2>1 DEF ThreadYield
  <2>4. u \in SchedState
    BY <2>2 DEF ReadyOK
  <2> HIDE DEF u
  <2> QED
    BY <2>1, <2>2, <2>3, <2>4, ScheduleFields
<1> QED
  BY <1>1, <1>2 DEF Switched, Preempted, Blocked

LEMMA NothingPreempts ==
  ASSUME NEW s, SchedOK(s)
  PROVE  Preempted(s, s)
BY DEF Preempted

LEMMA ThreadPreemptionPreempts ==
  ASSUME NEW s, SchedOK(s)
  PROVE  Preempted(s, ThreadPreemption(s))
BY YieldPreempts, NothingPreempts DEF ThreadPreemption

LEMMA InterruptedPreempts ==
  ASSUME NEW s, SchedOK(s), NEW r \in Interrupted(s)
  PROVE  Preempted(s, r)
BY YieldPreempts, NothingPreempts DEF Interrupted

LEMMA ThreadBlockBlocks ==
  ASSUME NEW s, SchedOK(s)
  PROVE  LET r == ThreadBlock(s)
         IN  /\ SchedOK(r) /\ r.priority = s.priority /\ r.panic = s.panic
             /\ Blocked(r) = Blocked(s) \union ({s.cur} \intersect Thread)
<1>1. Switched(s, ThreadBlock(s))
  BY ThreadBlockSwitched
<1>2. s.cur \in Thread => ThreadBlock(s).status[s.cur] = "BLOCKED"
  <2> SUFFICES ASSUME s.cur \in Thread
               PROVE  ThreadBlock(s).status[s.cur] = "BLOCKED"
    OBVIOUS
  <2> DEFINE u == Restate(s, s.cur, "BLOCKED", s.ready)
  <2>1. /\ s \in SchedState /\ s.ready \in Seq(AnyThread) /\ s.cur \in AnyThread
        /\ s.cur # Idle /\ "BLOCKED" \in Status /\ s.status[s.cur] = "RUNNING"
    BY ThreadsAssumption DEF SchedOK, ReadyOK, OneRunning, SchedState, AnyThread, Status
  <2>2. /\ u \in SchedState /\ u.status[s.cur] = "BLOCKED" /\ u.ready = s.ready
        /\ u.cur = s.cur
    BY <2>1, StatusAndReady
  <2>3. s.cur \notin ToSet(s.ready)
    BY <2>1 DEF SchedOK, ReadyOK, ReadyListExact
  <2>4. NextThreadToRun(u) # s.cur
    <3>1. CASE s.ready = << >>
      BY <2>1, <2>2, <3>1 DEF NextThreadToRun
    <3>2. CASE s.ready # << >>
      <4>1. Head(s.ready) \in ToSet(s.ready)
        BY <2>1, <3>2, PopFront DEF SchedOK, ReadyOK, ReadyListExact
      <4> QED
        BY <2>2, <2>3, <3>2, <4>1 DEF NextThreadToRun
    <3> QED
      BY <3>1, <3>2
  <2>5. ThreadBlock(s) = Schedule(u)
    BY DEF ThreadBlock
  <2> HIDE DEF u
  <2> QED
    BY <2>1, <2>2, <2>4, <2>5, ScheduleFields
<1> QED
  BY <1>1, <1>2 DEF Switched, Blocked

LEMMA ThreadUnblockUnblocks ==
  ASSUME NEW s, SchedOK(s), NEW t \in Blocked(s)
  PROVE  LET r == ThreadUnblock(s, t)
         IN  /\ SchedOK(r) /\ r.cur = s.cur /\ r.priority = s.priority
             /\ r.panic = s.panic
             /\ Blocked(r) = Blocked(s) \ {t}
             /\ r.status[t] = "READY"
<1> DEFINE u == Restate(s, t, "READY", InsertByPriority(s.ready, t, s.priority))
<1>1. t \in Thread /\ s.status[t] = "BLOCKED"
  BY DEF Blocked
<1>2. ThreadUnblock(s, t) = u
  BY <1>1 DEF ThreadUnblock
<1>3. u.status[t] = "READY"
  BY <1>1, JoinReadyList DEF SchedOK
<1>4. /\ SchedOK(u) /\ u.cur = s.cur /\ u.priority = s.priority /\ u.panic = s.panic
      /\ \A v \in AnyThread : v # t => u.status[v] = s.status[v]
  BY <1>1, <1>2, ThreadUnblockOK
<1> HIDE DEF u
<1> QED
  BY <1>1, <1>2, <1>3, <1>4 DEF Blocked, AnyThread

-------------------------------------------------------------------------------
(***************************************************************************)
(* sema_down and sema_up.                                                  *)
(***************************************************************************)
SemaState == [value : Nat, waiters : Seq(Thread)]

LEMMA SeqOfThreads == Seq(Thread) \subseteq Seq(AnyThread)
BY SeqMonotonic DEF AnyThread

LEMMA DownSemaWaits ==
  ASSUME NEW s, s.cur \in Thread,
         NEW sema \in SemaState, MustWait(sema),
         Distinct(sema.waiters), s.cur \notin ToSet(sema.waiters)
  PROVE  LET d == DownSema(s, sema)
         IN  /\ d \in SemaState /\ d.value = sema.value
             /\ Distinct(d.waiters)
             /\ ToSet(d.waiters) = ToSet(sema.waiters) \union {s.cur}
<1> DEFINE list == InsertByPriority(sema.waiters, s.cur, s.priority)
<1>1. sema.waiters \in Seq(Thread) /\ sema.value \in Nat
  BY DEF SemaState
<1>2. /\ list \in Seq(Thread)
      /\ ToSet(list) = ToSet(sema.waiters) \union {s.cur}
      /\ Distinct(list)
  BY <1>1, InsertOrderedSet DEF InsertByPriority
<1>3. DownSema(s, sema) = [sema EXCEPT !.waiters = list]
  BY DEF DownSema
<1> HIDE DEF list
<1>4. DownSema(s, sema) = [value |-> sema.value, waiters |-> list]
  BY <1>3 DEF SemaState
<1> QED
  BY <1>1, <1>2, <1>4 DEF SemaState

LEMMA DownSemaTakes ==
  ASSUME NEW s, NEW sema \in SemaState, ~MustWait(sema)
  PROVE  LET d == DownSema(s, sema)
         IN  /\ d \in SemaState /\ d.value = sema.value - 1
             /\ d.waiters = sema.waiters /\ sema.value > 0
BY DEF DownSema, MustWait, SemaState

LEMMA TryDownSemaTakes ==
  ASSUME NEW sema \in SemaState
  PROVE  LET d == TryDownSema(sema)
         IN  /\ d \in SemaState /\ d.waiters = sema.waiters
             /\ d.value = IF sema.value > 0 THEN sema.value - 1 ELSE sema.value
BY DEF TryDownSema, SemaState

\* sema_up without a waiter counts; with one it also wakes a waiter of the
\* highest priority, which was blocked, and takes it off the list.
LEMMA UpCounts ==
  ASSUME NEW s, NEW sema \in SemaState, sema.waiters = << >>
  PROVE  /\ UpSema(s, sema) = [value |-> sema.value + 1, waiters |-> << >>]
         /\ UpSema(s, sema) \in SemaState
         /\ UpSched(s, sema) = s
<1>1. << >> \in Seq(Thread) /\ sema.value + 1 \in Nat
  BY DEF SemaState
<1> QED
  BY <1>1 DEF UpSema, UpSched, SemaState

LEMMA UpWakes ==
  ASSUME NEW s, SchedOK(s), NEW sema \in SemaState, sema.waiters # << >>,
         Distinct(sema.waiters), ToSet(sema.waiters) \subseteq Blocked(s)
  PROVE  LET d == UpSema(s, sema)
             r == UpSched(s, sema)
             w == Head(ToWake(s, sema))
         IN  /\ d \in SemaState /\ d.value = sema.value + 1
             /\ Distinct(d.waiters)
             /\ w \in ToSet(sema.waiters)
             /\ ToSet(d.waiters) = ToSet(sema.waiters) \ {w}
             /\ \A t \in ToSet(sema.waiters) : s.priority[w] >= s.priority[t]
             /\ SchedOK(r) /\ r.cur = s.cur /\ r.priority = s.priority
             /\ r.panic = s.panic
             /\ Blocked(r) = Blocked(s) \ {w}
             /\ r.status[w] = "READY"
<1> DEFINE list == ToWake(s, sema)
           w == Head(list)
           n == Len(list)
<1>0. s.priority \in [AnyThread -> Priority]
  BY DEF SchedOK, ReadyOK, SchedState
<1>1. /\ sema.waiters \in Seq(Thread) /\ sema.value + 1 \in Nat
      /\ s.priority \in [AnyThread -> Int]
  BY <1>0, PriorityIsInt DEF SemaState
<1>2. \A t \in Thread : s.priority[t] \in Int
  BY <1>1 DEF AnyThread
<1>3. /\ list \in Seq(Thread) /\ n = Len(sema.waiters)
      /\ ToSet(list) = ToSet(sema.waiters) /\ Distinct(list)
      /\ SortedByPriority(list, s.priority)
  BY <1>1, <1>2, SortKeeps DEF ToWake
<1>4. n \in Nat /\ n >= 1 /\ DOMAIN list = 1 .. n /\ list # << >> /\ w = list[1]
  BY <1>1, <1>3, EmptySeq, LenProperties
<1> HIDE DEF list, n
<1>5. /\ w \in ToSet(list) /\ w \in Thread /\ Tail(list) \in Seq(Thread)
      /\ ToSet(Tail(list)) = ToSet(list) \ {w} /\ Distinct(Tail(list))
  BY <1>3, <1>4, PopFront
<1>6. ASSUME NEW t \in ToSet(list)
      PROVE  s.priority[w] >= s.priority[t]
  <2>1. PICK i \in 1 .. n : list[i] = t
    BY <1>4 DEF ToSet
  <2>2. CASE i = 1
    BY <1>2, <1>4, <1>5, <2>1, <2>2
  <2>3. CASE i # 1
    <3>1. 1 \in 1 .. n /\ 1 < i
      BY <1>4, <2>3
    <3> QED
      BY <1>3, <1>4, <2>1, <3>1 DEF SortedByPriority
  <2> QED
    BY <2>2, <2>3
<1>7. UpSema(s, sema) = [value |-> sema.value + 1, waiters |-> Tail(list)]
  BY DEF UpSema, list
<1>8. UpSched(s, sema) = ThreadUnblock(s, w)
  BY DEF UpSched, list
<1>9. w \in Blocked(s)
  BY <1>3, <1>5
<1> HIDE DEF w
<1>10. UpSema(s, sema) \in SemaState
  BY <1>1, <1>5, <1>7 DEF SemaState
<1> QED
  BY <1>3, <1>5, <1>6, <1>7, <1>8, <1>9, <1>10, ThreadUnblockUnblocks DEF w, list

-------------------------------------------------------------------------------
(***************************************************************************)
(* The kernel after its threads have been started.                         *)
(***************************************************************************)

\* A list as long as a finite set, of distinct elements of it, has them all.
LEMMA ListOfAll ==
  ASSUME NEW S, IsFiniteSet(S), NEW list \in [1 .. Cardinality(S) -> S], Distinct(list)
  PROVE  list \in Seq(S) /\ ToSet(list) = S
<1> DEFINE n == Cardinality(S)
<1>1. n \in Nat
  BY FS_CardinalityType
<1>2. list \in Injection(1 .. n, S)
  BY DEF Injection, IsInjective, Distinct
<1>3. Cardinality(1 .. n) = n
  <2>1. n \in Int /\ 1 \in Int /\ (IF 1 > n THEN 0 ELSE n - 1 + 1) = n
    BY <1>1
  <2> HIDE DEF n
  <2> QED
    BY <2>1, FS_Interval
<1>4. list \in Surjection(1 .. n, S)
  BY <1>2, <1>3, FS_Injection
<1>5. list \in Seq(S)
  BY <1>1
<1> QED
  BY <1>4, <1>5 DEF Surjection, ToSet

LEMMA StartedOK ==
  ASSUME NEW order \in [1 .. Cardinality(Thread \ {Main}) -> Thread \ {Main}],
         Distinct(order), NEW priority \in [Thread -> Priority]
  PROVE  LET s == StartedSched(order, priority)
         IN  /\ SchedOK(s)
             /\ ~s.panic /\ s.cur = Main /\ Blocked(s) = {}
             /\ \A t \in Thread : s.priority[t] = priority[t]
<1> DEFINE s == StartedSched(order, priority)
           status == [t \in AnyThread |-> IF t = Main THEN "RUNNING" ELSE "READY"]
           level == [t \in AnyThread |-> IF t = Idle THEN PRI_MIN ELSE priority[t]]
           list == SortByPriority(order, priority)
<1>1. /\ Main \in AnyThread /\ Main \in Thread /\ Idle \in AnyThread /\ Idle \notin Thread
      /\ Thread \subseteq AnyThread /\ PRI_MIN \in Priority
  BY ThreadsAssumption, PriorityIsInt DEF AnyThread
<1>2. order \in Seq(Thread \ {Main}) /\ ToSet(order) = Thread \ {Main}
  <2>1. IsFiniteSet(Thread \ {Main})
    BY ThreadsAssumption, FS_RemoveElement
  <2> QED
    BY <2>1, ListOfAll
<1>3. \A t \in Thread \ {Main} : priority[t] \in Int
  BY PriorityIsInt
<1>4. /\ list \in Seq(Thread \ {Main}) /\ ToSet(list) = Thread \ {Main}
      /\ Distinct(list) /\ SortedByPriority(list, priority)
  BY <1>2, <1>3, SortKeeps
<1>5. list \in Seq(AnyThread)
  BY <1>1, <1>4, SeqMonotonic
<1> HIDE DEF list
<1>6. s = [cur |-> Main, status |-> status, priority |-> level, ready |-> list,
           thread_ticks |-> 0, yield_on_return |-> FALSE, panic |-> FALSE]
  <2>1. s = [InitialSched EXCEPT !.status = status, !.priority = level, !.ready = list]
    BY DEF StartedSched, list
  <2>2. PICK x, y : InitialSched = [cur |-> Main, status |-> x, priority |-> y,
                                    ready |-> << >>, thread_ticks |-> 0,
                                    yield_on_return |-> FALSE, panic |-> FALSE]
    BY DEF InitialSched
  <2> HIDE DEF s, status, level
  <2>3. s = [[cur |-> Main, status |-> x, priority |-> y, ready |-> << >>,
              thread_ticks |-> 0, yield_on_return |-> FALSE, panic |-> FALSE]
             EXCEPT !.status = status, !.priority = level, !.ready = list]
    BY <2>1, <2>2
  <2> QED
    BY <2>3
<1>7. status \in [AnyThread -> Status] /\ level \in [AnyThread -> Priority]
  BY <1>1 DEF Status, AnyThread
<1> HIDE DEF s, status, level
<1>8. s \in SchedState
  BY <1>1, <1>5, <1>6, <1>7 DEF SchedState
<1>9. /\ s.cur = Main /\ s.status = status /\ s.priority = level /\ s.ready = list
      /\ s.panic = FALSE
  BY <1>6
<1>10. OneRunning(s)
  BY <1>1, <1>9 DEF OneRunning, status
<1>11. ReadyListExact(s)
  BY <1>1, <1>4, <1>9 DEF ReadyListExact, status, AnyThread
<1>12. \A t \in Thread : level[t] = priority[t]
  BY <1>1 DEF level
<1>13. ReadyListSorted(s)
  <2>1. \A i \in DOMAIN list : list[i] \in Thread
    BY <1>4 DEF ToSet
  <2> QED
    BY <1>4, <1>9, <1>12, <2>1 DEF ReadyListSorted, SortedByPriority
<1>14. Blocked(s) = {}
  BY <1>1, <1>9 DEF Blocked, status
<1> QED
  BY <1>8, <1>9, <1>10, <1>11, <1>12, <1>13, <1>14 DEF SchedOK, ReadyOK, s

-------------------------------------------------------------------------------
(***************************************************************************)
(* Donations leave the ready list out of order.  What the scheduler keeps  *)
(* of SchedOK even then: who runs, and that the list holds those who are   *)
(* READY.                                                                  *)
(***************************************************************************)
SchedSound(s) == s \in SchedState /\ ReadyListExact(s) /\ OneRunning(s)

LEMMA OKIsSound ==
  ASSUME NEW s, SchedOK(s)
  PROVE  SchedSound(s)
BY DEF SchedOK, ReadyOK, SchedSound

\* schedule when nobody is RUNNING: it blocks and unblocks nobody.
LEMMA ScheduleSound ==
  ASSUME NEW s \in SchedState, ReadyListExact(s),
         \A t \in AnyThread : s.status[t] # "RUNNING"
  PROVE  LET r == Schedule(s)
         IN  /\ SchedSound(r) /\ r.priority = s.priority /\ r.panic = s.panic
             /\ Blocked(r) = Blocked(s)
<1> DEFINE r == Schedule(s)
           next == NextThreadToRun(s)
<1>1. /\ r \in SchedState /\ next \in AnyThread /\ r.cur = next
      /\ r.ready = IF s.ready = << >> THEN s.ready ELSE Tail(s.ready)
      /\ r.priority = s.priority /\ r.panic = s.panic
      /\ \A t \in AnyThread :
           r.status[t] = IF t = next THEN "RUNNING"
                         ELSE IF t = s.cur /\ s.status[t] = "DYING" /\ t # Main
                              THEN "FREE" ELSE s.status[t]
  BY ScheduleFields
<1> HIDE DEF r
<1>2. OneRunning(r)
  BY <1>1 DEF OneRunning
<1>3. s.ready \in Seq(AnyThread) /\ Distinct(s.ready)
  BY DEF SchedState, ReadyListExact
<1>4. Idle \notin Thread /\ Thread \subseteq AnyThread
  BY ThreadsAssumption DEF AnyThread
<1>5. CASE s.ready = << >>
  <2>1. next = Idle /\ r.ready = s.ready
    BY <1>1, <1>5 DEF NextThreadToRun
  <2> HIDE DEF next
  <2>2. ReadyListExact(r) /\ Blocked(r) = Blocked(s)
    BY <1>1, <1>4, <2>1 DEF ReadyListExact, Blocked
  <2> QED
    BY <1>1, <1>2, <2>2 DEF SchedSound, r
<1>6. CASE s.ready # << >>
  <2>1. /\ next \in ToSet(s.ready) /\ ToSet(r.ready) = ToSet(s.ready) \ {next}
        /\ Distinct(r.ready)
    BY <1>1, <1>3, <1>6, PopFront DEF NextThreadToRun
  <2> HIDE DEF next
  <2>2. next \in Thread /\ s.status[next] = "READY"
    BY <2>1 DEF ReadyListExact
  <2>3. ReadyListExact(r) /\ Blocked(r) = Blocked(s)
    BY <1>1, <1>4, <2>1, <2>2 DEF ReadyListExact, Blocked
  <2> QED
    BY <1>1, <1>2, <2>3 DEF SchedSound, r
<1> QED
  BY <1>5, <1>6

\* A thread that is not READY joins the ready list as it becomes so.
LEMMA JoinSound ==
  ASSUME NEW s \in SchedState, ReadyListExact(s), NEW t \in Thread, s.status[t] # "READY"
  PROVE  LET u == Restate(s, t, "READY", InsertByPriority(s.ready, t, s.priority))
         IN  /\ u \in SchedState /\ ReadyListExact(u)
             /\ u.cur = s.cur /\ u.priority = s.priority /\ u.panic = s.panic
             /\ u.status[t] = "READY"
             /\ \A v \in AnyThread : v # t => u.status[v] = s.status[v]
<1> DEFINE list == InsertByPriority(s.ready, t, s.priority)
           u == Restate(s, t, "READY", list)
<1>1. /\ s.ready \in Seq(AnyThread) /\ t \in AnyThread /\ Thread \subseteq AnyThread
      /\ "READY" \in Status /\ t \notin ToSet(s.ready) /\ Distinct(s.ready)
  BY DEF SchedState, AnyThread, Status, ReadyListExact
<1>2. /\ list \in Seq(AnyThread) /\ ToSet(list) = ToSet(s.ready) \union {t}
      /\ Distinct(list)
  BY <1>1, InsertOrderedSet DEF InsertByPriority
<1> HIDE DEF list
<1>3. /\ u \in SchedState
      /\ u.cur = s.cur /\ u.ready = list /\ u.priority = s.priority /\ u.panic = s.panic
      /\ u.status[t] = "READY"
      /\ \A v \in AnyThread : v # t => u.status[v] = s.status[v]
  BY <1>1, <1>2, StatusAndReady
<1> HIDE DEF u
<1>4. ReadyListExact(u)
  BY <1>1, <1>2, <1>3 DEF ReadyListExact
<1> QED
  BY <1>3, <1>4 DEF u, list

LEMMA YieldSound ==
  ASSUME NEW s, SchedSound(s)
  PROVE  LET r == ThreadYield(s)
         IN  /\ SchedSound(r) /\ r.priority = s.priority /\ r.panic = s.panic
             /\ Blocked(r) = Blocked(s)
<1>1. /\ s \in SchedState /\ ReadyListExact(s) /\ s.cur \in AnyThread
      /\ s.status[s.cur] = "RUNNING" /\ Idle \notin Thread /\ Thread \subseteq AnyThread
      /\ "READY" \in Status /\ s.ready \in Seq(AnyThread)
      /\ \A t \in AnyThread : t # s.cur => s.status[t] # "RUNNING"
  BY ThreadsAssumption DEF SchedSound, SchedState, OneRunning, AnyThread, Status
<1>2. PICK u \in SchedState :
        /\ ThreadYield(s) = Schedule(u) /\ ReadyListExact(u)
        /\ u.priority = s.priority /\ u.panic = s.panic /\ u.status[s.cur] = "READY"
        /\ \A v \in AnyThread : v # s.cur => u.status[v] = s.status[v]
  <2>1. CASE s.cur = Idle
    <3> DEFINE u == Restate(s, s.cur, "READY", s.ready)
    <3>1. /\ u \in SchedState /\ u.ready = s.ready
          /\ u.priority = s.priority /\ u.panic = s.panic /\ u.status[s.cur] = "READY"
          /\ \A v \in AnyThread : v # s.cur => u.status[v] = s.status[v]
      BY <1>1, StatusAndReady
    <3>2. ThreadYield(s) = Schedule(u)
      BY <2>1 DEF ThreadYield
    <3> HIDE DEF u
    <3>3. ReadyListExact(u)
      BY <1>1, <2>1, <3>1 DEF ReadyListExact
    <3> QED
      BY <3>1, <3>2, <3>3
  <2>2. CASE s.cur # Idle
    <3> DEFINE u == Restate(s, s.cur, "READY", InsertByPriority(s.ready, s.cur, s.priority))
    <3>1. s.cur \in Thread
      BY <1>1, <2>2 DEF AnyThread
    <3>2. /\ u \in SchedState /\ ReadyListExact(u)
          /\ u.priority = s.priority /\ u.panic = s.panic /\ u.status[s.cur] = "READY"
          /\ \A v \in AnyThread : v # s.cur => u.status[v] = s.status[v]
      BY <1>1, <3>1, JoinSound
    <3>3. ThreadYield(s) = Schedule(u)
      BY <2>2 DEF ThreadYield
    <3> HIDE DEF u
    <3> QED
      BY <3>2, <3>3
  <2> QED
    BY <2>1, <2>2
<1>3. Blocked(u) = Blocked(s)
  BY <1>1, <1>2 DEF Blocked
<1>4. \A t \in AnyThread : u.status[t] # "RUNNING"
  BY <1>1, <1>2
<1> DEFINE r == Schedule(u)
<1>5. SchedSound(r) /\ r.priority = u.priority /\ r.panic = u.panic /\ Blocked(r) = Blocked(u)
  BY <1>2, <1>4, ScheduleSound
<1> HIDE DEF r
<1> QED
  BY <1>2, <1>3, <1>5 DEF r

LEMMA BlockSound ==
  ASSUME NEW s, SchedSound(s)
  PROVE  LET r == ThreadBlock(s)
         IN  /\ SchedSound(r) /\ r.priority = s.priority /\ r.panic = s.panic
             /\ Blocked(r) = Blocked(s) \union ({s.cur} \intersect Thread)
<1> DEFINE u == Restate(s, s.cur, "BLOCKED", s.ready)
<1>1. /\ s \in SchedState /\ ReadyListExact(s) /\ s.cur \in AnyThread
      /\ s.status[s.cur] = "RUNNING" /\ Thread \subseteq AnyThread
      /\ "BLOCKED" \in Status /\ s.ready \in Seq(AnyThread)
      /\ \A t \in AnyThread : t # s.cur => s.status[t] # "RUNNING"
  BY DEF SchedSound, SchedState, OneRunning, AnyThread, Status
<1>2. /\ u \in SchedState /\ u.ready = s.ready
      /\ u.priority = s.priority /\ u.panic = s.panic /\ u.status[s.cur] = "BLOCKED"
      /\ \A v \in AnyThread : v # s.cur => u.status[v] = s.status[v]
  BY <1>1, StatusAndReady
<1>3. ThreadBlock(s) = Schedule(u)
  BY DEF ThreadBlock
<1> HIDE DEF u
<1>4. ReadyListExact(u) /\ Blocked(u) = Blocked(s) \union ({s.cur} \intersect Thread)
  BY <1>1, <1>2 DEF ReadyListExact, Blocked
<1>5. \A t \in AnyThread : u.status[t] # "RUNNING"
  BY <1>1, <1>2
<1> DEFINE r == Schedule(u)
<1>6. SchedSound(r) /\ r.priority = u.priority /\ r.panic = u.panic /\ Blocked(r) = Blocked(u)
  BY <1>2, <1>4, <1>5, ScheduleSound
<1> HIDE DEF r
<1> QED
  BY <1>2, <1>3, <1>4, <1>6 DEF r

LEMMA UnblockSound ==
  ASSUME NEW s, SchedSound(s), NEW t \in Blocked(s)
  PROVE  LET r == ThreadUnblock(s, t)
         IN  /\ SchedSound(r) /\ r.cur = s.cur /\ r.priority = s.priority
             /\ r.panic = s.panic /\ Blocked(r) = Blocked(s) \ {t}
<1> DEFINE u == Restate(s, t, "READY", InsertByPriority(s.ready, t, s.priority))
<1>1. /\ t \in Thread /\ s.status[t] = "BLOCKED" /\ Thread \subseteq AnyThread
      /\ s \in SchedState /\ ReadyListExact(s)
  BY DEF Blocked, SchedSound, AnyThread
<1>2. ThreadUnblock(s, t) = u
  BY <1>1 DEF ThreadUnblock
<1>3. /\ u \in SchedState /\ ReadyListExact(u)
      /\ u.cur = s.cur /\ u.priority = s.priority /\ u.panic = s.panic
      /\ u.status[t] = "READY"
      /\ \A v \in AnyThread : v # t => u.status[v] = s.status[v]
  BY <1>1, JoinSound
<1> HIDE DEF u
<1>4. OneRunning(u) /\ Blocked(u) = Blocked(s) \ {t}
  BY <1>1, <1>3 DEF SchedSound, OneRunning, Blocked
<1> QED
  BY <1>2, <1>3, <1>4 DEF SchedSound

LEMMA PreemptionSound ==
  ASSUME NEW s, SchedSound(s)
  PROVE  LET r == ThreadPreemption(s)
         IN  SchedSound(r) /\ r.panic = s.panic /\ Blocked(r) = Blocked(s)
<1>1. CASE Outranked(s)
  BY <1>1, YieldSound DEF ThreadPreemption
<1>2. CASE ~Outranked(s)
  BY <1>2 DEF ThreadPreemption
<1> QED
  BY <1>1, <1>2

LEMMA InterruptedSound ==
  ASSUME NEW s, SchedSound(s), NEW r \in Interrupted(s)
  PROVE  SchedSound(r) /\ r.panic = s.panic /\ Blocked(r) = Blocked(s)
<1>1. r = ThreadYield(s) \/ r = s
  BY DEF Interrupted
<1> QED
  BY <1>1, YieldSound

LEMMA UpSound ==
  ASSUME NEW s, SchedSound(s), NEW sema \in SemaState,
         Distinct(sema.waiters), ToSet(sema.waiters) \subseteq Blocked(s)
  PROVE  LET d == UpSema(s, sema)
             r == UpSched(s, sema)
         IN  /\ d \in SemaState /\ d.value = sema.value + 1 /\ Distinct(d.waiters)
             /\ SchedSound(r) /\ r.panic = s.panic
             /\ \E W \in SUBSET ToSet(sema.waiters) :
                  /\ ToSet(d.waiters) = ToSet(sema.waiters) \ W
                  /\ Blocked(r) = Blocked(s) \ W
                  /\ ToSet(sema.waiters) # {} => W # {}
<1> DEFINE d == UpSema(s, sema)
           r == UpSched(s, sema)
<1>1. CASE sema.waiters = << >>
  <2>1. d = [value |-> sema.value + 1, waiters |-> << >>] /\ d \in SemaState /\ r = s
    BY <1>1, UpCounts
  <2>2. ToSet(<< >>) = {} /\ Distinct(<< >>)
    BY DEF ToSet, Distinct
  <2> HIDE DEF d, r
  <2>3. d.value = sema.value + 1 /\ d.waiters = << >>
    BY <2>1
  <2>4. /\ ToSet(d.waiters) = ToSet(sema.waiters) \ {}
        /\ Blocked(r) = Blocked(s) \ {}
        /\ ToSet(sema.waiters) = {}
    BY <1>1, <2>1, <2>2, <2>3
  <2> QED
    BY <2>1, <2>2, <2>3, <2>4 DEF d, r
<1>2. CASE sema.waiters # << >>
  <2> DEFINE list == ToWake(s, sema)
             w == Head(list)
  <2>1. /\ sema.waiters \in Seq(Thread) /\ sema.value + 1 \in Nat
        /\ s.priority \in [AnyThread -> Priority]
    BY DEF SemaState, SchedSound, SchedState
  <2>2. \A t \in Thread : s.priority[t] \in Int
    BY <2>1, PriorityIsInt DEF AnyThread
  <2>3. /\ list \in Seq(Thread) /\ Len(list) = Len(sema.waiters)
        /\ ToSet(list) = ToSet(sema.waiters) /\ Distinct(list)
    BY <2>1, <2>2, SortKeeps DEF ToWake
  <2>4. d = [value |-> sema.value + 1, waiters |-> Tail(list)] /\ r = ThreadUnblock(s, w)
    BY <1>2 DEF UpSema, UpSched
  <2> HIDE DEF list, d, r
  <2>5. list # << >>
    BY <1>2, <2>1, <2>3, EmptySeq, LenProperties
  <2>6. /\ w \in ToSet(list) /\ Tail(list) \in Seq(Thread)
        /\ ToSet(Tail(list)) = ToSet(list) \ {w} /\ Distinct(Tail(list))
    BY <2>3, <2>5, PopFront
  <2>7. w \in Blocked(s)
    BY <2>3, <2>6
  <2> HIDE DEF w
  <2>8. SchedSound(r) /\ r.panic = s.panic /\ Blocked(r) = Blocked(s) \ {w}
    BY <2>4, <2>7, UnblockSound
  <2>9. d \in SemaState /\ d.value = sema.value + 1 /\ d.waiters = Tail(list)
    BY <2>1, <2>4, <2>6 DEF SemaState
  <2>10. /\ {w} \in SUBSET ToSet(sema.waiters)
         /\ ToSet(d.waiters) = ToSet(sema.waiters) \ {w}
         /\ Blocked(r) = Blocked(s) \ {w}
    BY <2>3, <2>6, <2>8, <2>9
  <2> QED
    BY <2>6, <2>8, <2>9, <2>10 DEF d, r
<1> QED
  BY <1>1, <1>2

================================================================================
