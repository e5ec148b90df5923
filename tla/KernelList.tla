------------------------------ MODULE KernelList ------------------------------
(***************************************************************************)
(* The operations of lib/kernel/list.c that the kernel uses on lists of    *)
(* threads, on the sequence of a list's elements from front to back.  A    *)
(* comparison function `less' is given by what it says of the element at   *)
(* hand: the set of elements that the element is less than.                *)
(***************************************************************************)
EXTENDS Integers, Sequences, FiniteSets, SequencesExt

(***************************************************************************)
(* list_insert_ordered walks the list and stops at the first element e     *)
(* with less (elem, e): a new element goes behind those it is equal to.    *)
(***************************************************************************)
InsertPosition(list, larger) ==
  CHOOSE i \in 1 .. Len(list) + 1 :
    /\ \A j \in 1 .. i - 1 : list[j] \notin larger
    /\ i <= Len(list) => list[i] \in larger

\* Wrong on purpose: list_push_back in place of the ordered insertion.
InsertOrderedAtBack(list, elem, larger) == Append(list, elem)

InsertOrdered(list, elem, larger) ==
  InsertAt(list, InsertPosition(list, larger), elem)

(***************************************************************************)
(* list_insert_ordered and list_sort under thread_compare with             *)
(* THREAD_COMPARE_DEC, that is, a is less than b when a's priority is      *)
(* greater.  The natural merge sort of list_sort is stable.                *)
(***************************************************************************)
InsertByPriority(list, t, priority) ==
  InsertOrdered(list, t, { e \in ToSet(list) : priority[t] > priority[e] })

SortByPriority(list, priority) ==
  LET Before(i) ==
        { j \in DOMAIN list :
            \/ priority[list[j]] > priority[list[i]]
            \/ priority[list[j]] = priority[list[i]] /\ j <= i }
  IN  [k \in DOMAIN list |->
         list[CHOOSE i \in DOMAIN list : Cardinality(Before(i)) = k]]

SortedByPriority(list, priority) ==
  \A i, j \in DOMAIN list : i < j => priority[list[i]] >= priority[list[j]]

Distinct(list) == \A i, j \in DOMAIN list : list[i] = list[j] => i = j

===============================================================================
