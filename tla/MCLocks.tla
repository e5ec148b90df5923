-------------------------------- MODULE MCLocks --------------------------------
(***************************************************************************)
(* Small instances of Locks for TLC.                                       *)
(***************************************************************************)
EXTENDS Locks

CONSTANTS t1, t2   \* the threads besides main

\* Three threads of three priorities, or two of them alike.
Ladder == [t \in Thread |-> CASE t = Main -> 2 [] t = t1 -> 1 [] OTHER -> 0]

MainGivesUp == [t \in Thread |-> IF t = Main THEN {PRI_MIN} ELSE {}]

\* The locks are interchangeable.
LockSymmetry == Permutations(Lock)

===============================================================================
