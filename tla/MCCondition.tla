------------------------------ MODULE MCCondition ------------------------------
(***************************************************************************)
(* Small instances of Condition for TLC.                                   *)
(***************************************************************************)
EXTENDS Condition

\* The threads other than main are interchangeable.
ConditionSymmetry == Permutations(Thread \ {Main})

===============================================================================
