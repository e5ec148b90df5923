----------------------------- MODULE MCAlarmClock ------------------------------
(***************************************************************************)
(* Small instances of AlarmClock for TLC.                                  *)
(***************************************************************************)
EXTENDS AlarmClock

LateBy == -1

\* The threads other than main are interchangeable.
AlarmSymmetry == Permutations(Thread \ {Main})

===============================================================================
