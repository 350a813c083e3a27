----------------------------- MODULE MCNutTimer -----------------------------
(***************************************************************************)
(* Small instances of the timers.                                           *)
(***************************************************************************)
EXTENDS NutTimer

(* The heap blocks timers are put in are interchangeable.                   *)
TimerSymmetry == Permutations(Timer)
=============================================================================
