---------------------------- MODULE MCNutKernel ----------------------------
(***************************************************************************)
(* Small instances of the kernel.                                           *)
(***************************************************************************)
EXTENDS NutKernel

(* The heap blocks timers and created threads are put in are                *)
(* interchangeable.                                                         *)
TimerSymmetry == Permutations(Timer)
BlockSymmetry == TimerSymmetry \cup Permutations(Thread \ {Idle, Main})
=============================================================================
