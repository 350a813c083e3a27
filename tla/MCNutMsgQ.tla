------------------------------ MODULE MCNutMsgQ ------------------------------
(***************************************************************************)
(* One queue that wraps around partly filled, and one that is full with one *)
(* message.                                                                 *)
(***************************************************************************)
EXTENDS NutMsgQ

CONSTANTS large, small

Sizes == [q \in MsgQ |-> IF q = large THEN 4 ELSE 2]
=============================================================================
