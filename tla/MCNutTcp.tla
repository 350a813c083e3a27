------------------------------ MODULE MCNutTcp ------------------------------
(* NutTcp for TLC: sequence numbers that wrap around in the connection.     *)
EXTENDS NutTcp, TLC

MCIsn == (Client :> SeqSpace - 1) @@ (Server :> SeqSpace - 2)

ClientSends == (Client :> 2) @@ (Server :> 0)

ServerSends == (Client :> 0) @@ (Server :> 2)

ServerSendsMore == (Client :> 0) @@ (Server :> 3)

NoData == (Client :> 0) @@ (Server :> 0)
=============================================================================
