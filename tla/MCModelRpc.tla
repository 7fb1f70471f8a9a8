----------------------------- MODULE MCModelRpc -----------------------------
(* The transports of the checked instance.                                 *)
EXTENDS ModelRpc

Both == {TRUE, FALSE}
Only == {FALSE}
=============================================================================
