------------------------ MODULE MCGatewayConnection ------------------------
(***************************************************************************)
(* A small instance of GatewayConnection for TLC: the local presence's     *)
(* name, the user name the server knows us by at first, one more nickname. *)
(***************************************************************************)
EXTENDS GatewayConnection

CONSTANTS john, icecap, other
=============================================================================
