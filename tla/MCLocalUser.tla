---------------------------- MODULE MCLocalUser ----------------------------
(***************************************************************************)
(* A small instance of LocalUser for TLC: two gateway connections, two     *)
(* places for the library's, two messages.                                 *)
(***************************************************************************)
EXTENDS LocalUser, TLC

CONSTANTS g1, g2, m1, m2, none

Places == 1..2
=============================================================================
