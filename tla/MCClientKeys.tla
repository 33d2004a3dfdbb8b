---------------------------- MODULE MCClientKeys ----------------------------
(***************************************************************************)
(* A small instance of ClientKeys for TLC: two local presences.            *)
(***************************************************************************)
EXTENDS ClientKeys, TLC

CONSTANTS johnd, janed, nobody

EitherWay == Permutations({johnd, janed})
=============================================================================
