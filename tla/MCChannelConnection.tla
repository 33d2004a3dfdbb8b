------------------------ MODULE MCChannelConnection ------------------------
(***************************************************************************)
(* Small instances of ChannelConnection for TLC.                           *)
(***************************************************************************)
EXTENDS ChannelConnection, TLC

CONSTANTS a, b, u1, u2, x, y, z, w

OneUser == {u1}
TwoUsers == {u1, u2}
TwoNicks == {x, y}
ThreeNicks == {x, y, z}
FourNicks == {x, y, z, w}
OneNick == u1 :> x
DistinctNicks == (u1 :> x) @@ (u2 :> y)

\* strcasecmp tells all the nicknames apart / takes x and z for the same.
NoFold == [n \in Nicks |-> n]
FoldXZ == [n \in Nicks |-> IF n = z THEN x ELSE n]

\* The channels are interchangeable: no definition tells one from another.
Symmetry == Permutations(Channels)
=============================================================================
