----------------------------- MODULE MCTrellis -----------------------------
(***************************************************************************)
(* Small instances of Trellis.                                             *)
(***************************************************************************)
EXTENDS Trellis, TLC

CONSTANTS c1, c2, g1, g2

TwoClients == {c1, c2}
\* The two paths start apart and meet in layer 1.
Routes2 == (c1 :> (0 :> 0 @@ 1 :> 1)) @@ (c2 :> (0 :> 1 @@ 1 :> 1))
\* They also part again: c1 goes back to its first server, c2 stays at its own.
Routes3 == (c1 :> (0 :> 0 @@ 1 :> 1 @@ 2 :> 0)) @@ (c2 :> (0 :> 1 @@ 1 :> 1 @@ 2 :> 1))
OneExit == c1 :> g1 @@ c2 :> g1
\* Server 1 is a member of both groups, server 0 of one.
TwoExits == c1 :> g1 @@ c2 :> g2
OneGroup == g1 :> {0, 1}
TwoGroups == g1 :> {0, 1} @@ g2 :> {1}
\* Each server sends to the other one first.
Orders == 0 :> <<1, 0>> @@ 1 :> <<0, 1>>
GroupSends1 == 0 :> << <<1, g1>>, <<0, g1>> >> @@ 1 :> << <<0, g1>>, <<1, g1>> >>
GroupSends2 == 0 :> << <<1, g1>>, <<1, g2>>, <<0, g1>> >> @@ 1 :> << <<0, g1>>, <<1, g2>>, <<1, g1>> >>
=============================================================================
