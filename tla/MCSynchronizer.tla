--------------------------- MODULE MCSynchronizer ---------------------------
(* Round plans for TLC, as cmd/coordinator and coordinator_test.go make them. *)
EXTENDS Synchronizer

\* Path establishment with four layers and boomerang limit 2: round i starts at
\* layer i and its receipts stop at layer max(0, i - 2).
PathFirst == <<1, 2, 3>>
PathLast  == <<0, 0, 1>>
Backwards == -1

\* One broadcast round through layers 1 .. 4; RoundStart triggers layer 0.
BroadcastFirst == <<1>>
BroadcastLast  == <<4>>

\* The checkpoint synchronizer of a group: one layer per broadcast round.
GroupFirst == <<3, 3, 3>>
GroupLast  == <<3, 3, 3>>
=============================================================================
