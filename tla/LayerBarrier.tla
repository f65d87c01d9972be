---------------------------- MODULE LayerBarrier ----------------------------
(***************************************************************************)
(* What network/synchronization promises its callers, without its locks:   *)
(* a round visits its layers one after the other, every sender is let in   *)
(* once per layer, and the layer moves on only when every sender that was  *)
(* let in has left again.                                                  *)
(***************************************************************************)
EXTENDS Integers

CONSTANTS
    NumServers,  \* one sender per server: ids 0 .. NumServers - 1
    Rounds,      \* number of rounds, numbered from 1
    First, Last, \* first and last layer of each round
    Direction    \* 1 (broadcast round) or -1 (boomerang)

VARIABLES
    round,       \* the round that was opened last; 0 before the first
    layer,       \* the current layer
    working,     \* the senders whose message of this layer is being processed
    finished     \* the senders whose message of this layer is processed

bvars == <<round, layer, working, finished>>

Senders == 0 .. NumServers - 1

\* The layer a round rests at once its last layer is complete.
Rest(r) == IF r = 0 THEN 0 ELSE Last[r] + Direction

Resting == layer = Rest(round)

BInit ==
    /\ round = 0 /\ layer = Rest(0)
    /\ working = {} /\ finished = {}

Open ==
    /\ Resting /\ round < Rounds
    /\ round' = round + 1
    /\ layer' = First[round']
    /\ UNCHANGED <<working, finished>>

Enter(s) ==
    /\ ~Resting
    /\ s \notin working \cup finished
    /\ working' = working \cup {s}
    /\ UNCHANGED <<round, layer, finished>>

Leave(s) ==
    /\ s \in working
    /\ working' = working \ {s}
    /\ finished' = finished \cup {s}
    /\ UNCHANGED <<round, layer>>

Advance ==
    /\ ~Resting
    /\ finished = Senders
    /\ layer' = layer + Direction
    /\ finished' = {}
    /\ UNCHANGED <<round, working>>

BNext ==
    \/ Open
    \/ \E s \in Senders : Enter(s) \/ Leave(s)
    \/ Advance

BSpec == BInit /\ [][BNext]_bvars

=============================================================================
