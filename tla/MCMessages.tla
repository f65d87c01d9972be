----------------------------- MODULE MCMessages -----------------------------
(***************************************************************************)
(* What messages are made of and where they go: the layers of onions and   *)
(* receipts, the curve and the proofs under them, the exchange with the    *)
(* groups that decrypt them, and the simulation of link loads.  The parts  *)
(* share no state, so a behaviour is one of a single part, chosen at the   *)
(* start; the variables of the others keep their initial values.           *)
(***************************************************************************)
EXTENDS CheckpointExchange

VARIABLES
    part,
    numLayers, limit, hash, step, round, layer, at, lens, envelope, box, label, table,
    anonymous, receipts, posted, made,
    curve, call, result,
    network, config, sim_layer, max, todo, source, bins, bit, sim_at, locations, nextLocations

\* A group of both servers and two of the first, which is in as many groups as the buffers
\* carry.
MCMembers == << {1, 2}, {1}, {1} >>

\* Paths of two to four layers, with receipts over fewer, as many and more layers.
Onion == INSTANCE OnionLayout WITH
    LayerCounts <- {2, 3, 4}, Limits <- {1, 2, 3, 4}, NumServers <- 2, NumGroups <- 3,
    Hashes <- {0, 1, 2}, ClientId <- 7, PayloadSize <- 40, MaxLightning <- 2,
    phase <- step

\* Curves of prime order, above and below the order of the field.
Smallest == [p |-> 11, b |-> 10, base |-> <<2, 1>>, n |-> 7, top |-> 15]
Points == INSTANCE CurvePoints WITH
    NumShares <- 2,
    Curves <- {Smallest,
               [p |-> 11, b |-> 1, base |-> <<0, 1>>, n |-> 17, top |-> 15],
               [p |-> 23, b |-> 8, base |-> <<0, 10>>, n |-> 31, top |-> 31],
               [p |-> 31, b |-> 25, base |-> <<0, 5>>, n |-> 23, top |-> 63]}
Proofs == INSTANCE Nizk WITH NumShares <- 2, Curves <- {Smallest}

\* Four servers as one line and as a matrix of two rows; butterflies of one and two bits.
Lines == INSTANCE BinSim WITH
    NumServers <- 4, NumMessages <- 3, NumLayers <- 2, Networks <- {"plain", "dim2"}, Param <- 2,
    layer <- sim_layer, at <- sim_at
Wide == INSTANCE BinSim WITH
    NumServers <- 4, NumMessages <- 2, NumLayers <- 1, Networks <- {"butterfly"}, Param <- 2,
    layer <- sim_layer, at <- sim_at
Butterfly == INSTANCE BinSim WITH
    NumServers <- 2, NumMessages <- 6, NumLayers <- 3, Networks <- {"butterfly"}, Param <- 1,
    layer <- sim_layer, at <- sim_at

ASSUME CapacityAssumption
ASSUME Onion!LayoutAssumption /\ Points!CurvesAssumption /\ Proofs!CurvesAssumption
ASSUME Lines!BinSimAssumption /\ Wide!BinSimAssumption /\ Butterfly!BinSimAssumption

Layers == <<numLayers, limit, hash, step, round, layer, at, lens, envelope, box, label, table,
            anonymous, receipts, posted, made>>
Crypto == <<curve, call, result>>
Simulation == <<network, config, sim_layer, max, todo, source, bins, bit, sim_at, locations,
                nextLocations>>
all == <<part, vars, Layers, Crypto, Simulation>>

MCInit ==
    /\ part \in {"exchange", "onion", "points", "proofs", "lines", "wide", "butterfly"}
    \* Bound: one order of the first server's map of groups and two of the second's.
    /\ Init /\ reverseGroups[1][1] = <<2, 1, 3>>
    /\ reverseGroups[2][1] \in (IF part = "exchange" THEN {<<1, 2, 3>>, <<2, 3, 1>>} ELSE {<<1, 2, 3>>})
    /\ Onion!Init
    /\ part # "onion" => numLayers = 2 /\ limit = 1 /\ hash = [i \in 0 .. 2 |-> 0]
    /\ Points!Init /\ (part # "points" => curve = Smallest)
    /\ CASE part = "lines" -> Lines!Init
         [] part = "wide" -> Wide!Init
         [] OTHER -> Butterfly!Init /\ (part # "butterfly" => config[0] = 0)

\* Steps of the exchange other than a crash.
Decrypt == part = "exchange" /\ Step /\ UNCHANGED <<part, Layers, Crypto, Simulation>>
MCNext ==
    \/ Decrypt
    \/ /\ part = "exchange" /\ \E a \in Servers : Crash(a)
       /\ UNCHANGED <<part, Layers, Crypto, Simulation>>
    \/ part = "onion" /\ Onion!Next /\ UNCHANGED <<part, vars, Crypto, Simulation>>
    \/ /\ \/ part = "points" /\ Points!Next
          \/ part = "proofs" /\ Proofs!NizkNext
       /\ UNCHANGED <<part, vars, Layers, Simulation>>
    \/ /\ \/ part = "lines" /\ Lines!Next
          \/ part = "wide" /\ Wide!Next
          \/ part = "butterfly" /\ Butterfly!Next
       /\ UNCHANGED <<part, vars, Layers, Crypto>>

MCSpec == MCInit /\ [][MCNext]_all /\ WF_all(Decrypt)

-----------------------------------------------------------------------------
\* Writers, handlers and readers of the exchange do not wait for one another for ever
\* (Settled of checkpointSender.go).
ExchangeEnds == <>(part = "exchange" => Settled)

\* Client and servers agree on lengths, keys, nonces and receipts (OnionInv of client.go,
\* lengths.go and processMessages).
OnionInv == part = "onion" => Onion!OnionInv

\* No key seals twice under one nonce (NoncesOnce of client.go).
NoncesOnce == part = "onion" => Onion!NoncesOnce

\* Points, shares and proofs (CurveInv of package ec, ProofsInv of package nizk).
CryptoInv == /\ part = "points" => Points!CurveInv
             /\ part = "proofs" => Proofs!ProofsInv

\* No message of a simulated trial is lost (SimInv of bin_sim.go).
TrialsInv == /\ part = "lines" => Lines!SimInv
             /\ part = "wide" => Wide!SimInv
             /\ part = "butterfly" => Butterfly!SimInv
=============================================================================
