---------------------------- MODULE MCExperiment ----------------------------
(***************************************************************************)
(* How an experiment is set up and driven: the coordinator's fan-outs, the *)
(* exchange of the group keys and the choice of the groups.  The parts     *)
(* share no state, so a behaviour is one of a single part, chosen at the   *)
(* start; the variables of the others keep their initial values.           *)
(***************************************************************************)
EXTENDS KeyExchange, Sequences

VARIABLES
    part,
    at, main, kill, task, tries, got, boot, signalled, missed, did, ids, faults,
    trust, nGroups, size, permutation, index, servers, groups, crashed

\* One small experiment of each run type, and one that loads recorded messages.
InProcess == INSTANCE Coordinator WITH
    Servers <- {"s1", "s2"}, ClientProcs <- {}, Self <- "self", RunType <- 0,
    NumLayers <- 3, NumLightning <- 1, BoomerangLimit <- 1, NumMessages <- 3,
    Load <- FALSE, SkipPathGen <- FALSE, Retries <- 2, MaxFaults <- 3
Recorded == INSTANCE Coordinator WITH
    Servers <- {"s1", "s2"}, ClientProcs <- {}, Self <- "self", RunType <- 5,
    NumLayers <- 2, NumLightning <- 2, BoomerangLimit <- 1, NumMessages <- 3,
    Load <- FALSE, SkipPathGen <- FALSE, Retries <- 2, MaxFaults <- 2
Loaded == INSTANCE Coordinator WITH
    Servers <- {"s1", "s2"}, ClientProcs <- {}, Self <- "self", RunType <- 1,
    NumLayers <- 2, NumLightning <- 1, BoomerangLimit <- 1, NumMessages <- 3,
    Load <- TRUE, SkipPathGen <- FALSE, Retries <- 2, MaxFaults <- 2
Local == INSTANCE Coordinator WITH
    Servers <- {"s1"}, ClientProcs <- {"c1", "c2"}, Self <- "self", RunType <- 1,
    NumLayers <- 2, NumLightning <- 2, BoomerangLimit <- 1, NumMessages <- 3,
    Load <- FALSE, SkipPathGen <- TRUE, Retries <- 2, MaxFaults <- 1
Remote == INSTANCE Coordinator WITH
    Servers <- {"s1"}, ClientProcs <- {"c1"}, Self <- "self", RunType <- 2,
    NumLayers <- 2, NumLightning <- 1, BoomerangLimit <- 1, NumMessages <- 3,
    Load <- FALSE, SkipPathGen <- FALSE, Retries <- 2, MaxFaults <- 1

\* All sizes and numbers of groups of four servers; sizes computed from the trust in them.
Given == INSTANCE GroupSelection WITH NServers <- 4, MaxGroups <- 3, MaxSecurity <- 0
Computed == INSTANCE GroupSelection WITH NServers <- 4, MaxGroups <- 1, MaxSecurity <- 4

ASSUME /\ InProcess!CoordinatorAssumption /\ Recorded!CoordinatorAssumption
       /\ Loaded!CoordinatorAssumption /\ Local!CoordinatorAssumption
       /\ Remote!CoordinatorAssumption
ASSUME ExchangeAssumption
ASSUME Given!SelectionAssumption /\ Computed!SelectionAssumption

Fanouts == <<at, main, kill, task, tries, got, boot, signalled, missed, did, ids, faults>>
Selection == <<trust, nGroups, size, permutation, index, servers, groups, crashed>>
all == <<part, vars, Fanouts, Selection>>

MCInit ==
    /\ part \in {"in process", "recorded", "loaded", "local", "remote", "exchange", "given",
                 "computed"}
    /\ CASE part = "recorded" -> Recorded!Init
         [] part = "loaded" -> Loaded!Init
         [] part = "local" -> Local!Init
         [] part = "remote" -> Remote!Init
         [] OTHER -> InProcess!Init
    \* Two masters and a group of two.  Bound: one master's secret is zero, the other's not.
    /\ Init /\ secret["m1"] = 0 /\ secret["m2"] = 1
    /\ IF part = "computed" THEN Computed!Init
       \* Servers are alike here: the first permutation may be fixed.
       ELSE Given!Init /\ permutation = <<0, 1, 2, 3>>
                       /\ (part # "given" => nGroups = 1 /\ size = 1)

Run == /\ \/ part = "in process" /\ InProcess!Step
          \/ part = "recorded" /\ Recorded!Step
          \/ part = "loaded" /\ Loaded!Step
          \/ part = "local" /\ Local!Step
          \/ part = "remote" /\ Remote!Step
       /\ UNCHANGED <<part, vars, Selection>>
\* Steps of the key exchange other than the loss of a call.
ExchangeKeys == part = "exchange" /\ Step /\ UNCHANGED <<part, Fanouts, Selection>>
MCNext ==
    \/ Run
    \/ /\ \/ part = "loaded" /\ Loaded!Environment
          \/ part = "local" /\ Local!Environment
          \/ part = "remote" /\ Remote!Environment
       /\ UNCHANGED <<part, vars, Selection>>
    \/ ExchangeKeys
    \/ /\ part = "exchange" /\ \E i \in Masters, d \in Members : Lose(i, d)
       /\ UNCHANGED <<part, Fanouts, Selection>>
    \/ /\ \/ part = "given" /\ Given!Next
          \/ part = "computed" /\ Computed!Next
       /\ UNCHANGED <<part, vars, Fanouts>>

MCSpec == MCInit /\ [][MCNext]_all /\ WF_all(Run \/ ExchangeKeys)

-----------------------------------------------------------------------------
\* Phases keep their order on every node and processes end (ExperimentInv of
\* coordinator.go and network.go), for each run type.
ExperimentInv == /\ part = "in process" => InProcess!ExperimentInv
                 /\ part = "recorded" => Recorded!ExperimentInv
                 /\ part = "loaded" => Loaded!ExperimentInv
                 /\ part = "local" => Local!ExperimentInv
                 /\ part = "remote" => Remote!ExperimentInv

\* The run ends: with its last round, at the first reported error or by an interrupt.
RunEnds ==
    <>(part \in {"in process", "recorded", "loaded", "local", "remote"} => main = "ended")

\* Every member completes and every master returns if no call is lost (exchangeKeys.go).
ExchangeCompletes ==
    <>(part = "exchange" => Complete \/ \E i \in Masters, d \in Members : call[i][d] = "lost")

\* Groups are as large as they must be, distinct and balanced (SelectionInv of
\* anytrustGroup.go and randomness.go).
SelectionInv == /\ part = "given" => Given!SelectionInv
                /\ part = "computed" => Computed!SelectionInv
=============================================================================
