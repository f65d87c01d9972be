----------------------------- MODULE MCRequests -----------------------------
(***************************************************************************)
(* The client side of the protocol: the server's answers to requests, the  *)
(* process that plays the clients, and the keys and tokens they use.  The  *)
(* parts share no state, so a behaviour is one of a single part, chosen    *)
(* at the start; the variables of the others keep their initial values.    *)
(***************************************************************************)
EXTENDS MessagePreparer, Sequences

VARIABLES
    part,
    call, main, got, cur, sem, go, on, clients, block, files, done, next,
    run, phase, secret, file, shares, pending, attempts, combined, member, published, tokens,
    refused, rejected, opened

\* Rounds played in one process whose calls may fail; a recording that a second process
\* loads.
Rounds == INSTANCE ClientRunner WITH
    Ids <- {0, 1}, Plan <- <<"path", "receipt", "light", "light">>,
    PathCap <- 2, LightCap <- 1, BlockSize <- 1, Record <- FALSE, Faults <- TRUE
Recording == INSTANCE ClientRunner WITH
    Ids <- {0, 1, 2, 3}, Plan <- <<"path", "load", "receipt">>,
    PathCap <- 2, LightCap <- 2, BlockSize <- 1, Record <- TRUE, Faults <- FALSE

\* Two overlapping groups, then other groups that leave a server out.
Groupings == << << <<1, 2>>, <<2, 3>> >>, << <<3, 1>> >> >>
Contents == {[key |-> 2, hash |-> 3], [key |-> 4, hash |-> 1]}
Issued == INSTANCE TokenIssuance WITH
    Q <- 5, Servers <- {1, 2, 3}, Draws <- {1, 4}, SkipToken <- FALSE, FixedSecret <- 3,
    Failures <- FALSE, Retries <- 2
Skipped == INSTANCE TokenIssuance WITH
    Q <- 5, Servers <- {1, 2, 3}, Draws <- {1, 4}, SkipToken <- TRUE, FixedSecret <- 3,
    Failures <- FALSE, Retries <- 2
Unreliable == INSTANCE TokenIssuance WITH
    Q <- 5, Servers <- {1, 2, 3}, Draws <- {2}, SkipToken <- FALSE, FixedSecret <- 3,
    Failures <- TRUE, Retries <- 2, Contents <- {[key |-> 2, hash |-> 3]}

ASSUME Rounds!PlanAssumption /\ Recording!PlanAssumption
ASSUME Issued!IssuanceAssumption /\ Skipped!IssuanceAssumption /\ Unreliable!IssuanceAssumption

Preparer == vars
Runner == <<call, main, got, cur, sem, go, on, clients, block, files, done, next>>
Keys == <<run, phase, secret, file, shares, pending, attempts, combined, member, published,
          tokens, refused, rejected, opened>>
all == <<part, Preparer, Runner, Keys>>

MCInit ==
    /\ part \in {"requests", "rounds", "recording", "issued", "skipped", "unreliable"}
    /\ Init
    /\ IF part = "recording" THEN Recording!Init ELSE Rounds!Init
    /\ Issued!Init

Serve(r) == part = "requests" /\ Step(r) /\ UNCHANGED <<part, Runner, Keys>>
Play == /\ \/ part = "rounds" /\ Rounds!Next
           \/ part = "recording" /\ Recording!Next
        /\ UNCHANGED <<part, Preparer, Keys>>
MCNext ==
    \/ \E r \in Rpcs :
        \/ Serve(r)
        \/ /\ part = "requests" /\ (Call(r) \/ CallMonitor(r))
           /\ UNCHANGED <<part, Runner, Keys>>
    \/ Play
    \/ /\ \/ part = "issued" /\ Issued!Next
          \/ part = "skipped" /\ Skipped!Next
          \/ part = "unreliable" /\ Unreliable!Next
       /\ UNCHANGED <<part, Preparer, Runner>>

MCSpec == MCInit /\ [][MCNext]_all /\ WF_all(Play) /\ \A r \in Rpcs : WF_all(Serve(r))

-----------------------------------------------------------------------------
\* The clients of one process are each served once (RunnerInv of clients.go).
RunnerInv == /\ part = "rounds" => Rounds!RunnerInv
             /\ part = "recording" => Recording!RunnerInv

\* The calls of a plan end, however goroutines of one call outlive it and release the
\* semaphore of the next.
CallsEnd == /\ <>(part = "rounds" => Rounds!Settled)
            /\ <>(part = "recording" => Recording!Settled)

\* Keys and tokens belong together (KeysInv of coordinator.go, token.go and dhkx.go).
KeysInv == /\ part = "issued" => Issued!KeysInv
           /\ part = "skipped" => Skipped!KeysInv
           /\ part = "unreliable" => Unreliable!KeysInv
=============================================================================
