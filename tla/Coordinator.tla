----------------------------- MODULE Coordinator -----------------------------
(***************************************************************************)
(* The coordinator of an experiment: cmd/coordinator (main), coordinator/  *)
(* coordinator.go (DoAction), coordinator/network.go and remote.go.        *)
(*                                                                         *)
(* Main makes a fixed list of fan-outs.  A fan-out starts a goroutine per  *)
(* node, takes one result per node from an unbuffered channel and returns  *)
(* at the first error.  Calls may fail before or after the node has done   *)
(* its part; keys and remote receipts are tried three times and reported   *)
(* as successful whatever happens.                                         *)
(***************************************************************************)
EXTENDS Integers, Sequences, FiniteSets, SequencesExt

CONSTANTS
    Servers, ClientProcs, \* processes; without client processes Self plays them
    Self,         \* the coordinator's own process
    RunType,      \* 0: in process, 1: local processes, 2: remote, 5: record messages
    NumLayers, NumLightning, BoomerangLimit,
    NumMessages,  \* clients of the experiment
    Load,         \* -loadmessages: recorded messages are sent in round 0
    SkipPathGen,  \* -skippathgen: broadcast rounds only
    Retries,      \* attempts of SendKeys and CheckClientReceipt
    MaxFaults     \* bound: calls that fail although the node is up

Runners == IF ClientProcs = {} THEN {Self} ELSE ClientProcs
Nodes == Servers \cup Runners
Remote == RunType = 2
Booted == IF RunType \in {1, 2} THEN Servers \cup ClientProcs ELSE {}

CoordinatorAssumption ==
    /\ RunType \in {0, 1, 2, 5} /\ (RunType \in {0, 5} \/ Load => ClientProcs = {})
    /\ NumLayers \in Nat \ {0} /\ NumLightning \in Nat /\ BoomerangLimit \in Nat \ {0}
    /\ NumMessages \in Nat \ {0} /\ Retries \in Nat \ {0} /\ MaxFaults \in Nat
    /\ Self \notin Servers \cup ClientProcs /\ Load \in BOOLEAN /\ SkipPathGen \in BOOLEAN
    /\ IsFiniteSet(Servers) /\ IsFiniteSet(ClientProcs)

-----------------------------------------------------------------------------
(* The fan-outs of a run, in order.                                        *)
Op(kind, round) == [kind |-> kind, round |-> round]
When(cond, ops) == IF cond THEN ops ELSE <<>>

ReceiptLayer(r) == IF r > BoomerangLimit THEN r - BoomerangLimit ELSE 0

\* NewRemoteNetwork and NewLocalNetwork: files and processes of the servers, then of
\* the clients.
Startup ==
    When(Remote, <<Op("copyServers", 0), Op("copyServers", 0)>>) \o
    When(RunType \in {1, 2}, <<Op("bootServers", 0)>>) \o
    When(Remote /\ ClientProcs # {}, <<Op("copyClients", 0)>>) \o
    When(RunType \in {1, 2} /\ ClientProcs # {}, <<Op("bootClients", 0)>>)

SendKeys(r) == <<Op("keys", r), Op("clientKeys", r)>>

\* Slip: the servers start the round before the clients have submitted.
DoActionHasty(r, path) ==
    When(r = 0, SendKeys(r)) \o
    When(~path \/ r = 0, <<Op("setup", r)>>) \o
    When(~(path /\ r = 0), <<Op("start", r)>>) \o
    When(~path \/ r = 0, <<Op(IF Load /\ r = 0 THEN "load" ELSE "clients", r)>>) \o
    When(path /\ ReceiptLayer(r) = 0 /\ r # 0, <<Op("receipts", r)>>) \o
    When(~path \/ ReceiptLayer(r) > 0, <<Op("messages", r)>>)

DoAction(r, path) ==
    When(r = 0, SendKeys(r)) \o
    When(~path \/ r = 0, <<Op("setup", r), Op(IF Load /\ r = 0 THEN "load" ELSE "clients", r)>>) \o
    When(~(path /\ r = 0), <<Op("start", r)>>) \o
    When(path /\ ReceiptLayer(r) = 0 /\ r # 0, <<Op("receipts", r)>>) \o
    When(~path \/ ReceiptLayer(r) > 0, <<Op("messages", r)>>)

IsPath(r) == ~SkipPathGen /\ r < NumLayers
LastRound == (IF SkipPathGen THEN 0 ELSE NumLayers) + NumLightning - 1

Script ==
    Startup \o
    IF RunType = 5
    THEN SendKeys(0) \o <<Op("setup", 0), Op("clients", 0)>>
    ELSE FlattenSeq([k \in 1 .. LastRound + 1 |-> DoAction(k - 1, IsPath(k - 1))])

\* The nodes a fan-out calls.
Called(op) ==
    CASE op.kind \in {"copyServers", "bootServers", "keys", "setup", "start", "messages"} -> Servers
      [] op.kind \in {"copyClients", "bootClients"} -> ClientProcs
      [] op.kind \in {"clientKeys", "clients", "receipts", "load"} -> Runners

Boots(op) == op.kind \in {"bootServers", "bootClients"}
Retried(op) == op.kind = "keys" \/ (op.kind = "receipts" /\ ClientProcs # {})

-----------------------------------------------------------------------------
VARIABLES
    at,       \* position in Script
    main,     \* "next", "wait", "kill", "ended": where main is
    kill,     \* the interrupt handler: "none", "kill"
    task,     \* goroutines of the fan-out: "none", "run", "ok", "error"
    tries,    \* attempts made by them
    got,      \* results main has taken
    boot,     \* processes: "off", "starting", "up", "down"
    signalled,\* processes whose kill command has run, per killer
    missed,   \* processes that had not come up when it ran
    did,      \* did[k]: the nodes that have done their part of Script[k]
    ids,      \* clients each process has started for each round
    faults    \* calls that have failed

vars == <<at, main, kill, task, tries, got, boot, signalled, missed, did, ids, faults>>
fanout == <<at, main, task, tries, got>>
procs == <<boot, signalled, missed>>

Init ==
    /\ at = 1 /\ main = "next" /\ kill = "none"
    /\ task = [n \in Nodes |-> "none"] /\ tries = [n \in Nodes |-> 0] /\ got = 0
    /\ boot = [n \in Nodes |-> IF n \in Booted THEN "off" ELSE "up"]
    /\ signalled = [k \in {"main", "kill"} |-> {}] /\ missed = {}
    /\ did = [k \in 1 .. Len(Script) |-> {}]
    /\ ids = [n \in Runners |-> {}] /\ faults = 0

Current == Script[at]

\* A fan-out starts its goroutines; processes are started by a command.
Begin ==
    /\ main = "next" /\ at <= Len(Script)
    /\ main' = "wait" /\ got' = 0
    /\ task' = [n \in Nodes |-> IF n \in Called(Current) THEN "run" ELSE "none"]
    /\ tries' = [n \in Nodes |-> 0]
    /\ boot' = [n \in Nodes |->
           IF Boots(Current) /\ n \in Called(Current) THEN "starting" ELSE boot[n]]
    /\ UNCHANGED <<at, kill, signalled, missed, did, ids, faults>>

\* Index of a process in the list of client processes.
Number(n) == CHOOSE k \in 1 .. Cardinality(Runners) : SetToSeq(Runners)[k] = n
\* Slip: the remainder is given to nobody.
SpansFloor(total, n) ==
    LET skip == total \div n IN [i \in 1 .. n |-> <<(i - 1) * skip, i * skip>>]
\* The first total % n spans are longer by one.
Spans(total, n) ==
    LET skip == total \div n
        end[i \in 0 .. n] == IF i = 0 THEN 0
                             ELSE end[i - 1] + skip + (IF i <= total % n THEN 1 ELSE 0)
    IN  [i \in 1 .. n |-> <<end[i - 1], end[i]>>]
LoadOf(n) == Spans(NumMessages, Cardinality(Runners))[Number(n)]
\* StartId .. EndId - 1 of a process; the coordinator's own runs all of them.
IdsOf(n) == {i \in 0 .. NumMessages - 1 : LoadOf(n)[1] <= i /\ i < LoadOf(n)[2]}

\* What a node does in a call.
Perform(n) ==
    /\ did' = [did EXCEPT ![at] = @ \cup {n}]
    /\ ids' = IF Current.kind \in {"clients", "load"}
              THEN [ids EXCEPT ![n] = @ \cup {<<Current.round, i>> : i \in IdsOf(n)}]
              ELSE ids

\* Files are copied to machines on which nothing runs yet.
Reachable(n) == boot[n] = "up" \/ Current.kind \in {"copyServers", "copyClients"}

Succeed(n) ==
    /\ main # "ended" /\ task[n] = "run" /\ ~Boots(Current)
    /\ Reachable(n) /\ Perform(n)
    /\ task' = [task EXCEPT ![n] = "ok"]
    /\ UNCHANGED <<at, main, kill, tries, got, procs, faults>>

\* Slip: one attempt too few.
AttemptsLess == Retries - 1
Attempts == Retries

\* The call fails: the node is not up, or the call is lost before or its answer after
\* the node has done its part.
Fail(n) ==
    /\ main # "ended" /\ task[n] = "run" /\ ~Boots(Current)
    /\ \/ ~Reachable(n) /\ UNCHANGED <<did, ids, faults>>
       \/ /\ Reachable(n) /\ faults < MaxFaults /\ faults' = faults + 1
          /\ Perform(n) \/ UNCHANGED <<did, ids>>
    /\ tries' = [tries EXCEPT ![n] = @ + 1]
    /\ task' = [task EXCEPT ![n] =
           IF ~Retried(Current) THEN "error"
           ELSE IF tries'[n] < Attempts THEN "run" ELSE "ok"]
    /\ UNCHANGED <<at, main, kill, got, procs>>

ComesUp(n) ==
    /\ boot[n] = "starting" /\ boot' = [boot EXCEPT ![n] = "up"]
    /\ UNCHANGED <<fanout, kill, signalled, missed, did, ids, faults>>

\* A process ends by itself.  StartRemoteServers is told of it if the command returns
\* an error while it waits.
Dies(n) ==
    /\ boot[n] \in {"starting", "up"} /\ n \in Booted /\ faults < MaxFaults /\ main # "ended"
    /\ faults' = faults + 1
    /\ boot' = [boot EXCEPT ![n] = "down"]
    /\ \/ UNCHANGED task
       \/ Remote /\ task[n] = "run" /\ Boots(Current) /\ task' = [task EXCEPT ![n] = "error"]
    /\ UNCHANGED <<at, main, kill, tries, got, signalled, missed, did, ids>>

\* NewLocalNetwork panics when a process cannot be started: no KillAll, and the
\* processes after it have not been started.
SpawnFails ==
    /\ RunType = 1 /\ main = "wait" /\ Boots(Current) /\ faults < MaxFaults
    /\ faults' = faults + 1 /\ main' = "ended"
    /\ \E rest \in SUBSET {n \in Called(Current) : boot[n] = "starting"} :
          rest # {} /\ boot' = [n \in Nodes |-> IF n \in rest THEN "off" ELSE boot[n]]
    /\ UNCHANGED <<at, kill, task, tries, got, signalled, missed, did, ids>>

\* Slip: an error is logged and the next result is awaited.
ReportedNever(n) == FALSE
Reported(n) == task[n] = "error"

\* main takes one result.  After an error DoAction and main return; a failure while
\* loading or recording panics, which runs the deferred KillAll as well.
Collect(n) ==
    /\ main = "wait" /\ task[n] \in {"ok", "error"}
    /\ task' = [task EXCEPT ![n] = "none"]
    /\ got' = got + 1
    /\ main' = IF Reported(n) THEN "kill" ELSE main
    /\ UNCHANGED <<at, kill, tries, procs, did, ids, faults>>

\* Slip: one result too few is awaited.
CollectedEarly == got >= Cardinality(Called(Current)) - 1
\* Slip: a result more than there are goroutines.
CollectedMore == got > Cardinality(Called(Current))
Collected == got = Cardinality(Called(Current))

\* The fan-out returns: all results are in, or nothing was reported in waitTime after
\* the processes were started.
Return ==
    /\ main = "wait" /\ (Boots(Current) \/ Collected)
    /\ main' = "next" /\ at' = at + 1
    /\ task' = [n \in Nodes |-> "none"]
    /\ UNCHANGED <<kill, tries, got, procs, did, ids, faults>>

Finish ==
    /\ main = "next" /\ at > Len(Script)
    /\ main' = "kill"
    /\ UNCHANGED <<at, kill, task, tries, got, procs, did, ids, faults>>

\* SetKill: SIGINT during the rounds of a remote run.
Interrupt ==
    /\ Remote /\ kill = "none" /\ main # "ended" /\ at > Len(Startup)
    /\ kill' = "kill"
    /\ UNCHANGED <<fanout, procs, did, ids, faults>>

\* Slip: KillAll leaves the client processes.
KilledServers == Booted \cap Servers
Killed == Booted

\* KillAll: SIGTERM or pkill reaches a process that is up.
KillOne(k, n) ==
    /\ main # "ended" /\ (IF k = "main" THEN main = "kill" ELSE kill = "kill")
    /\ n \in Killed \ signalled[k]
    /\ signalled' = [signalled EXCEPT ![k] = @ \cup {n}]
    /\ boot' = IF boot[n] = "up" THEN [boot EXCEPT ![n] = "down"] ELSE boot
    /\ missed' = IF boot[n] = "starting" THEN missed \cup {n} ELSE missed
    /\ UNCHANGED <<fanout, kill, did, ids, faults>>

\* main returns, or the handler ends the process.
End(k) ==
    /\ main # "ended" /\ (IF k = "main" THEN main = "kill" ELSE kill = "kill")
    /\ signalled[k] = Killed
    /\ main' = "ended"
    /\ UNCHANGED <<at, kill, task, tries, got, procs, did, ids, faults>>

\* Steps of main, of its goroutines and of the interrupt handler.
Step ==
    \/ Begin \/ Return \/ Finish \/ End("main") \/ End("kill")
    \/ \E n \in Nodes : \/ Succeed(n) \/ Fail(n) \/ Collect(n)
                       \/ KillOne("main", n) \/ KillOne("kill", n)
\* Steps of the processes and of the user.
Environment == Interrupt \/ SpawnFails \/ \E n \in Nodes : ComesUp(n) \/ Dies(n)

Next == Step \/ Environment

\* main and its goroutines run; commands and calls return.
Spec == Init /\ [][Next]_vars /\ WF_vars(Step)

-----------------------------------------------------------------------------
\* Every part of the state keeps its type.
TypeOK ==
    /\ at \in 1 .. Len(Script) + 1 /\ main \in {"next", "wait", "kill", "ended"}
    /\ kill \in {"none", "kill"}
    /\ task \in [Nodes -> {"none", "run", "ok", "error"}]
    /\ tries \in [Nodes -> 0 .. Retries] /\ got \in 0 .. Cardinality(Nodes)
    /\ boot \in [Nodes -> {"off", "starting", "up", "down"}]
    /\ signalled \in [{"main", "kill"} -> SUBSET Booted] /\ missed \subseteq Booted
    /\ did \in [1 .. Len(Script) -> SUBSET Nodes]
    /\ ids \in [Runners -> SUBSET ((0 .. LastRound) \X (0 .. NumMessages - 1))]
    /\ faults \in 0 .. MaxFaults

\* A fan-out reaches no node before the fan-outs ahead of it are complete on every
\* node, whatever fails and however the goroutines interleave.  What is retried may
\* have been given up, but not while fewer calls have failed than there are attempts.
PhasesInOrder ==
    LET script == Script IN
    \A j \in DOMAIN did : did[j] # {} =>
        \A k \in 1 .. j - 1 :
            \/ Called(script[k]) \subseteq did[k] \/ Boots(script[k])
            \/ Retried(script[k]) /\ (faults >= Retries \/ Booted # {})

\* No server is told to start a round before every server is set up for it and every
\* client of the experiment has been started for it by exactly one process.
StartsComplete ==
    LET script == Script IN
    \A j \in DOMAIN did : (script[j].kind = "start" /\ did[j] # {}) =>
        LET r == IF IsPath(script[j].round) THEN 0 ELSE script[j].round IN
        /\ \E k \in 1 .. j - 1 : script[k] = Op("setup", r) /\ did[k] = Servers
        /\ \A i \in 0 .. NumMessages - 1 :
              Cardinality({n \in Runners : <<r, i>> \in ids[n]}) = 1

\* A process still running when the coordinator has ended came up after its kill
\* command had run, or the coordinator panicked while it started local processes.
NoOrphans ==
    main = "ended" /\ ~(RunType = 1 /\ at <= Len(Startup)) =>
        \A n \in Booted : boot[n] = "up" => n \in missed

\* The phases of an experiment keep their order on every node, and its processes end.
ExperimentInv == TypeOK /\ PhasesInOrder /\ StartsComplete /\ NoOrphans

\* "Wait for all clients to confirm receipt delivery and then continue": after the
\* receipts of a round nothing is called before every client process has confirmed.
ReceiptsConfirmed ==
    \A j \in DOMAIN did : did[j] # {} =>
        \A k \in 1 .. j - 1 : Script[k].kind = "receipts" => did[k] = Runners
=============================================================================
