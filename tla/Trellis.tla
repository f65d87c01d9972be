------------------------------ MODULE Trellis ------------------------------
(***************************************************************************)
(* The mix network: servers, their links, the anytrust groups, the clients *)
(* and the coordinator that drives the rounds.  Rounds 0 .. NumLayers - 1  *)
(* establish the paths one layer per round (messages go one layer forward  *)
(* and a receipt boomerangs back); every later round broadcasts: messages  *)
(* go through all layers and end with the trustees of their group.         *)
(*                                                                         *)
(* The synchronizers appear with the atomic operations that the module     *)
(* Synchronizer justifies; what is kept of their locks is that a Trigger   *)
(* holds them while OnThreshold waits for the mutex of the server or of    *)
(* the group.                                                              *)
(***************************************************************************)
EXTENDS ServerState

VARIABLES
    round, phase,  \* coordinator: current round and step of DoAction
    toSubmit,      \* clients that have yet to submit in this round
    passed,        \* Experiment.Passed of the rounds so far
    rpc,           \* rpc[s]: where the coordinator's call is in server s
    todo,          \* todo[s]: groups of s that RoundSetup has not reset yet
    srv,           \* srv[s]: fields of Server and CommonState
    mu,            \* mu[s]: who holds Server.mu for writing
    handlerRound,  \* handlerRound[s]: Handlers.round; -2 is Blocked
    sync,          \* sync[s]: Server.synchronizer
    job, out,      \* work of the goroutine that holds mu: kind and layer, and the
                   \* batches it still has to send, in order
    link,          \* link[s][d]: batches on the connection from s to d
    hand,          \* hand[d][s]: the handler of d for the connection from s
    replies,       \* replies[s]: checkpoint answers <<member, group>> that s has got
    gsync,         \* gsync[s][g]: checkpointSynchronizer of s for its group g
    grp            \* grp[s][g]: groupMember and Checkpoint state

coordVars == <<round, phase, toSubmit, passed>>
linkVars  == <<job, out, link>>
groupVars == <<gsync, grp>>
vars == <<coordVars, rpc, todo, srv, mu, handlerRound, sync, linkVars, hand, replies, groupVars>>

-----------------------------------------------------------------------------
NoBatch == [type |-> "none", group |-> Nil]
Idle == [src \in Servers |-> [batch |-> NoBatch, jobs |-> {}]]

Init ==
    /\ round = 0 /\ phase = "setup" /\ toSubmit = {} /\ passed = TRUE
    /\ rpc = [s \in Servers |-> "setup"]
    /\ todo = [s \in Servers |-> {}]
    /\ srv = [s \in Servers |-> NewServer]
    /\ mu = [s \in Servers |-> "free"]
    /\ handlerRound = [s \in Servers |-> Blocked]
    /\ sync = [s \in Servers |-> NewSynchronizer(0)]
    /\ job = [s \in Servers |-> Nil]
    /\ out = [s \in Servers |-> <<>>]
    /\ link = [s \in Servers |-> [d \in Servers |-> <<>>]]
    /\ hand = [d \in Servers |-> Idle]
    /\ replies = [s \in Servers |-> {}]
    /\ gsync = [s \in Servers |-> [g \in GroupsOf(s) |-> NewSynchronizer(0)]]
    /\ grp = [s \in Servers |-> [g \in GroupsOf(s) |-> NewGroupMember]]

-----------------------------------------------------------------------------
(* The RPCs of the coordinator, as server s executes them.                   *)

\* No RoundStart holds the read lock while it waits for the groups.
MuFree(s) == mu[s] = "free" /\ rpc[s] # "groups"

\* RoundSetup of round 0.
RoundSetupPath(s) ==
    /\ rpc[s] = "setup" /\ IsPath(round) /\ MuFree(s)
    /\ srv' = [srv EXCEPT ![s] = SetupNewPathEstablishmentRound(@)]
    /\ sync' = [sync EXCEPT ![s] = NewSynchronizer(0)]
    /\ handlerRound' = [handlerRound EXCEPT ![s] = round]
    /\ rpc' = [rpc EXCEPT ![s] = "done"]
    /\ UNCHANGED <<coordVars, todo, mu, linkVars, hand, replies, groupVars>>

\* RoundSetup of a broadcast round: the server first, then each of its groups.
RoundSetupLightning(s) ==
    /\ rpc[s] = "setup" /\ ~IsPath(round) /\ MuFree(s)
    /\ mu' = [mu EXCEPT ![s] = "setup"]
    /\ srv' = [srv EXCEPT ![s] = SetupNewLightningRound(@, round)]
    /\ sync' = [sync EXCEPT ![s] = NewSynchronizer(0)]
    /\ rpc' = [rpc EXCEPT ![s] = "setupGroups"]
    /\ todo' = [todo EXCEPT ![s] = GroupsOf(s)]
    /\ UNCHANGED <<coordVars, handlerRound, linkVars, hand, replies, groupVars>>

\* groupMember.NewLightningRound up to the call of Reset: g.mu is taken.
NewLightningRound(s, g) ==
    /\ rpc[s] = "setupGroups" /\ g \in todo[s]
    /\ \A h \in todo[s] : ~grp[s][h].locked
    /\ grp' = [grp EXCEPT ![s][g].locked = TRUE, ![s][g].final = {}, ![s][g].ready = FALSE]
    /\ UNCHANGED <<coordVars, rpc, todo, srv, mu, handlerRound, sync, linkVars, hand, replies, gsync>>

\* Reset waits for the locks of the group's synchronizer; then the marks are cleared.
ResetGroup(s, g) ==
    /\ rpc[s] = "setupGroups" /\ g \in todo[s] /\ grp[s][g].locked
    /\ Unlocked(gsync[s][g])
    /\ gsync' = [gsync EXCEPT ![s][g] = Reset(@, NumLayers)]
    /\ grp' = [grp EXCEPT ![s][g] = [ResetSignatureMarking(@) EXCEPT !.locked = FALSE]]
    /\ todo' = [todo EXCEPT ![s] = @ \ {g}]
    /\ UNCHANGED <<coordVars, rpc, srv, mu, handlerRound, sync, linkVars, hand, replies>>

\* SetRound lets the messages of the round in.
SetupDone(s) ==
    /\ rpc[s] = "setupGroups" /\ todo[s] = {}
    /\ handlerRound' = [handlerRound EXCEPT ![s] = round]
    /\ mu' = [mu EXCEPT ![s] = "free"]
    /\ rpc' = [rpc EXCEPT ![s] = "done"]
    /\ UNCHANGED <<coordVars, todo, srv, sync, linkVars, hand, replies, groupVars>>

\* RoundStart in a path round, up to the call of Reset.
RoundStartPath(s) ==
    /\ rpc[s] = "start" /\ srv[s].path /\ MuFree(s)
    /\ mu' = [mu EXCEPT ![s] = "start"]
    /\ srv' = [srv EXCEPT ![s] = StartPathLayer(@, round)]
    /\ rpc' = [rpc EXCEPT ![s] = "reset"]
    /\ UNCHANGED <<coordVars, todo, handlerRound, sync, linkVars, hand, replies, groupVars>>

\* Reset, SetRound, and the messages kept from the round before go out.
RoundStartReset(s) ==
    /\ rpc[s] = "reset" /\ Unlocked(sync[s])
    /\ sync' = [sync EXCEPT ![s] = Reset(@, srv[s].pathLayer)]
    /\ handlerRound' = [handlerRound EXCEPT ![s] = round]
    /\ out' = [out EXCEPT ![s] = ShuffleMessages(s, "Path", srv[s].round, srv[s].layer,
                                                 srv[s].paths[srv[s].pathLayer - 1])]
    /\ rpc' = [rpc EXCEPT ![s] = "send"]
    /\ UNCHANGED <<coordVars, todo, srv, mu, job, link, hand, replies, groupVars>>

RoundStartSent(s) ==
    /\ rpc[s] = "send" /\ out[s] = <<>>
    /\ srv' = [srv EXCEPT ![s].paths[srv[s].pathLayer - 1] = Nil]
    /\ mu' = [mu EXCEPT ![s] = "free"]
    /\ rpc' = [rpc EXCEPT ![s] = "wait"]
    /\ UNCHANGED <<coordVars, todo, handlerRound, sync, linkVars, hand, replies, groupVars>>

\* RoundStart in a broadcast round triggers layer 0 itself: the clients sent it.
\* Trigger runs in the RPC, and returns after OnThreshold.
RoundStartLightning(s) ==
    /\ rpc[s] = "start" /\ ~srv[s].path
    /\ sync' = [sync EXCEPT ![s] = Spawn(@)]
    /\ srv' = [srv EXCEPT ![s].started = TRUE]
    /\ rpc' = [rpc EXCEPT ![s] = "trigger"]
    /\ UNCHANGED <<coordVars, todo, mu, handlerRound, linkVars, hand, replies, groupVars>>

\* isRoundComplete is seen under the read lock; GetMessages keeps that lock.
RoundComplete(s) ==
    /\ rpc[s] = "wait" /\ mu[s] = "free" /\ srv[s].complete
    /\ rpc' = [rpc EXCEPT ![s] = IF srv[s].path THEN "done" ELSE "groups"]
    /\ UNCHANGED <<coordVars, todo, srv, mu, handlerRound, sync, linkVars, hand, replies, groupVars>>

\* Slip: GetMessages does not wait for messagesReady.
GroupsReadyUnchecked(s) == TRUE

GroupsReady(s) == \A g \in GroupsOf(s) : grp[s][g].ready

RoundStartReturn(s) ==
    /\ rpc[s] = "groups" /\ GroupsReady(s)
    /\ rpc' = [rpc EXCEPT ![s] = "done"]
    /\ UNCHANGED <<coordVars, todo, srv, mu, handlerRound, sync, linkVars, hand, replies, groupVars>>

-----------------------------------------------------------------------------
(* The Trigger goroutines and the goroutine OnThreshold leaves behind.       *)

TriggerLock(s) ==
    /\ sync[s].trig = "spawned"
    /\ sync' = [sync EXCEPT ![s] = Lock(@)]
    /\ UNCHANGED <<coordVars, rpc, todo, srv, mu, handlerRound, linkVars, hand, replies, groupVars>>

\* OnThreshold takes Server.mu while Trigger holds the locks of the synchronizer, and
\* leaves it to the goroutine that sends.
TriggerCall(s) ==
    LET l == sync[s].layer
        r == OnThreshold(srv[s], l)
        n == NextLayer(srv[s], l)
    IN  /\ sync[s].trig = "locked" /\ MuFree(s)
        /\ mu' = [mu EXCEPT ![s] = "next"]
        /\ srv' = [srv EXCEPT ![s] = r]
        /\ sync' = [sync EXCEPT ![s] = Called(@, n)]
        /\ job' = [job EXCEPT ![s] = [kind |-> JobKind(r, l), layer |-> l]]
        /\ out' = [out EXCEPT ![s] = Outgoing(s, r, l, n)]
        /\ UNCHANGED <<coordVars, rpc, todo, handlerRound, link, hand, replies, groupVars>>

TriggerCommit(s) ==
    /\ sync[s].trig = "called"
    /\ sync' = [sync EXCEPT ![s] = Commit(@)]
    /\ rpc' = [rpc EXCEPT ![s] = IF @ = "trigger" THEN "wait" ELSE @]
    /\ UNCHANGED <<coordVars, todo, srv, mu, handlerRound, linkVars, hand, replies, groupVars>>

\* One blocking send on the connection to the next server of the order; the connection
\* of a server to itself is in memory and never full.
SendNext(s) ==
    LET b == Head(out[s])
    IN  /\ out[s] # <<>> /\ (b.dest = s \/ Len(link[s][b.dest]) < LinkCapacity)
        /\ link' = [link EXCEPT ![s][b.dest] = Append(@, b)]
        /\ out' = [out EXCEPT ![s] = Tail(@)]
        /\ UNCHANGED <<coordVars, rpc, todo, srv, mu, handlerRound, sync, job, hand, replies, groupVars>>

\* SendAndRecieve returns when every member of every group has answered.
CheckpointDone(s) ==
    LET r == PackDecrypted(srv[s])
    IN  /\ mu[s] = "next" /\ job[s].kind = "tokens" /\ out[s] = <<>>
        /\ replies[s] = {p \in Servers \X Groups : p[1] \in Members[p[2]]}
        /\ replies' = [replies EXCEPT ![s] = {}]
        /\ srv' = [srv EXCEPT ![s] = r]
        /\ job' = [job EXCEPT ![s].kind = "shuffle"]
        /\ out' = [out EXCEPT ![s] = ShuffleMessages(s, "Reverse", r.round, r.layer, r.routers[LastLayer])]
        /\ UNCHANGED <<coordVars, rpc, todo, mu, handlerRound, sync, link, hand, groupVars>>

\* The goroutine ends: the layer is freed and Server.mu unlocked.
LayerSent(s) ==
    /\ mu[s] = "next" /\ job[s].kind # "tokens" /\ out[s] = <<>>
    /\ srv' = [srv EXCEPT ![s] = [Free(@, job[s].layer) EXCEPT
                  !.complete = srv[s].complete \/ job[s].kind \in {"receipt", "trustees"}]]
    /\ job' = [job EXCEPT ![s] = Nil]
    /\ mu' = [mu EXCEPT ![s] = "free"]
    /\ UNCHANGED <<coordVars, rpc, todo, handlerRound, sync, out, link, hand, replies, groupVars>>

-----------------------------------------------------------------------------
(* HandleTcpStream: server d handles the connection from server s.           *)

WaitForRound(d, r) == handlerRound[d] # Blocked /\ r <= handlerRound[d]

\* What ends in the error handler: a handler that waited and finds its round over, or a
\* sender that has already started the layer of synchronizer y.
Rejected(d, s, b, y) == b.round < handlerRound[d] \/ s \in y.started

Accept(d, s, b) ==
    /\ link' = [link EXCEPT ![s][d] = Tail(@)]
    /\ hand' = [hand EXCEPT ![d][s] = [batch |-> b, jobs |-> b.msgs]]
    /\ UNCHANGED <<coordVars, rpc, todo, mu, handlerRound, job, out, replies>>

Offered(d, s) == srv[d].started /\ hand[d][s].batch = NoBatch /\ link[s][d] # <<>>

\* WorkerPoolProcessStream: SyncOnce blocks until the server is in the batch's layer.
TakeBatch(d, s) ==
    LET b == Head(link[s][d])
    IN  /\ Offered(d, s) /\ WaitForRound(d, b.round) /\ b.group = Nil
        /\ InLayer(sync[d], b.layer)
        /\ sync' = [sync EXCEPT ![d] = SyncOnce(@, s)]
        /\ srv' = IF Rejected(d, s, b, sync[d])
                  THEN [srv EXCEPT ![d] = Fail(@, "rejected batch")] ELSE srv
        /\ Accept(d, s, b) /\ UNCHANGED groupVars

\* WorkerPoolProcessGroup: only final messages go through the group's synchronizer.
TakeGroupBatch(d, s) ==
    LET b == Head(link[s][d])
        g == b.group
        sig == b.type = "Signature"
    IN  /\ Offered(d, s) /\ WaitForRound(d, b.round) /\ g # Nil
        /\ sig => InLayer(gsync[d][g], b.layer)
        /\ gsync' = IF sig THEN [gsync EXCEPT ![d][g] = SyncOnce(@, s)] ELSE gsync
        /\ grp' = IF sig /\ Rejected(d, s, b, gsync[d][g])
                  THEN [grp EXCEPT ![d][g] = Fail(@, "rejected batch")] ELSE grp
        /\ Accept(d, s, b) /\ UNCHANGED <<srv, sync>>

\* ProcessThread: a worker handles one message of a batch.
ProcessMessage(d, s, c) ==
    LET b == hand[d][s].batch
        m == grp[d][b.group]
        at == <<b.round, b.layer>>
    IN  /\ b # NoBatch /\ c \in hand[d][s].jobs
        /\ hand' = [hand EXCEPT ![d][s].jobs = @ \ {c}]
        /\ \/ /\ b.type = "Forward"
              /\ srv' = [srv EXCEPT ![d] = handleLightningMessage(@, c, at)]
              /\ grp' = grp
           \/ /\ b.type = "Reverse"
              /\ srv' = [srv EXCEPT ![d] = HandleBoomerangMessage(@, c, at)]
              /\ grp' = grp
           \/ /\ b.type = "Path"
              /\ srv' = [srv EXCEPT ![d] = handlePathMessage(@, d, s, c, at)]
              /\ grp' = grp
           \/ /\ b.type = "Token"
              /\ grp' = [grp EXCEPT ![d][b.group] = HandleCheckpointMessage(m, c)]
              /\ srv' = srv
           \/ /\ b.type = "Signature"
              /\ grp' = [grp EXCEPT ![d][b.group] = HandleTrusteeMessage(m, c)]
              /\ srv' = srv
        /\ UNCHANGED <<coordVars, rpc, todo, mu, handlerRound, sync, linkVars, replies, gsync>>

\* All messages of the batch are processed: Done, or the answer to a checkpoint.
BatchDone(d, s) ==
    LET b == hand[d][s].batch
    IN  /\ b # NoBatch /\ hand[d][s].jobs = {}
        /\ hand' = [hand EXCEPT ![d][s].batch = NoBatch]
        /\ \/ /\ b.group = Nil /\ Unlocked(sync[d])
              /\ sync' = [sync EXCEPT ![d] = Done(@)]
              /\ UNCHANGED <<gsync, replies>>
           \/ /\ b.type = "Signature" /\ Unlocked(gsync[d][b.group])
              /\ gsync' = [gsync EXCEPT ![d][b.group] = Done(@)]
              /\ UNCHANGED <<sync, replies>>
           \/ /\ b.type = "Token"
              /\ replies' = [replies EXCEPT ![s] = @ \cup {<<d, b.group>>}]
              /\ UNCHANGED <<sync, gsync>>
        /\ UNCHANGED <<coordVars, rpc, todo, srv, mu, handlerRound, linkVars, grp>>

-----------------------------------------------------------------------------
(* The trigger of a group's synchronizer.                                    *)

GroupTriggerLock(s, g) ==
    /\ gsync[s][g].trig = "spawned"
    /\ gsync' = [gsync EXCEPT ![s][g] = Lock(@)]
    /\ UNCHANGED <<coordVars, rpc, todo, srv, mu, handlerRound, sync, linkVars, hand, replies, grp>>

\* groupMember.OnThreshold; g.mu is held elsewhere only by NewLightningRound.
GroupOnThreshold(s, g) ==
    /\ gsync[s][g].trig = "locked" /\ ~grp[s][g].locked
    /\ grp' = [grp EXCEPT ![s][g] = IF AllSignaturesAccountedFor(@)
                                    THEN [@ EXCEPT !.ready = TRUE]
                                    ELSE Fail(@, "MissingMessages")]
    /\ gsync' = [gsync EXCEPT ![s][g] = Called(@, gsync[s][g].layer + 1)]
    /\ UNCHANGED <<coordVars, rpc, todo, srv, mu, handlerRound, sync, linkVars, hand, replies>>

GroupTriggerCommit(s, g) ==
    /\ gsync[s][g].trig = "called"
    /\ gsync' = [gsync EXCEPT ![s][g] = Commit(@)]
    /\ UNCHANGED <<coordVars, rpc, todo, srv, mu, handlerRound, sync, linkVars, hand, replies, grp>>

-----------------------------------------------------------------------------
(* Clients and coordinator.                                                  *)

\* HandleSubmissionMessage at the first server of the path of client c.
SubmitMessage(c) ==
    LET s == Route[c][0]
    IN  /\ phase = "clients" /\ c \in toSubmit
        /\ WaitForRound(s, round) /\ InLayer(sync[s], 0)
        /\ srv' = [srv EXCEPT ![s] = IF @.path THEN handlePathMessage(@, s, c, c, <<round, 0>>)
                                     ELSE handleLightningMessage(@, c, <<round, 0>>)]
        /\ toSubmit' = toSubmit \ {c}
        /\ UNCHANGED <<round, phase, passed, rpc, todo, mu, handlerRound, sync, linkVars, hand,
                       replies, groupVars>>

\* Slip: the coordinator waits for the first answer only.
ReturnedFromOne == \E s \in Servers : rpc[s] = "done"

Returned == \A s \in Servers : rpc[s] = "done"

\* SendRoundSetup returns, SendClientStart begins.
ClientStart ==
    /\ phase = "setup" /\ Returned
    /\ phase' = "clients" /\ toSubmit' = Clients
    /\ UNCHANGED <<round, passed, rpc, todo, srv, mu, handlerRound, sync, linkVars, hand, replies,
                   groupVars>>

\* SendRoundStart; round 0 has none.
SendRoundStart ==
    /\ phase = "clients" /\ toSubmit = {}
    /\ phase' = IF round = 0 THEN "check" ELSE "start"
    /\ rpc' = IF round = 0 THEN rpc ELSE [s \in Servers |-> "start"]
    /\ UNCHANGED <<round, toSubmit, passed, todo, srv, mu, handlerRound, sync, linkVars, hand,
                   replies, groupVars>>

RoundStartReturned ==
    /\ phase = "start" /\ Returned
    /\ phase' = "check"
    /\ UNCHANGED <<round, toSubmit, passed, rpc, todo, srv, mu, handlerRound, sync, linkVars, hand,
                   replies, groupVars>>

\* GetMessages of a broadcast round: what the group members of s hold.
FinalMessages(s) == UNION {grp[s][g].final : g \in GroupsOf(s)}

\* Experiment.Passed: the receipts (each client asks its first server for one, or the
\* coordinator counts and compares them), or the messages.
RoundPassed ==
    IF ~IsPath(round) THEN UNION {FinalMessages(s) : s \in Servers} = Clients
    ELSE IF round = 0 THEN TRUE
    ELSE IF ReceiptLayer(round) = 0 THEN \A c \in Clients : c \in srv[Route[c][0]].receipts
    ELSE /\ UNION {srv[s].receipts : s \in Servers} = Clients
         /\ Cardinality(UNION {{s} \X srv[s].receipts : s \in Servers}) = Cardinality(Clients)

\* A wrong receipt is an error of DoAction, which ends the run; a failed broadcast
\* is only recorded.
Stops == round = LastRound \/ (IsPath(round) /\ ~RoundPassed)

\* The check of round i, and DoAction of round i + 1.
CheckRound ==
    /\ phase = "check"
    /\ passed' = (passed /\ RoundPassed)
    /\ \/ /\ Stops
          /\ phase' = "end" /\ UNCHANGED <<round, rpc>>
       \/ /\ ~Stops
          /\ round' = round + 1
          /\ phase' = IF IsPath(round + 1) THEN "start" ELSE "setup"
          /\ rpc' = [s \in Servers |-> phase']
    /\ UNCHANGED <<toSubmit, todo, srv, mu, handlerRound, sync, linkVars, hand, replies, groupVars>>

Terminated == phase = "end" /\ UNCHANGED vars

ServerStep(s) ==
    \/ RoundSetupPath(s) \/ RoundSetupLightning(s) \/ SetupDone(s)
    \/ RoundStartPath(s) \/ RoundStartReset(s) \/ RoundStartSent(s) \/ RoundStartLightning(s)
    \/ RoundComplete(s) \/ RoundStartReturn(s)
    \/ TriggerLock(s) \/ TriggerCall(s) \/ TriggerCommit(s)
    \/ SendNext(s) \/ CheckpointDone(s) \/ LayerSent(s)

GroupStep(s, g) ==
    \/ NewLightningRound(s, g) \/ ResetGroup(s, g)
    \/ GroupTriggerLock(s, g) \/ GroupOnThreshold(s, g) \/ GroupTriggerCommit(s, g)

HandlerStep(d, s) ==
    \/ TakeBatch(d, s) \/ TakeGroupBatch(d, s) \/ BatchDone(d, s)
    \/ \E c \in Clients : ProcessMessage(d, s, c)

CoordinatorStep == ClientStart \/ SendRoundStart \/ RoundStartReturned \/ CheckRound

Next ==
    \/ CoordinatorStep
    \/ \E c \in Clients : SubmitMessage(c)
    \/ \E s \in Servers : ServerStep(s)
    \/ \E s \in Servers : \E g \in GroupsOf(s) : GroupStep(s, g)
    \/ \E d, s \in Servers : HandlerStep(d, s)
    \/ Terminated

Spec == Init /\ [][Next]_vars

\* Some goroutine that can run does run: the Go scheduler and the network make progress.
FairSpec == Spec /\ WF_vars(Next)

-----------------------------------------------------------------------------
(* Properties.                                                               *)

ClientsAt(s, l) == {c \in Clients : Route[c][l] = s}
ClientsOf(g) == {c \in Clients : Exit[c] = g}

SyncType == [layer : -1 .. NumLayers + 1, started : SUBSET Servers, processed : 0 .. NumServers,
             trig : {"none", "spawned", "locked", "called"}, next : -1 .. NumLayers + 1]

\* Types of the coordinator, synchronizers and links; no link holds more than its
\* capacity, and a synchronizer never counts more batches than there are servers.
TypeOK ==
    /\ round \in 0 .. LastRound
    /\ phase \in {"setup", "clients", "start", "check", "end"}
    /\ toSubmit \subseteq Clients /\ passed \in BOOLEAN
    /\ mu \in [Servers -> {"free", "setup", "start", "next"}]
    /\ handlerRound \in [Servers -> {Blocked} \cup 0 .. LastRound]
    /\ sync \in [Servers -> SyncType]
    /\ \A s \in Servers :
          /\ srv[s].layer \in -1 .. NumLayers
          /\ replies[s] \subseteq Servers \X Groups
          /\ gsync[s] \in [GroupsOf(s) -> SyncType]
          /\ \A d \in Servers : d = s \/ Len(link[s][d]) <= LinkCapacity

\* No server of an honest network reaches a panic: no message is missing or comes twice
\* (MissingMessages, Duplicate), every key is found, no envelope is opened in a round or
\* layer it was not made for (workers read CommonState.Layer without a lock), no parser
\* or router is used before it is allocated or after it is freed, and no batch comes
\* from a sender that has already started the layer.
NoPanic ==
    \A s \in Servers : srv[s].fail = {} /\ \A g \in GroupsOf(s) : grp[s][g].fail = {}

\* After path round i every server has, for each layer up to i, exactly the keys of the
\* paths that cross it there, with the neighbours these paths really have; after the
\* last one all members of a group know the keys of the clients that exit there.
PathsEstablished ==
    (phase = "check" /\ IsPath(round)) =>
        /\ \A s \in Servers, l \in 0 .. round :
              srv[s].keys[l] =
                {[client |-> c,
                  prev |-> IF l = 0 THEN c ELSE Route[c][l - 1],
                  next |-> IF l = LastLayer THEN Exit[c] ELSE Route[c][l + 1]] :
                 c \in ClientsAt(s, l)}
        /\ round = LastLayer =>
              \A g \in Groups : \A m \in Members[g] : grp[m][g].keys = ClientsOf(g)

\* When a path round ends, the receipt of each client is at the server where the path
\* crosses the receipt layer, and at no other: boomerangs retrace the path.
ReceiptsReturn ==
    (phase = "check" /\ IsPath(round)) =>
        \A s \in Servers : srv[s].receipts = ClientsAt(s, ReceiptLayer(round))

\* When the coordinator collects a broadcast round, every member of a group, not just
\* one, holds exactly the messages of the clients that exit there.
DeliveredToAll ==
    (phase = "check" /\ ~IsPath(round)) =>
        \A g \in Groups : \A m \in Members[g] : grp[m][g].final = ClientsOf(g)

\* While a round runs, no server is two layers from another: the barriers keep
\* the servers in step although each of them only counts the batches it gets.
LockStep ==
    phase = "start" =>
        LET Begun == {s \in Servers : rpc[s] \notin {"start", "reset"}}
        IN  \A s, t \in Begun : srv[s].layer - srv[t].layer <= 1

\* When all servers have reported a round complete, nothing of it is left: no batch on a
\* link or in a handler, no goroutine that sends, no lock held, no key marked as used.
RoundQuiescent ==
    phase = "check" =>
        \A s \in Servers :
            /\ mu[s] = "free" /\ out[s] = <<>> /\ replies[s] = {}
            /\ sync[s].trig \in {"none", "called"}
            /\ \A l \in Layers : srv[s].used[l] = {}
            /\ \A d \in Servers : link[s][d] = <<>> /\ hand[s][d].batch = NoBatch

\* The layer whose messages a batch carries on.
SourceLayer(b) == IF b.type \in {"Reverse", "Token"} THEN b.layer + 1 ELSE b.layer - 1

\* Whenever a server starts to send, what it sends holds the message of every path that
\* crosses it in that layer: it mixes a whole layer and never forwards a part of it.
MixesWholeLayer ==
    [][\A s \in Servers :
         (out[s] = <<>> /\ out'[s] # <<>>) =>
             UNION {out'[s][i].msgs : i \in DOMAIN out'[s]} = ClientsAt(s, SourceLayer(Head(out'[s])))]_vars

\* Every round completes and passes the coordinator's check: no order of goroutines and
\* messages leaves the servers waiting for each other.
AllRoundsPass == <>(phase = "end" /\ passed)
=============================================================================
