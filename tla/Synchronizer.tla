---------------------------- MODULE Synchronizer ----------------------------
(***************************************************************************)
(* network/synchronization/synchronization.go with the goroutines that use *)
(* it: one HandleTcpStream per sending server (SyncOnce, process, Done),   *)
(* the Trigger goroutine that Done spawns, and the RoundStart call that    *)
(* opens a round with Reset (path rounds, group checkpoints) or with       *)
(* Trigger (broadcast rounds).                                             *)
(*                                                                         *)
(* Trigger and Reset take countLock, lock and markLock in this order and   *)
(* keep all three to the end, so one variable says how far the goroutine   *)
(* that owns countLock has come.  Every other critical section contains no *)
(* blocking call and is one step that needs its lock free.                 *)
(***************************************************************************)
EXTENDS Integers, FiniteSets

CONSTANTS
    NumServers,  \* threshold of every layer: one message from each server
    Rounds,      \* number of rounds that are run
    First, Last, \* first and last layer of each round
    Direction,   \* what OnThreshold adds to the layer
    ResetOpens   \* TRUE: rounds are opened by Reset; FALSE: by Trigger

Senders == 0 .. NumServers - 1

\* The layer a round rests at once its last layer is complete.  NewSynchronizer
\* starts at layer 0.
Rest(r) == IF r = 0 THEN 0 ELSE Last[r] + Direction

\* The layers of a round.
LayersOf(r) ==
    IF Direction = 1 THEN First[r] .. Last[r] ELSE Last[r] .. First[r]

\* RoundInfo as the coordinator sends it: a round goes from First to Last in the
\* server's direction, and it does not start at the layer the previous one rests
\* at.  RoundSetup makes a new synchronizer for every broadcast round, which
\* Trigger opens from the layer before its first one.
ASSUME PlanAssumption ==
    /\ NumServers \in Nat \ {0}
    /\ Rounds \in Nat \ {0}
    /\ Direction \in {1, -1}
    /\ ResetOpens \in BOOLEAN
    /\ First \in [1 .. Rounds -> Int] /\ Last \in [1 .. Rounds -> Int]
    /\ \A r \in 1 .. Rounds : Last[r] \in LayersOf(r) /\ First[r] # Rest(r - 1)
    /\ ~ResetOpens => Rounds = 1 /\ First[1] = Rest(0) + Direction

VARIABLES
    layer, processed, threshold, started, \* fields of Synchronizer
    stage,     \* locks held by Trigger/Reset: 1 countLock, 2 +lock, 3 +markLock,
               \* 4 all three and OnThreshold has returned; 0 none
    owner,     \* who holds them: "trigger" (spawned by Done), "driver" or "none"
    pending,   \* Trigger goroutines that have not yet got countLock
    round,     \* the round RoundStart opened last
    complete,  \* isRoundComplete / messagesReady: set by OnThreshold
    pc,        \* where the handler of each sender is
    msgRound, msgLayer \* metadata of the sender's current or next message

syncVars   == <<layer, processed, threshold, started>>
lockVars   == <<stage, owner, pending>>
driverVars == <<round, complete>>
senderVars == <<pc, msgRound, msgLayer>>
vars == <<syncVars, lockVars, driverVars, senderVars>>

CountLocked == stage >= 1
Locked      == stage >= 2
MarkLocked  == stage >= 3

Init ==
    /\ layer = Rest(0) /\ processed = 0 /\ threshold = NumServers
    /\ started = [s \in Senders |-> FALSE]
    /\ stage = 0 /\ owner = "none" /\ pending = 0
    /\ round = 0 /\ complete = TRUE
    /\ pc = [s \in Senders |-> "idle"]
    /\ msgRound = [s \in Senders |-> 1]
    /\ msgLayer = [s \in Senders |-> First[1]]

-----------------------------------------------------------------------------
(* The handler of one sender: HandleTcpStream is sequential per connection.  *)

\* Slip: WaitForRound lets every message pass.
HandlerRoundUnset == Rounds

\* The round up to which WaitForRound lets messages pass: SetRound follows Reset
\* when a round is opened by it, and precedes the Trigger of a broadcast round.
HandlerRound == IF ResetOpens THEN round ELSE Rounds

\* The next message has arrived and passes WaitForRound.  It may come long before
\* this server reaches its layer.
Receive(s) ==
    /\ pc[s] = "idle" /\ msgRound[s] <= HandlerRound
    /\ pc' = [pc EXCEPT ![s] = "sync"]
    /\ UNCHANGED <<syncVars, lockVars, driverVars, msgRound, msgLayer>>

\* Slip: a message of any layer is let in.
SyncUnchecked(s) ==
    /\ pc[s] = "sync" /\ ~Locked
    /\ pc' = [pc EXCEPT ![s] = "mark"]
    /\ UNCHANGED <<syncVars, lockVars, driverVars, msgRound, msgLayer>>

\* Sync: check the layer under the read lock; cond.Wait releases it.
Sync(s) ==
    /\ pc[s] = "sync" /\ ~Locked
    /\ pc' = [pc EXCEPT ![s] = IF layer = msgLayer[s] THEN "mark" ELSE "wait"]
    /\ UNCHANGED <<syncVars, lockVars, driverVars, msgRound, msgLayer>>

\* The rest of SyncOnce.  An id out of range or one that has already started this
\* layer is an error.
Mark(s) ==
    /\ pc[s] = "mark" /\ ~MarkLocked
    /\ IF s \in DOMAIN started /\ ~started[s]
         THEN /\ started' = [started EXCEPT ![s] = TRUE]
              /\ pc' = [pc EXCEPT ![s] = "work"]
         ELSE /\ pc' = [pc EXCEPT ![s] = "error"]
              /\ UNCHANGED started
    /\ UNCHANGED <<layer, processed, threshold, lockVars, driverVars, msgRound, msgLayer>>

\* Every message a sender sends: one per layer, round after round.
NextMessage(s) ==
    IF msgLayer[s] # Last[msgRound[s]]
      THEN /\ msgLayer' = [msgLayer EXCEPT ![s] = @ + Direction]
           /\ UNCHANGED msgRound
      ELSE /\ msgRound' = [msgRound EXCEPT ![s] = @ + 1]
           /\ msgLayer' = [msgLayer EXCEPT ![s] =
                IF msgRound[s] < Rounds THEN First[msgRound[s] + 1] ELSE @]

\* Slip: off by one.
ThresholdReachedEarly == processed' >= threshold - 1

\* Done compares with == under countLock, so that one Done per layer spawns Trigger.
ThresholdReached == processed' = threshold

\* WorkerPoolProcessStream defers Done before it looks at the error of SyncOnce, so it
\* also runs on the error path (not in WorkerPoolProcessGroup); the error then panics.
Done(s) ==
    /\ pc[s] \in {"work", "error"} /\ ~CountLocked
    /\ processed' = processed + 1
    /\ pending' = IF ThresholdReached THEN pending + 1 ELSE pending
    /\ IF pc[s] = "error" \/ processed' > threshold
         THEN /\ pc' = [pc EXCEPT ![s] = "panic"]
              /\ UNCHANGED <<msgRound, msgLayer>>
         ELSE /\ pc' = [pc EXCEPT ![s] = "idle"]
              /\ NextMessage(s)
    /\ UNCHANGED <<layer, threshold, started, stage, owner, driverVars>>

-----------------------------------------------------------------------------
(* Trigger and Reset.                                                        *)

\* A spawned Trigger gets countLock.
TriggerBegin ==
    /\ pending > 0 /\ ~CountLocked
    /\ stage' = 1 /\ owner' = "trigger" /\ pending' = pending - 1
    /\ UNCHANGED <<syncVars, driverVars, senderVars>>

\* RoundStart, called again by the coordinator once the round is complete, calls
\* Reset or Trigger and gets countLock.
DriverBegin ==
    /\ complete /\ round < Rounds /\ ~CountLocked
    /\ complete' = FALSE
    /\ stage' = 1 /\ owner' = "driver"
    /\ UNCHANGED <<syncVars, pending, round, senderVars>>

\* Readers and SyncOnce hold lock and markLock only within a step.
TakeLock ==
    /\ stage \in {1, 2}
    /\ stage' = stage + 1
    /\ UNCHANGED <<syncVars, owner, pending, driverVars, senderVars>>

Resetting == owner = "driver" /\ ResetOpens

\* OnThreshold runs with the three locks held.  At the last layer of a round it
\* reports the round complete, before Trigger has moved the layer.
Callback ==
    /\ stage = 3 /\ ~Resetting
    /\ stage' = 4
    /\ complete' = (complete \/ (owner = "trigger" /\ layer = Last[round]))
    /\ UNCHANGED <<syncVars, owner, pending, round, senderVars>>

\* Slip: the waiting handlers are not woken.
BroadcastForgotten == UNCHANGED pc

Broadcast == pc' = [s \in Senders |-> IF pc[s] = "wait" THEN "sync" ELSE pc[s]]

\* Slip: the count of the finished layer is kept.
ClearCountForgotten == UNCHANGED processed

ClearCount == processed' = 0

\* Slip: started is not made anew for the next layer.
ClearStartedForgotten == UNCHANGED started

ClearStarted == started' = [s \in 0 .. threshold' - 1 |-> FALSE]

\* The rest of Trigger and Reset, up to the unlocks.
Commit ==
    /\ stage = IF Resetting THEN 3 ELSE 4
    /\ layer' = IF Resetting THEN First[round + 1] ELSE layer + Direction
    /\ threshold' = NumServers
    /\ ClearStarted /\ ClearCount
    /\ Broadcast
    /\ round' = IF owner = "driver" THEN round + 1 ELSE round
    /\ stage' = 0 /\ owner' = "none"
    /\ UNCHANGED <<pending, complete, msgRound, msgLayer>>

\* All rounds are over: the system rests.
Terminated ==
    /\ round = Rounds /\ complete /\ stage = 0 /\ pending = 0
    /\ \A s \in Senders : pc[s] = "idle" /\ msgRound[s] > Rounds
    /\ UNCHANGED vars

SenderStep(s) == Receive(s) \/ Sync(s) \/ Mark(s) \/ Done(s)

Next ==
    \/ \E s \in Senders : SenderStep(s)
    \/ TriggerBegin
    \/ DriverBegin
    \/ TakeLock
    \/ Callback
    \/ Commit
    \/ Terminated

Spec == Init /\ [][Next]_vars

\* Goroutines that can run do run, and Go's mutexes do not starve a waiter.
Fairness ==
    /\ \A s \in Senders : WF_vars(Receive(s)) /\ SF_vars(Sync(s)) /\ SF_vars(Mark(s)) /\ SF_vars(Done(s))
    /\ SF_vars(TriggerBegin) /\ SF_vars(DriverBegin)
    /\ WF_vars(TakeLock) /\ WF_vars(Callback) /\ WF_vars(Commit)

FairSpec == Spec /\ Fairness

-----------------------------------------------------------------------------
(* Properties.                                                               *)

\* Types; a layer never counts more messages than there are servers.
TypeOK ==
    /\ layer \in Int /\ processed \in 0 .. NumServers /\ threshold = NumServers
    /\ started \in [Senders -> BOOLEAN]
    /\ stage \in 0 .. 4 /\ owner \in {"none", "trigger", "driver"} /\ pending \in Nat
    /\ round \in 0 .. Rounds /\ complete \in BOOLEAN
    /\ pc \in [Senders -> {"idle", "sync", "wait", "mark", "work", "error", "panic"}]
    /\ msgRound \in [Senders -> 1 .. Rounds + 1]
    /\ msgLayer \in [Senders -> Int]

\* t has yet to finish a message that precedes the one s is at.
Behind(t, s) ==
    \/ msgRound[t] < msgRound[s]
    \/ msgRound[t] = msgRound[s] /\ (msgLayer[s] - msgLayer[t]) * Direction > 0

\* "A server receives a message in layer l+1 only after all messages from layer l":
\* while a message is processed, no sender has an earlier message outstanding.
BarrierOrder == \A s, t \in Senders : pc[s] = "work" => ~Behind(t, s)

\* Neither the error of SyncOnce nor the panic of Done ("More clients passed
\* SyncOnce than threshold") is reached when every server sends once per layer,
\* however the handlers, Trigger and RoundStart interleave.
NoOverrun == \A s \in Senders : pc[s] \notin {"error", "panic"}

Triggers == pending + (IF owner = "trigger" THEN 1 ELSE 0)

\* Done spawns one Trigger per layer, and while that Trigger waits for its locks
\* every sender has left the layer and none has entered the next one.
TriggerOnce ==
    /\ Triggers <= 1
    /\ Triggers = 1 => /\ processed = threshold
                       /\ \A s \in Senders : started[s] /\ pc[s] \notin {"mark", "work"}

\* A handler sleeps in Sync only while its layer has not come: Trigger and Reset
\* broadcast every change of the layer before they release the locks.
NoLostWakeup == \A s \in Senders : pc[s] = "wait" => msgLayer[s] # layer

\* Every round that RoundStart opens runs through all its layers.
AllRoundsComplete ==
    <>[](round = Rounds /\ complete /\ \A s \in Senders : msgRound[s] > Rounds)

-----------------------------------------------------------------------------
(* The inductive invariant behind the safety properties.                     *)

\* The senders that have finished their message of the current layer.
Arrived == {s \in Senders : <<msgRound[s], msgLayer[s]>> # <<round, layer>>}

\* The next message of s is the first one of the round to come.
AtNextRound(s) ==
    /\ msgRound[s] = round + 1
    /\ round < Rounds => msgLayer[s] = First[round + 1]

\* Between two rounds nobody is inside and nothing is counted.
RestingInv ==
    /\ layer = Rest(round)
    /\ processed = 0 /\ pending = 0
    /\ owner # "trigger" /\ (complete <=> owner = "none")
    /\ owner = "driver" => round < Rounds
    /\ \A s \in Senders : /\ AtNextRound(s) /\ ~started[s]
                           /\ pc[s] \in {"idle", "sync", "wait"}

\* Within a round every sender is at the current layer or has just left it, and
\* processed counts those that left.
ActiveInv ==
    /\ round > 0 /\ layer \in LayersOf(round)
    /\ owner # "driver" /\ (complete <=> stage = 4 /\ layer = Last[round])
    /\ processed = Cardinality(Arrived)
    /\ Triggers = IF processed = NumServers THEN 1 ELSE 0
    /\ \A s \in Senders :
         \/ /\ msgRound[s] = round /\ msgLayer[s] = layer
            /\ pc[s] \in {"idle", "sync", "mark", "work"}
            /\ started[s] <=> pc[s] = "work"
         \/ /\ \/ layer # Last[round] /\ msgRound[s] = round /\ msgLayer[s] = layer + Direction
               \/ layer = Last[round] /\ AtNextRound(s)
            /\ pc[s] \in {"idle", "sync", "wait"}
            /\ started[s]

\* At every moment the synchronizer is either between rounds or inside a layer
\* that all senders share: the fact all safety properties above follow from.
BarrierInv ==
    /\ TypeOK /\ NoLostWakeup
    /\ stage = 0 <=> owner = "none"
    /\ stage = 4 => ~Resetting
    /\ \A s \in Senders : msgRound[s] > HandlerRound => pc[s] = "idle"
    /\ RestingInv \/ ActiveInv

\* The view of the abstract barrier: who is inside the layer, who has left it.
Working  == {s \in Senders : pc[s] = "work"}
Finished == IF layer = Rest(round) THEN {} ELSE Arrived

Barrier == INSTANCE LayerBarrier WITH working <- Working, finished <- Finished

\* The synchronizer implements the barrier its callers rely on.
ImplementsBarrier == Barrier!BSpec
=============================================================================
