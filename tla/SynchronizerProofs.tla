------------------------- MODULE SynchronizerProofs -------------------------
(***************************************************************************)
(* The safety of the synchronizer for any number of servers and any plan   *)
(* of rounds: BarrierInv is inductive, it implies the safety properties,   *)
(* and every step is a step of LayerBarrier or leaves its view unchanged.  *)
(***************************************************************************)
EXTENDS Synchronizer, FiniteSetTheorems, TLAPS

\* A leaf that names no prover is for SMT, tried again when it fails, and then for Zenon.
USE SMTT(30), SMTT(40), Zenon

\* The senders form a finite set with NumServers members.
LEMMA SendersFinite == IsFiniteSet(Senders) /\ Cardinality(Senders) = NumServers
<1>1. 0 \in Int /\ NumServers - 1 \in Int /\ NumServers \in Nat /\ NumServers > 0
  BY PlanAssumption
<1>2. QED
  BY <1>1, FS_Interval DEF Senders

\* The number of servers that arrived is at most NumServers, and it is NumServers
\* only when all of them arrived; it is zero when none has.
LEMMA ArrivedCount ==
  /\ IsFiniteSet(Arrived)
  /\ Cardinality(Arrived) \in 0 .. NumServers
  /\ Cardinality(Arrived) = NumServers => Arrived = Senders
  /\ Arrived = Senders => Cardinality(Arrived) = NumServers
  /\ Arrived = {} => Cardinality(Arrived) = 0
<1>1. Arrived \subseteq Senders
  BY DEF Arrived
<1>2. QED
  BY <1>1, SendersFinite, FS_Subset, FS_CardinalityType, FS_EmptySet, PlanAssumption

\* A round is a non-empty interval of layers that OnThreshold walks from First to
\* Last one at a time, and it never rests at a layer of its own.
LEMMA LayerSteps ==
  ASSUME NEW r \in 1 .. Rounds
  PROVE  /\ First[r] \in Int /\ Last[r] \in Int /\ Rest(r) \in Int /\ Rest(r - 1) \in Int
         /\ First[r] \in LayersOf(r)
         /\ Rest(r) \notin LayersOf(r)
         /\ Rest(r) = Last[r] + Direction
         /\ \A l \in LayersOf(r) : l \in Int /\ (l # Last[r] => l + Direction \in LayersOf(r))
<1>1. r - 1 \in 0 .. Rounds /\ (r - 1 # 0 => r - 1 \in 1 .. Rounds) /\ r # 0
  BY PlanAssumption
<1>2. First[r] \in Int /\ Last[r] \in Int /\ (r - 1 # 0 => Last[r - 1] \in Int)
  BY <1>1, PlanAssumption
<1>3. Last[r] \in LayersOf(r)
  BY PlanAssumption
<1>4. Rest(r) = Last[r] + Direction /\ Rest(r) \in Int /\ Rest(r - 1) \in Int
  <2>1. Direction \in Int
    BY PlanAssumption
  <2>2. QED
    BY <1>1, <1>2, <2>1 DEF Rest
<1>5. CASE Direction = 1
  <2>1. LayersOf(r) = First[r] .. Last[r]
    BY <1>5 DEF LayersOf
  <2>2. QED
    BY <1>2, <1>3, <1>4, <1>5, <2>1
<1>6. CASE Direction = -1
  <2>1. LayersOf(r) = Last[r] .. First[r]
    BY <1>6 DEF LayersOf
  <2>2. QED
    BY <1>2, <1>3, <1>4, <1>6, <2>1
<1>7. QED
  BY <1>5, <1>6, PlanAssumption

\* The synchronizer starts between rounds.
LEMMA InitInv == Init => BarrierInv
<1> SUFFICES ASSUME Init PROVE BarrierInv
  OBVIOUS
<1>1. 1 \in 1 .. Rounds /\ First[1] \in Int /\ Rounds \in Nat /\ NumServers \in Nat /\ First[1] # Rest(0)
  BY PlanAssumption
<1>2. TypeOK
  BY <1>1, PlanAssumption DEF Init, TypeOK, Rest
<1>3. RestingInv
  BY <1>1, PlanAssumption DEF Init, RestingInv, AtNextRound
<1>4. NoLostWakeup /\ (stage = 0 <=> owner = "none") /\ (stage = 4 => ~Resetting)
  BY DEF Init, NoLostWakeup
<1>5. \A s \in Senders : msgRound[s] > HandlerRound => pc[s] = "idle"
  BY DEF Init
<1>6. QED
  BY <1>2, <1>3, <1>4, <1>5 DEF BarrierInv

\* Every action preserves the invariant: a received message has passed WaitForRound.
LEMMA ReceiveInv == ASSUME BarrierInv, NEW s \in Senders, Receive(s) PROVE BarrierInv'
<1> USE DEF BarrierInv, Receive, syncVars, lockVars, driverVars
<1>1. TypeOK'
  BY DEF TypeOK
<1>2. NoLostWakeup'
  BY DEF NoLostWakeup, TypeOK
<1>3. HandlerRound' = HandlerRound /\ Resetting' = Resetting /\ Arrived' = Arrived
  BY DEF HandlerRound, Resetting, Arrived
<1>4. (\A t \in Senders : msgRound[t] > HandlerRound => pc[t] = "idle")'
  <2>1. HandlerRound \in Nat
    BY PlanAssumption DEF HandlerRound, TypeOK
  <2>2. QED
    BY <1>3, <2>1 DEF TypeOK
<1>5. CASE RestingInv
  <2>1. RestingInv'
    BY <1>5 DEF RestingInv, AtNextRound, TypeOK
  <2>2. QED
    BY <1>1, <1>2, <1>3, <1>4, <2>1
<1>6. CASE ActiveInv
  <2>1. ActiveInv'
    BY <1>3, <1>6 DEF ActiveInv, AtNextRound, Triggers, TypeOK
  <2>2. QED
    BY <1>1, <1>2, <1>3, <1>4, <2>1
<1>7. QED
  BY <1>5, <1>6

\* Sync only looks at the layer: a handler goes on exactly when its layer is the current one.
LEMMA SyncInv == ASSUME BarrierInv, NEW s \in Senders, Sync(s) PROVE BarrierInv'
<1> USE DEF BarrierInv, Sync, syncVars, lockVars, driverVars
<1>1. TypeOK'
  BY DEF TypeOK
<1>2. NoLostWakeup'
  BY DEF NoLostWakeup, TypeOK
<1>3. HandlerRound' = HandlerRound /\ Resetting' = Resetting /\ Arrived' = Arrived
  BY DEF HandlerRound, Resetting, Arrived
<1>4. HandlerRound \in Nat /\ msgRound[s] <= HandlerRound
  <2>1. HandlerRound \in Nat
    BY PlanAssumption DEF HandlerRound, TypeOK
  <2>2. msgRound[s] \in Int /\ ~(msgRound[s] > HandlerRound)
    BY PlanAssumption DEF TypeOK
  <2>3. QED
    BY <2>1, <2>2
<1>5. (\A t \in Senders : msgRound[t] > HandlerRound => pc[t] = "idle")'
  BY <1>3, <1>4 DEF TypeOK
<1>6. CASE RestingInv
  <2>1. msgLayer[s] # layer
    <3>1. round < Rounds /\ round + 1 \in 1 .. Rounds /\ (round + 1) - 1 = round
      BY <1>4, <1>6, PlanAssumption DEF RestingInv, AtNextRound, HandlerRound, TypeOK
    <3>2. First[round + 1] # Rest(round)
      BY <3>1, PlanAssumption
    <3>3. QED
      BY <1>6, <3>1, <3>2 DEF RestingInv, AtNextRound
  <2>2. RestingInv'
    BY <1>6, <2>1 DEF RestingInv, AtNextRound, TypeOK
  <2>3. QED
    BY <1>1, <1>2, <1>3, <1>5, <2>2
<1>7. CASE ActiveInv
  <2>1. round \in 1 .. Rounds /\ Direction \in {1, -1} /\ layer \in Int
    BY <1>7, PlanAssumption DEF ActiveInv, TypeOK
  <2>2. ~AtNextRound(s)
    BY <1>4, <2>1, PlanAssumption DEF AtNextRound, HandlerRound
  <2>3. ActiveInv'
    BY <1>3, <1>7, <2>1, <2>2 DEF ActiveInv, AtNextRound, Triggers, TypeOK
  <2>4. QED
    BY <1>1, <1>2, <1>3, <1>5, <2>3
<1>8. QED
  BY <1>6, <1>7

\* SyncOnce marks a sender of the current layer that had not started it.
LEMMA MarkInv == ASSUME BarrierInv, NEW s \in Senders, Mark(s) PROVE BarrierInv'
<1> USE DEF BarrierInv, Mark, lockVars, driverVars
<1>1. ActiveInv /\ DOMAIN started = Senders
  BY DEF RestingInv, TypeOK
<1>2. msgRound[s] = round /\ msgLayer[s] = layer /\ ~started[s]
  BY <1>1 DEF ActiveInv
<1>3. /\ started' = [started EXCEPT ![s] = TRUE]
      /\ pc' = [pc EXCEPT ![s] = "work"]
  BY <1>1, <1>2
<1>4. TypeOK'
  BY <1>3 DEF TypeOK
<1>5. NoLostWakeup'
  BY <1>3 DEF NoLostWakeup, TypeOK
<1>6. HandlerRound' = HandlerRound /\ Resetting' = Resetting /\ Arrived' = Arrived
  BY DEF HandlerRound, Resetting, Arrived
<1>7. (\A t \in Senders : msgRound[t] > HandlerRound => pc[t] = "idle")'
  BY <1>3, <1>6 DEF TypeOK
<1>8. ActiveInv'
  BY <1>1, <1>2, <1>3, <1>6 DEF ActiveInv, AtNextRound, Triggers, TypeOK
<1>9. QED
  BY <1>4, <1>5, <1>6, <1>7, <1>8

\* Done counts the sender as arrived, and the last one of a layer spawns Trigger.
LEMMA DoneInv == ASSUME BarrierInv, NEW s \in Senders, Done(s) PROVE BarrierInv'
<1> USE DEF BarrierInv
<1>1. ActiveInv /\ pc[s] = "work"
  BY DEF Done, RestingInv, ActiveInv
<1>2. msgRound[s] = round /\ msgLayer[s] = layer /\ started[s]
  BY <1>1 DEF ActiveInv
<1>3. /\ round \in 1 .. Rounds /\ round \in Int /\ layer \in Int
      /\ Direction \in {1, -1} /\ Rounds \in Nat /\ NumServers \in Nat
      /\ Last[round] \in Int /\ (round < Rounds => First[round + 1] \in Int)
  BY <1>1, PlanAssumption DEF ActiveInv, TypeOK
<1>4. s \notin Arrived /\ Cardinality(Arrived \cup {s}) = processed + 1
  <2>1. s \notin Arrived
    BY <1>2 DEF Arrived
  <2>2. QED
    BY <1>1, <2>1, ArrivedCount, FS_AddElement, ZenonT(40) DEF ActiveInv
<1>5. processed < NumServers /\ processed \in Nat /\ threshold = NumServers
  BY <1>1, <1>3, <1>4, ArrivedCount DEF ActiveInv, TypeOK
<1>6. /\ pc' = [pc EXCEPT ![s] = "idle"]
      /\ NextMessage(s)
      /\ processed' = processed + 1
      /\ pending' = IF processed' = threshold THEN pending + 1 ELSE pending
      /\ UNCHANGED <<layer, threshold, started, stage, owner, round, complete>>
  BY <1>1, <1>3, <1>5 DEF Done, ThresholdReached, driverVars
<1>7. /\ msgRound' \in [Senders -> 1 .. Rounds + 1] /\ msgLayer' \in [Senders -> Int]
      /\ \A t \in Senders \ {s} : msgRound'[t] = msgRound[t] /\ msgLayer'[t] = msgLayer[t]
      /\ \/ layer # Last[round] /\ msgRound'[s] = round /\ msgLayer'[s] = layer + Direction
         \/ layer = Last[round] /\ AtNextRound(s)'
  <2>1. CASE layer # Last[round]
    BY <1>2, <1>3, <1>6, <2>1 DEF NextMessage, TypeOK
  <2>2. CASE layer = Last[round]
    BY <1>2, <1>3, <1>6, <2>2 DEF NextMessage, TypeOK, AtNextRound
  <2>3. QED
    BY <2>1, <2>2
<1>8. Arrived' = Arrived \cup {s}
  <2>1. <<msgRound'[s], msgLayer'[s]>> # <<round, layer>>
    BY <1>3, <1>6, <1>7 DEF AtNextRound
  <2>2. QED
    BY <1>6, <1>7, <2>1 DEF Arrived
<1>9. TypeOK'
  <2>1. TypeOK
    OBVIOUS
  <2>2. pc' \in [Senders -> {"idle", "sync", "wait", "mark", "work", "error", "panic"}]
    BY <1>6, <2>1 DEF TypeOK
  <2>3. processed' \in 0 .. NumServers /\ pending' \in Nat
    BY <1>3, <1>5, <1>6, <2>1 DEF TypeOK
  <2>4. QED
    BY <1>6, <1>7, <2>1, <2>2, <2>3 DEF TypeOK
<1>10. NoLostWakeup'
  BY <1>6, <1>7 DEF NoLostWakeup, TypeOK
<1>11. HandlerRound' = HandlerRound /\ Resetting' = Resetting
  BY <1>6 DEF HandlerRound, Resetting
<1>12. (\A t \in Senders : msgRound[t] > HandlerRound => pc[t] = "idle")'
  BY <1>6, <1>7, <1>11 DEF TypeOK
<1>13. ActiveInv'
  <2>1. processed' = Cardinality(Arrived')
    BY <1>4, <1>6, <1>8
  <2>2. Triggers' = IF processed' = NumServers THEN 1 ELSE 0
    BY <1>1, <1>3, <1>5, <1>6 DEF ActiveInv, Triggers, TypeOK
  <2>3. \A t \in Senders \ {s} : AtNextRound(t) => AtNextRound(t)'
    BY <1>6, <1>7 DEF AtNextRound
  <2>4. started'[s] /\ pc'[s] = "idle" /\ \A t \in Senders \ {s} : pc'[t] = pc[t]
    BY <1>2, <1>6 DEF TypeOK
  <2>5. QED
    BY <1>1, <1>6, <1>7, <2>1, <2>2, <2>3, <2>4 DEF ActiveInv
<1>14. QED
  BY <1>6, <1>9, <1>10, <1>11, <1>12, <1>13

\* A Trigger takes countLock only when every sender has left the layer.
LEMMA TriggerBeginInv == ASSUME BarrierInv, TriggerBegin PROVE BarrierInv'
<1> USE DEF BarrierInv, TriggerBegin, syncVars, driverVars, senderVars, CountLocked
<1>1. ActiveInv /\ owner = "none" /\ stage = 0
  BY DEF RestingInv, TypeOK
<1>2. TypeOK' /\ NoLostWakeup' /\ ~Resetting' /\ HandlerRound' = HandlerRound /\ Arrived' = Arrived
  BY DEF TypeOK, NoLostWakeup, Resetting, HandlerRound, Arrived
<1>3. ActiveInv'
  BY <1>1, <1>2 DEF ActiveInv, AtNextRound, Triggers, TypeOK
<1>4. QED
  BY <1>2, <1>3

\* RoundStart takes countLock only between two rounds.
LEMMA DriverBeginInv == ASSUME BarrierInv, DriverBegin PROVE BarrierInv'
<1> USE DEF BarrierInv, DriverBegin, syncVars, senderVars, CountLocked
<1>1. RestingInv /\ owner = "none" /\ stage = 0
  BY DEF ActiveInv, TypeOK
<1>2. TypeOK' /\ NoLostWakeup'
  <2>1. complete' \in BOOLEAN
    BY Zenon
  <2>2. stage' \in 0 .. 4 /\ owner' \in {"none", "trigger", "driver"}
    OBVIOUS
  <2>3. QED
    BY <2>1, <2>2, Zenon DEF TypeOK, NoLostWakeup
<1>3. HandlerRound' = HandlerRound
  BY DEF HandlerRound
<1>4. RestingInv'
  BY <1>1 DEF RestingInv, AtNextRound, TypeOK
<1>5. QED
  BY <1>2, <1>3, <1>4

\* Taking lock and markLock changes nothing the invariant speaks of.
LEMMA TakeLockInv == ASSUME BarrierInv, TakeLock PROVE BarrierInv'
<1> USE DEF BarrierInv, TakeLock, syncVars, driverVars, senderVars
<1>1. TypeOK' /\ NoLostWakeup' /\ HandlerRound' = HandlerRound /\ Arrived' = Arrived /\ stage' \in {2, 3}
  BY DEF TypeOK, NoLostWakeup, HandlerRound, Arrived
<1>2. RestingInv => RestingInv'
  BY DEF RestingInv, AtNextRound
<1>3. ActiveInv => ActiveInv'
  BY <1>1 DEF ActiveInv, AtNextRound, Triggers, TypeOK
<1>4. QED
  BY <1>1, <1>2, <1>3

\* OnThreshold reports the round complete exactly at its last layer.
LEMMA CallbackInv == ASSUME BarrierInv, Callback PROVE BarrierInv'
<1> USE DEF BarrierInv, Callback, syncVars, senderVars
<1>1. /\ TypeOK' /\ NoLostWakeup' /\ HandlerRound' = HandlerRound /\ Arrived' = Arrived
      /\ ~Resetting' /\ owner # "none"
  BY DEF TypeOK, NoLostWakeup, HandlerRound, Arrived, Resetting
<1>2. RestingInv => RestingInv'
  BY <1>1 DEF RestingInv, AtNextRound, TypeOK
<1>3. ActiveInv => ActiveInv'
  BY <1>1, ZenonT(40) DEF ActiveInv, AtNextRound, Triggers, TypeOK
<1>4. QED
  BY <1>1, <1>2, <1>3

\* The end of Trigger or Reset moves all senders to the new layer together.
LEMMA CommitInv == ASSUME BarrierInv, Commit PROVE BarrierInv'
<1> USE DEF BarrierInv
<1>1. /\ stage' = 0 /\ owner' = "none" /\ threshold' = NumServers /\ processed' = 0
      /\ started' = [s \in Senders |-> FALSE]
      /\ UNCHANGED <<pending, complete, msgRound, msgLayer>>
      /\ \A s \in Senders : pc'[s] # "wait" /\ pc'[s] = IF pc[s] = "wait" THEN "sync" ELSE pc[s]
      /\ pc' \in [Senders -> {"idle", "sync", "wait", "mark", "work", "error", "panic"}]
  BY DEF Commit, ClearStarted, ClearCount, Broadcast, Senders, TypeOK
<1>2. stage \in {3, 4} /\ stage # 0 /\ owner # "none"
  BY DEF Commit, TypeOK
<1>3. /\ Direction \in {1, -1} /\ Direction \in Int /\ Rounds \in Nat /\ NumServers \in Nat \ {0}
      /\ round \in 0 .. Rounds
  BY PlanAssumption DEF TypeOK
<1>4. CASE ActiveInv
  <2>1. owner = "trigger" /\ stage = 4 /\ ~Resetting
    BY <1>2, <1>4 DEF ActiveInv, Commit, Resetting, TypeOK
  <2>2. round' = round /\ layer' = layer + Direction /\ round \in 1 .. Rounds
    BY <1>3, <1>4, <2>1 DEF Commit, ActiveInv
  <2>3. processed = NumServers /\ pending = 0
    BY <1>3, <1>4, <2>1 DEF ActiveInv, Triggers, TypeOK
  <2>4. Arrived = Senders
    BY <1>4, <2>3, ArrivedCount DEF ActiveInv
  <2>5. \A s \in Senders : pc'[s] \in {"idle", "sync"}
    BY <1>1, <1>4, <2>4 DEF ActiveInv, Arrived
  <2>6. \A s \in Senders : \/ layer # Last[round] /\ msgRound[s] = round /\ msgLayer[s] = layer + Direction
                           \/ layer = Last[round] /\ AtNextRound(s)
    BY <1>4, <2>4 DEF ActiveInv, Arrived
  <2>7. TypeOK' /\ NoLostWakeup'
    <3>1. layer' \in Int /\ processed' \in 0 .. NumServers /\ stage' \in 0 .. 4
      BY <1>1, <1>3, <2>2 DEF TypeOK
    <3>2. QED
      BY <1>1, <2>2, <3>1 DEF TypeOK, NoLostWakeup
  <2>8. (\A s \in Senders : msgRound[s] > HandlerRound => pc[s] = "idle")'
    BY <1>1, <2>2 DEF HandlerRound
  <2>9. CASE layer = Last[round]
    <3>1. layer' = Rest(round') /\ complete'
      BY <1>1, <1>4, <2>1, <2>2, <2>9, LayerSteps DEF ActiveInv
    <3>2. RestingInv'
      BY <1>1, <2>2, <2>3, <2>5, <2>6, <2>9, <3>1 DEF RestingInv, AtNextRound
    <3>3. QED
      BY <1>1, <2>7, <2>8, <3>2
  <2>10. CASE layer # Last[round]
    <3>1. layer' \in LayersOf(round') /\ round' > 0 /\ complete' = FALSE
      <4>1. layer \in LayersOf(round) /\ ~complete
        BY <1>4, <2>10 DEF ActiveInv
      <4>2. layer' \in LayersOf(round') /\ round' > 0
        BY <2>2, <2>10, <4>1, LayerSteps DEF LayersOf
      <4>3. complete' = FALSE
        BY <1>1, <4>1, Zenon DEF TypeOK
      <4>4. QED
        BY <4>2, <4>3
    <3>2. Arrived' = {} /\ Cardinality(Arrived') = 0
      <4>1. Arrived' = {}
        BY <1>1, <2>2, <2>6, <2>10 DEF Arrived
      <4>2. QED
        BY <4>1, FS_EmptySet
    <3>3. Triggers' = 0
      BY <1>1, <2>3 DEF Triggers
    <3>4. \A s \in Senders : /\ msgRound'[s] = round' /\ msgLayer'[s] = layer'
                             /\ pc'[s] \in {"idle", "sync"} /\ ~started'[s]
      BY <1>1, <2>2, <2>5, <2>6, <2>10
    <3>5. ActiveInv'
      BY <1>1, <1>3, <3>1, <3>2, <3>3, <3>4 DEF ActiveInv
    <3>6. QED
      BY <1>1, <2>7, <2>8, <3>5
  <2>11. QED
    BY <2>9, <2>10
<1>5. CASE RestingInv
  <2>1. owner = "driver" /\ round < Rounds /\ ~complete
    BY <1>2, <1>5 DEF RestingInv, TypeOK
  <2>2. round' = round + 1 /\ round' \in 1 .. Rounds /\ round' > 0 /\ round' # 0
    BY <1>3, <2>1 DEF Commit
  <2>3. layer' = First[round']
    <3>1. CASE ResetOpens
      BY <2>1, <2>2, <3>1 DEF Commit, Resetting
    <3>2. CASE ~ResetOpens
      <4>1. layer' = layer + Direction
        BY <3>2 DEF Commit, Resetting
      <4>2. round = 0 /\ round' = 1 /\ First[1] = Rest(0) + Direction
        BY <1>3, <2>1, <2>2, <3>2, PlanAssumption
      <4>3. QED
        BY <1>5, <4>1, <4>2 DEF RestingInv
    <3>3. QED
      BY <3>1, <3>2
  <2>4. layer' \in Int /\ layer' \in LayersOf(round')
    <3>1. First[round'] \in Int /\ First[round'] \in LayersOf(round')
      BY <2>2, LayerSteps
    <3>2. QED
      BY <2>3, <3>1 DEF LayersOf
  <2>5. \A s \in Senders : /\ msgRound'[s] = round' /\ msgLayer'[s] = layer'
                           /\ pc'[s] \in {"idle", "sync"} /\ ~started'[s]
    BY <1>1, <1>5, <2>1, <2>2, <2>3 DEF RestingInv, AtNextRound
  <2>6. TypeOK' /\ NoLostWakeup'
    <3>1. round' \in 0 .. Rounds /\ processed' \in 0 .. NumServers /\ stage' \in 0 .. 4
      BY <1>1, <1>3, <2>2
    <3>2. QED
      BY <1>1, <2>4, <3>1 DEF TypeOK, NoLostWakeup
  <2>7. (\A s \in Senders : msgRound[s] > HandlerRound => pc[s] = "idle")'
    BY <1>3, <2>2, <2>5 DEF HandlerRound
  <2>8. Arrived' = {} /\ Cardinality(Arrived') = 0
    <3>1. Arrived' = {}
      BY <2>5 DEF Arrived
    <3>2. QED
      BY <3>1, FS_EmptySet
  <2>9. Triggers' = 0
    BY <1>1, <1>5 DEF Triggers, RestingInv
  <2>10. ActiveInv'
    BY <1>1, <1>3, <2>1, <2>2, <2>4, <2>5, <2>8, <2>9 DEF ActiveInv, TypeOK
  <2>11. QED
    BY <1>1, <2>6, <2>7, <2>10
<1>6. QED
  BY <1>4, <1>5

\* The invariant is inductive.
LEMMA StepInv == BarrierInv /\ [Next]_vars => BarrierInv'
<1> SUFFICES ASSUME BarrierInv, [Next]_vars PROVE BarrierInv'
  OBVIOUS
<1>1. ASSUME NEW s \in Senders, SenderStep(s) PROVE BarrierInv'
  BY <1>1, ReceiveInv, SyncInv, MarkInv, DoneInv DEF SenderStep
<1>2. CASE TriggerBegin
  BY <1>2, TriggerBeginInv
<1>3. CASE DriverBegin
  BY <1>3, DriverBeginInv
<1>4. CASE TakeLock
  BY <1>4, TakeLockInv
<1>5. CASE Callback
  BY <1>5, CallbackInv
<1>6. CASE Commit
  BY <1>6, CommitInv
<1>7. CASE UNCHANGED vars
  BY <1>7 DEF vars, syncVars, lockVars, driverVars, senderVars, BarrierInv, TypeOK,
     NoLostWakeup, Resetting, HandlerRound, RestingInv, ActiveInv, AtNextRound, Arrived, Triggers
<1>8. QED
  BY <1>1, <1>2, <1>3, <1>4, <1>5, <1>6, <1>7 DEF Next, Terminated

\* For any number of servers and any plan of rounds, the synchronizer is always
\* either between rounds or inside one layer that all senders share.
THEOREM BarrierInvariant == Spec => []BarrierInv
<1>1. QED
  BY InitInv, StepInv, PTL DEF Spec

\* The synchronizer's fields, locks and handlers keep their types: in particular
\* processed never exceeds the number of servers.
THEOREM TypeCorrectness == Spec => []TypeOK
<1>1. BarrierInv => TypeOK
  BY DEF BarrierInv
<1>2. QED
  BY <1>1, BarrierInvariant, PTL

\* Messages of layer l+1 are processed only after all messages of layer l.
THEOREM BarrierOrdering == Spec => []BarrierOrder
<1>1. BarrierInv => BarrierOrder
  <2> SUFFICES ASSUME BarrierInv, NEW s \in Senders, NEW t \in Senders, pc[s] = "work"
               PROVE  ~Behind(t, s)
    BY DEF BarrierOrder
  <2>1. ActiveInv
    BY DEF BarrierInv, RestingInv
  <2>2. msgRound[s] = round /\ msgLayer[s] = layer
    BY <2>1 DEF ActiveInv
  <2>3. /\ msgRound[t] >= round
        /\ msgRound[t] = round => msgLayer[t] \in {layer, layer + Direction}
    BY <2>1 DEF ActiveInv, AtNextRound, BarrierInv, TypeOK
  <2>4. Direction \in {1, -1} /\ layer \in Int /\ round \in Int /\ msgRound[t] \in Int
    BY PlanAssumption DEF BarrierInv, TypeOK
  <2>5. msgRound[t] = round => ~((layer - msgLayer[t]) * Direction > 0)
    <3>1. CASE Direction = 1
      BY <2>3, <2>4, <3>1
    <3>2. CASE Direction = -1
      BY <2>3, <2>4, <3>2
    <3>3. QED
      BY <2>4, <3>1, <3>2
  <2>6. QED
    BY <2>2, <2>3, <2>4, <2>5 DEF Behind
<1>2. QED
  BY <1>1, BarrierInvariant, PTL

\* SyncOnce never fails and Done never panics while every server sends one message
\* per layer.
THEOREM NoOverruns == Spec => []NoOverrun
<1>1. BarrierInv => NoOverrun
  BY DEF BarrierInv, RestingInv, ActiveInv, NoOverrun
<1>2. QED
  BY <1>1, BarrierInvariant, PTL

\* There is at most one Trigger at a time, and it runs with the layer empty.
THEOREM SingleTrigger == Spec => []TriggerOnce
<1>1. BarrierInv => TriggerOnce
  <2> SUFFICES ASSUME BarrierInv PROVE TriggerOnce
    OBVIOUS
  <2>1. CASE RestingInv
    <3>1. Triggers = 0
      BY <2>1 DEF RestingInv, Triggers
    <3>2. QED
      BY <3>1 DEF TriggerOnce
  <2>2. CASE ActiveInv
    <3>1. Triggers = 1 => Arrived = Senders /\ processed = NumServers
      BY <2>2, ArrivedCount DEF ActiveInv
    <3>2. Triggers = 1 => \A s \in Senders : started[s] /\ pc[s] \notin {"mark", "work"}
      BY <2>2, <3>1 DEF ActiveInv, Arrived
    <3>3. Triggers <= 1 /\ threshold = NumServers
      BY <2>2 DEF ActiveInv, BarrierInv, TypeOK
    <3>4. QED
      BY <3>1, <3>2, <3>3 DEF TriggerOnce
  <2>3. QED
    BY <2>1, <2>2 DEF BarrierInv
<1>2. QED
  BY <1>1, BarrierInvariant, PTL

\* A handler that sleeps in Sync is always woken when its layer comes.
THEOREM WakeupsArrive == Spec => []NoLostWakeup
<1>1. BarrierInv => NoLostWakeup
  BY DEF BarrierInv
<1>2. QED
  BY <1>1, BarrierInvariant, PTL

-----------------------------------------------------------------------------
(* Refinement.                                                               *)

\* Inside a layer the synchronizer does not rest.
LEMMA ActiveNotResting == BarrierInv /\ ActiveInv => layer # Rest(round) /\ Finished = Arrived
<1> SUFFICES ASSUME BarrierInv, ActiveInv PROVE layer # Rest(round) /\ Finished = Arrived
  OBVIOUS
<1>1. round \in 1 .. Rounds
  BY DEF ActiveInv, BarrierInv, TypeOK
<1>2. layer \in LayersOf(round) /\ Rest(round) \notin LayersOf(round)
  BY <1>1, LayerSteps DEF ActiveInv
<1>3. QED
  BY <1>2 DEF Finished

\* A step that touches neither layer, round, metadata nor who works is invisible.
LEMMA InvisibleStep ==
  ASSUME UNCHANGED <<layer, round, msgRound, msgLayer, Working>>
  PROVE  UNCHANGED Barrier!bvars
<1>1. Finished' = Finished
  BY DEF Finished, Arrived, Rest
<1>2. QED
  BY <1>1 DEF Barrier!bvars

\* Every step of the synchronizer is a step of the barrier or leaves it unchanged.
LEMMA StepRefines ==
  ASSUME BarrierInv, BarrierInv', [Next]_vars
  PROVE  [Barrier!BNext]_(Barrier!bvars)
<1> USE DEF syncVars, lockVars, driverVars, senderVars
<1>1. ASSUME NEW s \in Senders, Receive(s) \/ Sync(s) PROVE UNCHANGED Barrier!bvars
  <2>1. Working' = Working
    BY <1>1 DEF Receive, Sync, Working, BarrierInv, TypeOK
  <2>2. QED
    BY <1>1, <2>1, InvisibleStep DEF Receive, Sync
<1>2. ASSUME NEW s \in Senders, Mark(s) PROVE Barrier!Enter(s)
  <2>1. ActiveInv /\ pc[s] = "mark"
    BY <1>2 DEF Mark, BarrierInv, RestingInv
  <2>2. s \notin Arrived /\ ~started[s] /\ s \in DOMAIN started
    BY <2>1 DEF ActiveInv, Arrived, BarrierInv, TypeOK
  <2>3. pc' = [pc EXCEPT ![s] = "work"] /\ UNCHANGED <<layer, round, msgRound, msgLayer>>
    BY <1>2, <2>2 DEF Mark
  <2>4. Working' = Working \cup {s} /\ s \notin Working
    BY <2>1, <2>3 DEF Working, BarrierInv, TypeOK
  <2>5. Arrived' = Arrived
    BY <2>3 DEF Arrived
  <2>6. QED
    BY <2>1, <2>2, <2>3, <2>4, <2>5, ActiveNotResting DEF Barrier!Enter, Barrier!Resting, Barrier!Rest, Finished, Rest
<1>3. ASSUME NEW s \in Senders, Done(s) PROVE Barrier!Leave(s)
  <2>1. ActiveInv /\ pc[s] = "work"
    BY <1>3 DEF Done, BarrierInv, RestingInv, ActiveInv
  <2>2. layer # Rest(round) /\ Finished = Arrived
    BY <2>1, ActiveNotResting
  <2>3. UNCHANGED <<layer, round>> /\ Finished' = Arrived'
    <3>1. UNCHANGED <<layer, round>>
      BY <1>3 DEF Done
    <3>2. QED
      BY <2>2, <3>1 DEF Finished, Rest
  <2>4. pc' = [pc EXCEPT ![s] = "idle"] /\ NextMessage(s)
    <3>1. pc'[s] # "panic"
      BY Zenon DEF BarrierInv, RestingInv, ActiveInv
    <3>2. QED
      BY <1>3, <3>1 DEF Done, BarrierInv, TypeOK
  <2>5. Working' = Working \ {s} /\ s \in Working
    BY <2>1, <2>4 DEF Working, BarrierInv, TypeOK
  <2>6. Arrived' = Arrived \cup {s}
    <3>1. msgRound[s] = round /\ msgLayer[s] = layer /\ Direction \in {1, -1} /\ layer \in Int /\ round \in Int
      <4>1. msgRound[s] = round /\ msgLayer[s] = layer
        BY <2>1, Zenon DEF ActiveInv
      <4>2. QED
        BY <4>1, PlanAssumption DEF BarrierInv, TypeOK
    <3>2. /\ \A t \in Senders \ {s} : msgRound'[t] = msgRound[t] /\ msgLayer'[t] = msgLayer[t]
          /\ msgRound'[s] = round + 1 \/ msgLayer'[s] = layer + Direction
      BY <2>4, <3>1 DEF NextMessage, BarrierInv, TypeOK
    <3>3. QED
      BY <2>3, <3>1, <3>2 DEF Arrived
  <2>7. QED
    BY <2>2, <2>3, <2>5, <2>6 DEF Barrier!Leave
<1>4. CASE TriggerBegin \/ DriverBegin \/ TakeLock \/ Callback
  BY <1>4, InvisibleStep DEF TriggerBegin, DriverBegin, TakeLock, Callback, Working
<1>5. CASE Commit /\ ActiveInv
  <2>1. owner = "trigger" /\ stage = 4
    BY <1>5 DEF Commit, ActiveInv, BarrierInv, Resetting, TypeOK
  <2>2. Arrived = Senders /\ round' = round /\ layer' = layer + Direction /\ UNCHANGED <<msgRound, msgLayer>>
    BY <1>5, <2>1, ArrivedCount DEF Commit, ActiveInv, Triggers, Resetting, BarrierInv, TypeOK
  <2>3. Working' = Working
    BY <1>5 DEF Commit, Broadcast, Working
  <2>4. Finished' = {}
    <3>1. CASE RestingInv'
      BY <3>1 DEF RestingInv, Finished
    <3>2. CASE ActiveInv'
      <4>1. Cardinality(Arrived') = 0
        BY <1>5, <3>2 DEF ActiveInv, Commit, ClearCount
      <4>2. IsFiniteSet(Arrived')
        BY ArrivedCount, SendersFinite, FS_Subset DEF Arrived
      <4>3. Arrived' = {}
        BY <4>1, <4>2, FS_EmptySet
      <4>4. QED
        BY <4>3 DEF Finished
    <3>3. QED
      BY <3>1, <3>2 DEF BarrierInv
  <2>5. Barrier!Advance
    BY <1>5, <2>2, <2>3, <2>4, ActiveNotResting DEF Barrier!Advance, Barrier!Resting, Barrier!Rest, Barrier!Senders, Senders, Rest
  <2>6. QED
    BY <2>5 DEF Barrier!BNext
<1>6. CASE Commit /\ RestingInv
  <2>1. owner = "driver" /\ round < Rounds /\ round \in Nat
    BY <1>6 DEF Commit, RestingInv, BarrierInv, TypeOK
  <2>2. round' = round + 1 /\ ActiveInv'
    <3>1. round' = round + 1
      BY <1>6, <2>1 DEF Commit
    <3>2. ~RestingInv'
      <4>1. msgRound' = msgRound /\ 0 \in Senders
        BY <1>6, PlanAssumption DEF Commit, Senders
      <4>2. msgRound[0] = round + 1 /\ msgRound[0] # round' + 1
        BY <1>6, <2>1, <3>1, <4>1 DEF RestingInv, AtNextRound
      <4>3. QED
        BY <4>1, <4>2 DEF RestingInv, AtNextRound
    <3>3. QED
      BY <3>1, <3>2 DEF BarrierInv
  <2>3. Working' = Working
    BY <1>6 DEF Commit, Broadcast, Working
  <2>4. Finished = {} /\ Finished' = {}
    <3>1. Finished = {}
      BY <1>6 DEF RestingInv, Finished
    <3>2. Cardinality(Arrived') = 0
      BY <1>6, <2>2 DEF ActiveInv, Commit, ClearCount
    <3>3. IsFiniteSet(Arrived')
      BY SendersFinite, FS_Subset DEF Arrived
    <3>4. Arrived' = {}
      BY <3>2, <3>3, FS_EmptySet
    <3>5. QED
      BY <3>1, <3>4 DEF Finished
  <2>5. layer' = First[round']
    <3>1. CASE ResetOpens
      BY <1>6, <2>1, <2>2, <3>1 DEF Commit, Resetting
    <3>2. CASE ~ResetOpens
      <4>1. round = 0 /\ First[1] = Rest(0) + Direction
        BY <2>1, <3>2, PlanAssumption
      <4>2. QED
        BY <1>6, <2>2, <3>2, <4>1 DEF Commit, Resetting, RestingInv
    <3>3. QED
      BY <3>1, <3>2
  <2>6. Barrier!Open
    BY <1>6, <2>1, <2>2, <2>3, <2>4, <2>5 DEF Barrier!Open, Barrier!Resting, Barrier!Rest, Rest, RestingInv
  <2>7. QED
    BY <2>6 DEF Barrier!BNext
<1>7. CASE UNCHANGED vars
  BY <1>7, InvisibleStep DEF vars, Working
<1>8. ASSUME NEW s \in Senders, SenderStep(s) PROVE [Barrier!BNext]_(Barrier!bvars)
  <2>1. s \in Barrier!Senders
    BY DEF Senders, Barrier!Senders
  <2>2. QED
    BY <1>1, <1>2, <1>3, <1>8, <2>1 DEF SenderStep, Barrier!BNext
<1>9. QED
  BY <1>4, <1>5, <1>6, <1>7, <1>8 DEF Next, Terminated, BarrierInv

\* The synchronizer, locks and condition variable included, implements the barrier.
THEOREM Refinement == Spec => ImplementsBarrier
<1>1. Init => Barrier!BInit
  BY DEF Init, Barrier!BInit, Barrier!Rest, Working, Finished, Rest
<1>2. BarrierInv /\ BarrierInv' /\ [Next]_vars => [Barrier!BNext]_(Barrier!bvars)
  BY StepRefines
<1>3. QED
  BY <1>1, <1>2, BarrierInvariant, PTL DEF Spec, ImplementsBarrier, Barrier!BSpec

=============================================================================
