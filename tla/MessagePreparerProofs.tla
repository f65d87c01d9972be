----------------------- MODULE MessagePreparerProofs ------------------------
(***************************************************************************)
(* Proofs about MessagePreparer for any number of clients, layers and      *)
(* concurrent requests.                                                    *)
(***************************************************************************)
EXTENDS MessagePreparer, TLAPS

Inv == TypeOK /\ RecordsAgree /\ LocksOfErrors

\* The initial state satisfies the inductive invariant.
LEMMA InitInv == Init => Inv
<1> SUFFICES ASSUME Init PROVE Inv OBVIOUS
<1> USE LayersAssumption, NilAssumption DEF Init
<1>1. TypeOK
  <2>1. Idle \in [pc : Pcs, client : Clients \cup {Nil}, layer : Layers]
    BY DEF Idle, Pcs, Layers
  <2>2. -1 \in -1 .. NumLayers /\ 0 \in Nat OBVIOUS
  <2> QED BY <2>1, <2>2, ZenonT(40) DEF TypeOK
<1>2. GrantsRecorded BY DEF GrantsRecorded
<1>3. RequestsKnown BY DEF RequestsKnown, Idle
<1>4. LocksOfErrors BY DEF LocksOfErrors
<1> QED BY <1>1, <1>2, <1>3, <1>4 DEF Inv, RecordsAgree

\* Steps that only move a request along: the stores and the locks stay.
LEMMA MoveInv ==
    ASSUME Inv, NEW r \in Rpcs, NEW q \in [pc : Pcs, client : Clients \cup {Nil}, layer : Layers],
           rpc' = [rpc EXCEPT ![r] = q],
           q.pc \in Pcs \ {"idle", "monitor"} => q.client \in Clients,
           q.pc \in {"found", "signed", "checked"} => q.client \in registered,
           q.pc \in {"found", "signed"} => q.layer \in Signable,
           rpc[r].pc # "error",
           UNCHANGED <<store, locks, logLocked, panicked, running, grants>>
    PROVE  Inv'
<1> USE DEF Inv, store, locks, grants
<1>1. TypeOK' BY DEF TypeOK
<1>2. RecordsAgree' BY DEF RecordsAgree, GrantsRecorded, RequestsKnown, TypeOK
<1>3. LocksOfErrors' BY NilAssumption DEF LocksOfErrors, TypeOK
<1> QED BY <1>1, <1>2, <1>3

\* Every step of a request preserves the invariant.
LEMMA NextInv == Inv /\ [Next]_vars => Inv'
<1> SUFFICES ASSUME Inv, [Next]_vars PROVE Inv' OBVIOUS
<1> USE LayersAssumption, NilAssumption
<1>t. TypeOK /\ RecordsAgree /\ LocksOfErrors BY DEF Inv
<1>1. CASE UNCHANGED vars
  BY <1>1, <1>t DEF Inv, TypeOK, RecordsAgree, GrantsRecorded, RequestsKnown, LocksOfErrors, vars, store, locks, grants,
     Signable, Layers
<1>2. ASSUME NEW r \in Rpcs, Call(r) \/ CallMonitor(r) \/ Step(r) PROVE Inv'
  <2> rpc[r] \in [pc : Pcs, client : Clients \cup {Nil}, layer : Layers]
    BY <1>t DEF TypeOK
  <2> Signable \subseteq Layers BY DEF Signable, Layers
  <2>1. CASE Call(r)
    <3>1. PICK op \in {"register", "token", "submit"}, c \in Clients, l \in Layers :
            rpc' = [rpc EXCEPT ![r] = [pc |-> op, client |-> c, layer |-> l]]
      BY <2>1, ZenonT(40) DEF Call
    <3> QED BY <2>1, <3>1, MoveInv, ZenonT(40) DEF Call, At, Pcs
  <2>2. CASE CallMonitor(r)
    <3> DEFINE q == [rpc[r] EXCEPT !.pc = "monitor"]
    <3>1. rpc' = [rpc EXCEPT ![r] = q] BY <2>2, <1>t DEF CallMonitor, Goto, TypeOK
    <3>2. q \in [pc : Pcs, client : Clients \cup {Nil}, layer : Layers] BY DEF Pcs
    <3> QED BY <2>2, <3>1, <3>2, MoveInv, ZenonT(40) DEF CallMonitor, At, Pcs
  <2>3. CASE Refuse(r)
    <3> DEFINE q == [rpc[r] EXCEPT !.pc = "error"]
    <3>1. rpc' = [rpc EXCEPT ![r] = q] BY <2>3, <1>t DEF Refuse, Goto, TypeOK
    <3>2. q \in [pc : Pcs, client : Clients \cup {Nil}, layer : Layers] BY DEF Pcs
    <3> QED BY <2>3, <3>1, <3>2, <1>t, MoveInv, ZenonT(40) DEF Refuse, Pcs, RecordsAgree, RequestsKnown
  <2>4. CASE WrongServer(r)
    <3> DEFINE q == [rpc[r] EXCEPT !.pc = "fatal"]
    <3>1. rpc' = [rpc EXCEPT ![r] = q] BY <2>4, <1>t DEF WrongServer, Goto, TypeOK
    <3>2. q \in [pc : Pcs, client : Clients \cup {Nil}, layer : Layers] BY DEF Pcs
    <3> QED BY <2>4, <3>1, <3>2, <1>t, MoveInv, ZenonT(40) DEF WrongServer, Pcs, RecordsAgree, RequestsKnown
  <2>5. CASE Lookup(r)
    <3> PICK p \in {"error", "found", "checked"} :
          /\ rpc' = [rpc EXCEPT ![r].pc = p]
          /\ p # "error" => rpc[r].client \in registered
          /\ p = "found" => rpc[r].layer \in Signable
          /\ rpc[r].pc \in {"token", "submit"}
      <4>1. rpc[r].pc \in {"token", "submit"} BY <2>5 DEF Lookup, At
      <4>2. CASE rpc[r].client \notin registered
        BY <2>5, <4>1, <4>2 DEF Lookup, Goto
      <4>3. CASE rpc[r].client \in registered /\ rpc[r].pc = "token"
        BY <2>5, <4>3, ZenonT(40) DEF Lookup, Goto, InRange, At
      <4>4. CASE rpc[r].client \in registered /\ rpc[r].pc = "submit"
        BY <2>5, <4>4, ZenonT(40) DEF Lookup, Goto, At
      <4> QED BY <4>1, <4>2, <4>3, <4>4
    <3> DEFINE q == [rpc[r] EXCEPT !.pc = p]
    <3>1. rpc' = [rpc EXCEPT ![r] = q] BY <1>t DEF TypeOK
    <3>2. q \in [pc : Pcs, client : Clients \cup {Nil}, layer : Layers] BY DEF Pcs
    <3> QED BY <2>5, <3>1, <3>2, <1>t, MoveInv, ZenonT(40) DEF Lookup, Pcs, RecordsAgree, RequestsKnown
  <2>6. CASE BlindSign(r)
    <3> DEFINE q == [rpc[r] EXCEPT !.pc = "signed"]
    <3>1. rpc' = [rpc EXCEPT ![r] = q] BY <2>6, <1>t DEF BlindSign, Goto, TypeOK
    <3>2. q \in [pc : Pcs, client : Clients \cup {Nil}, layer : Layers] BY DEF Pcs
    <3> QED BY <2>6, <3>1, <3>2, <1>t, MoveInv, ZenonT(40) DEF BlindSign, At, Pcs, RecordsAgree, RequestsKnown
  <2>7. CASE RegisterClient(r)
    <3> DEFINE c == rpc[r].client
    <3>0. c \in Clients /\ rpc[r].pc = "register"
      BY <2>7, <1>t DEF RegisterClient, At, RecordsAgree, RequestsKnown, Pcs
    <3>1. TypeOK'
      BY <2>7, <3>0, <1>t, SMTT(60) DEF RegisterClient, TypeOK, Goto, Return, Idle, Pcs, Layers, grants, store
    <3>2. RecordsAgree'
      <4>1. CASE (c \in registered)
        BY <2>7, <3>0, <4>1, <1>t, SMTT(60)
           DEF RegisterClient, TypeOK, RecordsAgree, GrantsRecorded, RequestsKnown, Goto, Pcs, grants, store
      <4>2. CASE ~(c \in registered)
        <5>1. GrantsRecorded'
          BY <2>7, <3>0, <4>2, <1>t, SMTT(60)
             DEF RegisterClient, TypeOK, RecordsAgree, GrantsRecorded, Signable, grants, store
        <5>2. RequestsKnown'
          BY <2>7, <3>0, <4>2, <1>t
             DEF RegisterClient, TypeOK, RecordsAgree, RequestsKnown, Return, Idle, Pcs, store
        <5> QED BY <5>1, <5>2 DEF RecordsAgree
      <4> QED BY <4>1, <4>2
    <3>3. LocksOfErrors'
      BY <2>7, <3>0, <1>t DEF RegisterClient, TypeOK, LocksOfErrors, Goto, Return, Idle
    <3> QED BY <3>1, <3>2, <3>3 DEF Inv
  <2>8. CASE MarkSigned(r)
    <3> DEFINE c == rpc[r].client
    <3>0. c \in registered /\ c \in Clients /\ rpc[r].layer \in Signable
      BY <2>8, <1>t DEF MarkSigned, At, RecordsAgree, RequestsKnown, Pcs
    <3>1. TypeOK'
      <4>1. CASE AlreadySigned(r)
        BY <2>8, <3>0, <4>1, <1>t, SMTT(60) DEF MarkSigned, TypeOK, Goto, Pcs
      <4>2. CASE ~AlreadySigned(r)
        <5> USE <2>8, <3>0, <4>2, <1>t
        <5>0. rpc[r].layer \in -1 .. NumLayers BY DEF Signable
        <5>1. signed' \in [Clients -> -1 .. NumLayers] BY <5>0 DEF MarkSigned, TypeOK
        <5>2. returned' \in [Clients -> [Signable -> Nat]] BY DEF MarkSigned, TypeOK
        <5>3. rpc' \in [Rpcs -> [pc : Pcs, client : Clients \cup {Nil}, layer : Layers]]
          BY SMTT(60) DEF MarkSigned, TypeOK, Return, Idle, Pcs, Layers
        <5> QED BY <5>1, <5>2, <5>3 DEF MarkSigned, TypeOK
      <4> QED BY <4>1, <4>2
    <3>2. RecordsAgree'
      <4>1. CASE AlreadySigned(r)
        BY <2>8, <3>0, <4>1, <1>t, SMTT(60)
           DEF MarkSigned, AlreadySigned, TypeOK, RecordsAgree, GrantsRecorded, RequestsKnown, Goto, Pcs, grants, store
      <4>2. CASE ~AlreadySigned(r)
        <5>1. GrantsRecorded'
          <6> DEFINE l == rpc[r].layer
          <6>1. /\ signed' = [signed EXCEPT ![c] = l]
                /\ returned' = [returned EXCEPT ![c][l] = @ + 1]
                /\ UNCHANGED <<registered, submitted, accepted>>
            BY <2>8, <4>2 DEF MarkSigned
          <6>2. l > signed[c] /\ l \in Int /\ signed[c] \in Int
            BY <3>0, <4>2, <1>t DEF AlreadySigned, TypeOK, Signable
          <6>3. returned[c][l] = 0
            BY <3>0, <6>2, <1>t DEF RecordsAgree, GrantsRecorded, Signable
          <6>4. ASSUME NEW k \in Signable
                PROVE  returned'[c][k] \in {0, 1} /\ (returned'[c][k] = 1 => k <= signed'[c])
            BY <3>0, <6>1, <6>2, <6>3, <1>t, SMTT(60) DEF TypeOK, RecordsAgree, GrantsRecorded, Signable
          <6>5. ASSUME NEW d \in Clients, d # c
                PROVE  returned'[d] = returned[d] /\ signed'[d] = signed[d]
            BY <6>1, <6>5, <1>t DEF TypeOK
          <6>6. ASSUME NEW d \in Clients
                PROVE  \A k \in Signable : /\ returned'[d][k] \in {0, 1}
                                           /\ returned'[d][k] = 1 => k <= signed'[d]
            <7>1. CASE d = c
              BY <6>4, <7>1, Zenon
            <7>2. CASE d # c
              BY <6>5, <7>2, <1>t, Zenon DEF RecordsAgree, GrantsRecorded
            <7> QED BY <7>1, <7>2
          <6>7. ASSUME NEW d \in Clients
                PROVE  /\ accepted'[d] = IF d \in submitted' THEN 1 ELSE 0
                       /\ d \notin registered' => signed'[d] = -1 /\ d \notin submitted'
            <7>1. d \notin registered => d # c
              BY <3>0, Zenon
            <7> QED BY <6>1, <6>5, <7>1, <1>t, Zenon DEF RecordsAgree, GrantsRecorded
          <6> QED BY <6>6, <6>7, Zenon DEF GrantsRecorded
        <5>2. RequestsKnown'
          BY <2>8, <3>0, <4>2, <1>t, SMTT(60)
             DEF MarkSigned, TypeOK, RecordsAgree, RequestsKnown, Return, Idle, Pcs, store
        <5> QED BY <5>1, <5>2 DEF RecordsAgree
      <4> QED BY <4>1, <4>2
    <3>3. LocksOfErrors'
      BY <2>8, <1>t, SMTT(60) DEF MarkSigned, TypeOK, LocksOfErrors, Goto, Return, Idle, At
    <3> QED BY <3>1, <3>2, <3>3 DEF Inv
  <2>9. CASE MarkSubmitted(r)
    <3>0. rpc[r].client \in registered /\ rpc[r].client \in Clients
      BY <2>9, <1>t DEF MarkSubmitted, At, RecordsAgree, RequestsKnown, Pcs
    <3>1. TypeOK'
      <4>1. CASE (rpc[r].client \in submitted)
        BY <2>9, <3>0, <4>1, <1>t DEF MarkSubmitted, TypeOK, Goto, Pcs
      <4>2. CASE ~(rpc[r].client \in submitted)
        <5> USE <2>9, <3>0, <4>2, <1>t
        <5>1. accepted' \in [Clients -> Nat] BY DEF MarkSubmitted, TypeOK
        <5>2. rpc' \in [Rpcs -> [pc : Pcs, client : Clients \cup {Nil}, layer : Layers]]
          BY DEF MarkSubmitted, TypeOK, Return, Idle, Pcs, Layers
        <5> QED BY <5>1, <5>2 DEF MarkSubmitted, TypeOK
      <4> QED BY <4>1, <4>2
    <3>2. RecordsAgree'
      <4>1. CASE (rpc[r].client \in submitted)
        BY <2>9, <3>0, <4>1, <1>t, SMTT(60)
           DEF MarkSubmitted, TypeOK, RecordsAgree, GrantsRecorded, RequestsKnown, Goto, Pcs, grants, store
      <4>2. CASE ~(rpc[r].client \in submitted)
        <5>1. GrantsRecorded'
          BY <2>9, <3>0, <4>2, <1>t, SMTT(60)
             DEF MarkSubmitted, TypeOK, RecordsAgree, GrantsRecorded, Signable, grants, store
        <5>2. RequestsKnown'
          BY <2>9, <3>0, <4>2, <1>t, SMTT(60)
             DEF MarkSubmitted, TypeOK, RecordsAgree, RequestsKnown, Return, Idle, Pcs, store
        <5> QED BY <5>1, <5>2 DEF RecordsAgree
      <4> QED BY <4>1, <4>2
    <3>3. LocksOfErrors'
      BY <2>9, <1>t DEF MarkSubmitted, TypeOK, LocksOfErrors, Goto, Return, Idle, At
    <3> QED BY <3>1, <3>2, <3>3 DEF Inv
  <2>10. CASE LogError(r)
    <3>1. TypeOK'
      BY <2>10, <1>t, SMTT(60) DEF LogError, Release, TypeOK, Return, Idle, Pcs, Layers, grants, store
    <3>2. RecordsAgree'
      BY <2>10, <1>t DEF LogError, TypeOK, RecordsAgree, GrantsRecorded, RequestsKnown, Return, Idle, Pcs, Signable, grants, store
    <3>3. LocksOfErrors'
      BY <2>10, <1>t DEF LogError, Release, TypeOK, LocksOfErrors, Return, Idle
    <3> QED BY <3>1, <3>2, <3>3 DEF Inv
  <2>11. CASE MonitorMemory(r)
    <3>1. TypeOK'
      BY <2>11, <1>t, SMTT(60) DEF MonitorMemory, TypeOK, Return, Idle, Pcs, Layers, grants, store, locks
    <3>2. RecordsAgree'
      BY <2>11, <1>t, SMTT(60) DEF MonitorMemory, TypeOK, RecordsAgree, GrantsRecorded, RequestsKnown, Return, Idle, Pcs, Signable, grants, store
    <3>3. LocksOfErrors'
      BY <2>11, <1>t DEF MonitorMemory, At, TypeOK, LocksOfErrors, Return, Idle, locks
    <3> QED BY <3>1, <3>2, <3>3 DEF Inv
  <2> QED BY <1>2, <2>1, <2>2, <2>3, <2>4, <2>5, <2>6, <2>7, <2>8, <2>9, <2>10, <2>11 DEF Step
<1> QED BY <1>1, <1>2 DEF Next

\* The server's record of a client always covers what it has handed out.
THEOREM RecordsInvariant == Spec => [](TypeOK /\ RecordsAgree /\ LocksOfErrors)
<1>1. Inv => TypeOK /\ RecordsAgree /\ LocksOfErrors BY DEF Inv
<1> QED BY InitInv, NextInv, <1>1, PTL DEF Spec

\* No client gets two token signatures for a layer or two submissions, however its
\* requests interleave.
THEOREM NoDoubleSignature == Spec => []SignedOnce
<1>1. ASSUME Inv PROVE SignedOnce
  <2>1. ASSUME NEW c \in Clients PROVE accepted[c] <= 1
    BY <1>1 DEF Inv, RecordsAgree, GrantsRecorded
  <2>2. ASSUME NEW c \in Clients, NEW l \in Signable PROVE returned[c][l] <= 1
    BY <1>1 DEF Inv, RecordsAgree, GrantsRecorded
  <2> QED BY <2>1, <2>2 DEF SignedOnce
<1> QED BY InitInv, NextInv, <1>1, PTL DEF Spec

\* mapLock and markLock are only left taken by calls that wait in LogError.
THEOREM LocksReleased == Spec => []LocksOfErrors
<1>1. Inv => LocksOfErrors BY DEF Inv
<1> QED BY InitInv, NextInv, <1>1, PTL DEF Spec

\* Signatures of a client are granted in increasing order of the layers.
THEOREM SignaturesInOrder == Spec => LayersInOrder
<1> DEFINE A == \A c \in Clients, l \in Signable :
                   returned'[c][l] > returned[c][l] =>
                      \A k \in Signable : k > l => returned[c][k] = 0
<1>1. Inv /\ [Next]_vars => [A]_vars
  <2> SUFFICES ASSUME Inv, [Next]_vars, ~UNCHANGED vars, NEW c \in Clients, NEW l \in Signable,
                      returned'[c][l] > returned[c][l],
                      NEW k \in Signable, k > l
               PROVE  returned[c][k] = 0
    OBVIOUS
  <2>0. returned[c][l] \in Nat BY DEF Inv, TypeOK
  <2>1. PICK r \in Rpcs : Call(r) \/ CallMonitor(r) \/ Step(r)
    BY SMTT(60) DEF Next
  <2>2. MarkSigned(r)
    <3>1. returned' # returned
      BY <2>0, SMTT(60)
    <3>2. Step(r)
      BY <2>1, <3>1, Zenon DEF Call, CallMonitor, grants
    <3> QED BY <3>1, <3>2, Zenon DEF Step, Refuse, WrongServer, Lookup, BlindSign,
       RegisterClient, MarkSubmitted, LogError, MonitorMemory, grants
  <2>3. ~AlreadySigned(r) /\ rpc[r].client = c /\ rpc[r].layer = l
    BY <2>0, <2>2, SMTT(60) DEF MarkSigned, Inv, TypeOK
  <2>4. l > signed[c] BY <2>3, LayersAssumption DEF AlreadySigned, Inv, TypeOK, Signable
  <2> QED BY <2>4, LayersAssumption, SMTT(60) DEF Inv, TypeOK, RecordsAgree, GrantsRecorded, Signable
<1> QED BY InitInv, NextInv, <1>1, PTL DEF Spec, LayersInOrder
=============================================================================
