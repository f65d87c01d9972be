---------------------------- MODULE ServerState ----------------------------
(***************************************************************************)
(* What the operations of a Trellis server do to its state, without the    *)
(* order in which goroutines run them: the synchronizer's fields, onion,   *)
(* path and boomerang processing, checkpoints, the allocation of a layer   *)
(* and the batches a server sends.  Each operator takes the record of one  *)
(* server (or group member, or synchronizer) and returns the new record.   *)
(*                                                                         *)
(* A message is named by its client.  Keys, tokens and ciphertexts appear  *)
(* only through what the code decides with them: which key is known, which *)
(* is used, and where a key says its message goes.                         *)
(***************************************************************************)
EXTENDS Integers, FiniteSets, Sequences

CONSTANTS
    NumServers, NumLayers, Clients,
    Route,           \* Route[c][l]: the server of client c's path at layer l
    Exit,            \* Exit[c]: the group that gets the final message of c
    Members,         \* Members[g]: the servers of anytrust group g
    SendOrder,       \* SendOrder[s]: GetJobs, the order in which s sends
    GroupSends,      \* GroupSends[s]: the pairs of a server and one of its ReverseGroups, as s
                     \* goes through them
    BoomerangLimit,  \* how many layers a receipt travels back
    BroadcastRounds, \* number of broadcast rounds after path establishment
    BinSize,         \* capacity of the buffer of one outgoing link
    LinkCapacity,    \* batches a connection holds before its writer blocks
    Nil

Servers == 0 .. NumServers - 1
Layers == 0 .. NumLayers - 1
Groups == DOMAIN Members
GroupsOf(s) == {g \in Groups : s \in Members[g]}
LastLayer == NumLayers - 1
LastRound == NumLayers + BroadcastRounds - 1

Blocked == -2

IsPath(r) == r < NumLayers
ReceiptLayer(r) == IF r > BoomerangLimit THEN r - BoomerangLimit ELSE 0

\* A loop in the order of q visits each element of S once.
GoesThrough(q, S) ==
    /\ q \in Seq(S) /\ \A x \in S : \E i \in DOMAIN q : q[i] = x
    /\ \A i, j \in DOMAIN q : q[i] = q[j] => i = j

\* SetGroups sizes ReverseGroups by the highest id that is in a group, and the senders
\* index it with every server: the last server has to be in a group.
ASSUME ConfigAssumption ==
    /\ NumServers \in Nat \ {0} /\ NumLayers \in Nat \ {0, 1}
    /\ BoomerangLimit \in Nat \ {0} /\ BroadcastRounds \in Nat
    /\ BinSize \in Nat /\ LinkCapacity \in Nat \ {0}
    /\ Route \in [Clients -> [Layers -> Servers]]
    /\ Exit \in [Clients -> Groups]
    /\ \A g \in Groups : Members[g] \in SUBSET Servers /\ Members[g] # {}
    /\ \E g \in Groups : NumServers - 1 \in Members[g]
    /\ \A s \in Servers :
          /\ GoesThrough(SendOrder[s], Servers)
          /\ GoesThrough(GroupSends[s], {p \in Servers \X Groups : p[1] \in Members[p[2]]})
          /\ \A i, j \in DOMAIN SendOrder[s] : \A k, n \in DOMAIN GroupSends[s] :
                (GroupSends[s][k][1] = SendOrder[s][i] /\ GroupSends[s][n][1] = SendOrder[s][j] /\ i < j)
                    => k < n
    /\ Nil \notin Groups /\ Nil \notin [Servers -> SUBSET Clients]

-----------------------------------------------------------------------------
(* Synchronizer operations.                                                  *)

\* trig: the Trigger goroutine is "none", "spawned", "locked" (it has the locks and
\* calls OnThreshold) or "called" (OnThreshold returned, next is not yet assigned).
NewSynchronizer(l) ==
    [layer |-> l, started |-> {}, processed |-> 0, trig |-> "none", next |-> l]

\* Reset keeps a Trigger goroutine that waits for countLock.
Reset(y, l) == [NewSynchronizer(l) EXCEPT !.trig = y.trig]

Unlocked(y) == y.trig \in {"none", "spawned"}
InLayer(y, l) == Unlocked(y) /\ y.layer = l

Spawn(y) == [y EXCEPT !.trig = "spawned"]
Lock(y) == [y EXCEPT !.trig = "locked"]
Called(y, n) == [y EXCEPT !.trig = "called", !.next = n]
\* Slip: the count of the finished layer is kept.
CommitKeepsCount(y) == [NewSynchronizer(y.next) EXCEPT !.processed = y.processed]

Commit(y) == NewSynchronizer(y.next)

SyncOnce(y, s) == [y EXCEPT !.started = @ \cup {s}]

\* Slip: the last batch is not waited for.
DoneEarly(y) == [y EXCEPT !.processed = @ + 1,
                          !.trig = IF y.processed + 1 = NumServers - 1 THEN "spawned" ELSE @]

Done(y) == [y EXCEPT !.processed = @ + 1,
                     !.trig = IF y.processed + 1 = NumServers THEN "spawned" ELSE @]

-----------------------------------------------------------------------------
(* Message processing: what one worker does to the state of its server.      *)

Fail(r, why) == [r EXCEPT !.fail = @ \cup {why}]

NoBuffers == [d \in Servers |-> {}]

\* MemReadWriter.Write fails on a full bin.
AuthenticatedOnionPack(r, l, c, d) ==
    IF r.routers[l] = Nil THEN Fail(r, "no router")
    ELSE IF Cardinality(r.routers[l][d]) >= BinSize THEN Fail(r, "LinkOverflow")
    ELSE [r EXCEPT !.routers[l][d] = @ \cup {c}]

\* The buffers for the groups hold GroupBinSize messages.
GroupWrite(r, field, g, c) ==
    IF Cardinality(r[field][g]) >= BinSize * NumServers THEN Fail(r, "LinkOverflow")
    ELSE [r EXCEPT ![field][g] = @ \cup {c}]

KeyOf(r, l, c) == CHOOSE k \in r.keys[l] : k.client = c

\* A client signs and encrypts an envelope for one round and layer, `at'; a server that
\* is elsewhere when a worker opens it cannot verify it.
Opens(r, at) == at = <<r.round, r.layer>>

\* Look the key up, check the signature, mark the key used and count it.
AuthenticatedOnionParse(r, l, c, at) ==
    IF r.parsers[l] = Nil THEN Fail(r, "no parser")
    ELSE IF ~\E k \in r.keys[l] : k.client = c THEN Fail(r, "KeyNotFound")
    ELSE IF ~Opens(r, at) THEN Fail(r, "DecryptionFailure")
    ELSE IF c \in r.used[l] THEN Fail(r, "Duplicate")
    ELSE [r EXCEPT !.used[l] = @ \cup {c}, !.parsers[l] = @ + 1]

AllKeysAccountedFor(r, l) == r.parsers[l] = Cardinality(r.keys[l])

\* Slip: the keys stay marked for the next round.
ResetUsageForgotten(r, l) == r

ResetUsage(r, l) == [r EXCEPT !.used[l] = {}]

\* Broadcast envelopes: on to the next server, or to the trustees.
handleLightningMessage(r, c, at) ==
    LET l == r.layer
        p == AuthenticatedOnionParse(r, l, c, at)
    IN  IF p.fail # {} THEN p
        ELSE IF l # LastLayer THEN AuthenticatedOnionPack(p, l, c, KeyOf(p, l, c).next)
        ELSE GroupWrite(p, "final", KeyOf(p, l, c).next, c)

\* Slip: prev and next are swapped.
AddKeySwapped(r, l, c, prev, next) ==
    [r EXCEPT !.keys[l] = @ \cup {[client |-> c, prev |-> next, next |-> prev]}]

AddKey(r, l, c, prev, next) ==
    [r EXCEPT !.keys[l] = @ \cup {[client |-> c, prev |-> prev, next |-> next]},
              !.used[l] = @ \ {c}]

\* Check the tokens (they name the sender and this server), record the key, and
\* keep the inner envelope for the next round or for the anytrust group.
ParseRecordAndGetNext(r, s, src, l, c, at) ==
    LET next == IF l = LastLayer THEN Exit[c] ELSE Route[c][l + 1]
        k == AddKey(r, l, c, src, next)
    IN  IF r.paths[l] = Nil THEN Fail(r, "no path parser")
        ELSE IF l > 0 /\ src # Route[c][l - 1] THEN Fail(r, "TokenInvalid")
        ELSE IF s # Route[c][l] THEN Fail(r, "WrongServer")
        ELSE IF ~Opens(r, at) THEN Fail(r, "DecryptionFailure")
        ELSE IF l = LastLayer THEN GroupWrite(k, "tokens", next, c)
        ELSE IF Cardinality(r.paths[l][next]) >= BinSize THEN Fail(k, "LinkOverflow")
        ELSE [k EXCEPT !.paths[l][next] = @ \cup {c}]

\* In the last layer the receipt goes through the group first: see PackDecrypted.
handlePathMessage(r, s, src, c, at) ==
    LET l == r.layer
        p == ParseRecordAndGetNext(r, s, src, l, c, at)
    IN  IF p.fail # {} THEN p
        ELSE IF l = 0 THEN [p EXCEPT !.receipts = @ \cup {c}]
        ELSE IF l # LastLayer THEN AuthenticatedOnionPack(p, l, c, src)
        ELSE p

\* Slip: the receipt layer is ignored.
HandleBoomerangMessageToClient(r, c, at) ==
    LET l == r.layer
        p == AuthenticatedOnionParse(r, l, c, at)
    IN  IF p.fail # {} THEN p
        ELSE IF l > 0 THEN AuthenticatedOnionPack(p, l, c, KeyOf(p, l, c).prev)
        ELSE [p EXCEPT !.receipts = @ \cup {c}]

\* A boomerang stops at the receipt layer.
HandleBoomerangMessage(r, c, at) ==
    LET l == r.layer
        p == AuthenticatedOnionParse(r, l, c, at)
    IN  IF p.fail # {} THEN p
        ELSE IF l > r.receiptLayer THEN AuthenticatedOnionPack(p, l, c, KeyOf(p, l, c).prev)
        ELSE IF l \in {0, r.receiptLayer} THEN [p EXCEPT !.receipts = @ \cup {c}]
        ELSE p

\* Slip: the key is answered but not added.
HandleCheckpointMessageUnrecorded(m, c) == m

\* Add the anonymous key; the answer is sent when the batch is done.
HandleCheckpointMessage(m, c) == [m EXCEPT !.keys = @ \cup {c}, !.marked = @ \ {c}]

\* Slip: the message is marked but not kept.
HandleTrusteeMessageLost(m, c) == [m EXCEPT !.marked = @ \cup {c}, !.count = @ + 1]

\* GetAndMark, then keep the message.
HandleTrusteeMessage(m, c) ==
    IF c \notin m.keys THEN Fail(m, "KeyNotFound")
    ELSE IF c \in m.marked THEN Fail(m, "Duplicate")
    ELSE [m EXCEPT !.marked = @ \cup {c}, !.count = @ + 1, !.final = @ \cup {c}]

ResetSignatureMarking(m) == [m EXCEPT !.marked = {}, !.count = 0]

AllSignaturesAccountedFor(m) == m.count = Cardinality(m.keys)

-----------------------------------------------------------------------------
(* Round setup and layer changes: operators on the state of one server.      *)

NoGroupBuffers == [g \in Groups |-> {}]

NewServer ==
    [round |-> 0, layer |-> 0, path |-> FALSE, pathLayer |-> 0, receiptLayer |-> 0, complete |-> FALSE,
     started |-> FALSE, fail |-> {}, receipts |-> {},
     keys |-> [l \in Layers |-> {}], used |-> [l \in Layers |-> {}],
     parsers |-> [l \in Layers |-> Nil], routers |-> [l \in Layers |-> Nil],
     paths |-> [l \in Layers |-> Nil], tokens |-> NoGroupBuffers, final |-> NoGroupBuffers]

NewGroupMember == [keys |-> {}, marked |-> {}, count |-> 0, final |-> {}, ready |-> FALSE,
                   locked |-> FALSE, fail |-> {}]

\* Round 0 also makes new key tables.
SetupNewPathEstablishmentRound(r) ==
    [NewServer EXCEPT !.path = TRUE, !.paths[0] = NoBuffers,
                      !.started = r.started, !.fail = r.fail]

SetupNewLightningRound(r, n) ==
    [r EXCEPT !.round = n, !.layer = 0, !.path = FALSE, !.complete = FALSE,
              !.pathLayer = -1, !.receiptLayer = -1,
              !.parsers = [l \in Layers |-> IF l = 0 THEN 0 ELSE Nil],
              !.routers = [l \in Layers |-> IF l = 0 THEN NoBuffers ELSE Nil],
              !.final = NoGroupBuffers]

\* First part of RoundStart in a path round, up to the call of Reset.
StartPathLayer(r, n) ==
    [r EXCEPT !.round = n, !.layer = n, !.pathLayer = n, !.receiptLayer = ReceiptLayer(n),
              !.complete = FALSE, !.receipts = {}, !.started = TRUE,
              !.paths[n] = NoBuffers, !.routers[n] = NoBuffers,
              !.tokens = IF n = LastLayer THEN NoGroupBuffers ELSE @]

NextLayer(r, l) == IF r.path THEN l - 1 ELSE l + 1

AllocatesNext(r, l) == IF r.path THEN l # r.receiptLayer ELSE l # LastLayer

\* The part of Server.OnThreshold that runs under the locks of the synchronizer.
OnThreshold(r, l) ==
    LET n == NextLayer(r, l)
        a == IF l = r.pathLayer THEN r
             ELSE IF AllKeysAccountedFor(r, l) THEN ResetUsage(r, l)
             ELSE Fail(r, "MissingMessages")
    IN  IF r.routers[l] = Nil THEN Fail(a, "no router")
        ELSE IF AllocatesNext(r, l)
        THEN [a EXCEPT !.layer = n, !.parsers[n] = 0, !.routers[n] = NoBuffers]
        ELSE [a EXCEPT !.layer = n]

JobKind(r, l) == IF l = r.receiptLayer THEN "receipt"
                 ELSE IF l # LastLayer THEN "shuffle"
                 ELSE IF r.path THEN "tokens" ELSE "trustees"

\* SendShuffleMessages: one batch for each server, in the order of GetJobs.
ShuffleMessages(s, type, rnd, l, bufs) ==
    [i \in DOMAIN SendOrder[s] |->
        [dest |-> SendOrder[s][i], type |-> type, round |-> rnd, layer |-> l,
         group |-> Nil, msgs |-> bufs[SendOrder[s][i]]]]

\* SendGroupShuffleMessages: each server gets one batch for each of its groups.
GroupShuffleMessages(s, type, rnd, l, bufs) ==
    [i \in DOMAIN GroupSends[s] |->
        LET d == GroupSends[s][i][1]
            g == GroupSends[s][i][2]
        IN  [dest |-> d, type |-> type, round |-> rnd, layer |-> l, group |-> g, msgs |-> bufs[g]]]

\* What the goroutine of OnThreshold(l) sends; n is the next layer.
Outgoing(s, r, l, n) ==
    CASE JobKind(r, l) = "receipt"  -> <<>>
      [] JobKind(r, l) = "shuffle"  ->
            ShuffleMessages(s, IF r.path THEN "Reverse" ELSE "Forward", r.round, n, r.routers[l])
      [] JobKind(r, l) = "tokens"   -> GroupShuffleMessages(s, "Token", r.round, n, r.tokens)
      [] JobKind(r, l) = "trustees" -> GroupShuffleMessages(s, "Signature", r.round, n, r.final)

\* Pack the decrypted boomerang messages for the servers they came from.
PackDecrypted(r) ==
    LET back == UNION {r.tokens[g] : g \in Groups}
        bufs == [d \in Servers |-> {c \in back : KeyOf(r, LastLayer, c).prev = d}]
    IN  IF \E d \in Servers : Cardinality(bufs[d]) > BinSize THEN Fail(r, "LinkOverflow")
        ELSE [r EXCEPT !.routers[LastLayer] = bufs]

Free(r, l) == [r EXCEPT !.parsers[l] = Nil, !.routers[l] = Nil]

=============================================================================
