---------------------------- MODULE OnionLayout ----------------------------
(***************************************************************************)
(* What a client seals and what the servers make of it: the messages of    *)
(* server/prepareMessages/client.go, their lengths (lengths.go), their     *)
(* encodings (server/common/marshalling.go, crypto/sigcryption.go) and the *)
(* parsers of server/processMessages that open them, round by round.       *)
(*                                                                         *)
(* One client is followed through the path rounds, or past them with       *)
(* SkipPathGen, and through broadcast rounds.  Byte strings are terms with *)
(* a length: a term that is read at another length, opened with another    *)
(* key or nonce, is Garbage.  Key number i is the client's key pair of     *)
(* layer i; the key shared by it and server s is <<i, s>> for both.        *)
(***************************************************************************)
EXTENDS Integers, Sequences, SequencesExt, FiniteSets

CONSTANTS
    LayerCounts,   \* values of NumLayers
    Limits,        \* values of BoomerangLimit
    NumServers,
    NumGroups,
    Hashes,        \* token hashes, which choose the path
    ClientId,      \* the client's ID, the Sender of its submissions
    PayloadSize,   \* MessageSize of the broadcast rounds
    MaxLightning   \* bound: broadcast rounds

LayoutAssumption ==
    /\ LayerCounts \subseteq Nat \ {0, 1} /\ Limits \subseteq Nat \ {0}
    /\ NumServers \in Nat \ {0} /\ NumGroups \in Nat \ {0}
    /\ Hashes \subseteq Nat /\ PayloadSize \in Nat /\ MaxLightning \in Nat

KEY_SIZE == 32
POINT_SIZE == 32
TOKEN_SIZE == 48
SIGNATURE_SIZE == 64
Overhead == SIGNATURE_SIZE
ReceiptSize == 8

VARIABLES
    numLayers, limit,
    hash,     \* hash[i]: the hash of the client's token i
    phase,    \* what the servers are at
    round, layer,
    at,       \* the server, or group, that has the message
    lens,     \* OnionMessageLengths
    envelope, \* the path message on its way
    box,      \* the sealed message on its way
    label,    \* the lookup key sent with it
    table,    \* table[l]: the BootstrapKey of layer l, or <<>>
    anonymous,\* keys the groups hold: <<group, key>>
    receipts, \* receipts[r + 1]: what was recorded in path round r
    posted,   \* FinalMessages of each broadcast round
    made      \* nonces the client has sealed under: <<key, nonce>>

vars == <<numLayers, limit, hash, phase, round, layer, at, lens, envelope, box,
          label, table, anonymous, receipts, posted, made>>
client == <<numLayers, limit, hash>>

-----------------------------------------------------------------------------
(* The tables of message lengths. *)

BoomerangLengths(size) ==
    [l \in 0 .. numLayers - 1 |->
        size + (IF l <= limit THEN l ELSE limit) * Overhead
             + (IF l = numLayers - 1 THEN Overhead ELSE 0)]
WireBoomerangLengths(size) ==
    [l \in 0 .. numLayers - 1 |->
        BoomerangLengths(size)[l] - (IF l = numLayers - 1 THEN Overhead ELSE 0)
                                  + (IF l = 0 THEN 0 ELSE KEY_SIZE)]
OnionLengths(size) ==
    [l \in 0 .. numLayers |-> size + (numLayers - l) * Overhead]
LightningMessageLengths(size) ==
    [l \in 0 .. numLayers |-> OnionLengths(size + SIGNATURE_SIZE)[l] + KEY_SIZE]
PathEstablishmentLengths(size) ==
    LET inner[l \in 0 .. numLayers] ==
            IF l = numLayers THEN 0
            ELSE Overhead + POINT_SIZE + TOKEN_SIZE + inner[l + 1] + BoomerangLengths(size)[l]
    IN  [l \in 0 .. numLayers |-> inner[l] + POINT_SIZE + TOKEN_SIZE]

\* RoundStart: past the limit, the lengths move up by a layer every round.
\* Slip: they move from the first round on.
ShiftedAlways(l, r) == [i \in DOMAIN l |-> IF i > 0 THEN l[i - 1] ELSE l[i]]
Shifted(l, r) ==
    IF r - limit > 0 THEN [i \in DOMAIN l |-> IF i > 0 THEN l[i - 1] ELSE l[i]] ELSE l

-----------------------------------------------------------------------------
(* Byte strings. *)

Empty == [kind |-> "empty", len |-> 0]
Garbage(n) == [kind |-> "garbage", len |-> n]
Receipt(r) == [kind |-> "receipt", len |-> ReceiptSize, of |-> r]
\* A buffer of fixed length cuts or pads what does not fit.
Fit(term, n) == IF term.len = n THEN term ELSE Garbage(n)

Nonce(r, l, server) == <<r, l, server>>
Signed(term) == term.kind = "sealed"
SignedSecretSeal(body, nonce, shared, signer) ==
    [kind |-> "sealed", len |-> body.len + Overhead, body |-> body, nonce |-> nonce,
     shared |-> shared, signer |-> signer]
\* The cipher sees the round and the layer of the nonce only.
SecretOpen(term, nonce, shared) ==
    IF Signed(term) /\ term.shared = shared /\ SubSeq(term.nonce, 1, 2) = SubSeq(nonce, 1, 2)
    THEN term.body ELSE Garbage(term.len - Overhead)
Verify(signer, nonce, term) == Signed(term) /\ term.signer = signer /\ term.nonce = nonce

\* Token i signs key, round, layer and the previous server of the path.
Token(key, r, source, h) == [key |-> key, round |-> r, source |-> source, hash |-> h]
VerifyToken(token, r, source, key) ==
    token.key = key /\ token.round = r /\ token.source = source
HashToServer(h) == h % NumServers
HashToGroup(h) == h % NumGroups
\* Where a layer sends to: a server or, after the last layer, a group.
\* Slip: the server is not replaced by the group.
NextHopServer(h, last) == HashToServer(h)
NextHop(h, last) == IF last THEN HashToGroup(h) ELSE HashToServer(h)

PathInfo(key, token, boomerang, next) ==
    [kind |-> "info", len |-> POINT_SIZE + TOKEN_SIZE + boomerang.len + next.len,
     key |-> key, token |-> token, boomerang |-> boomerang, next |-> next]
\* InterpretFrom splits at the boomerang's length.
Interpret(info, n) ==
    IF info.kind = "info" /\ info.boomerang.len = n THEN <<info>> ELSE <<>>
PathEnvelope(key, token, box_) ==
    [kind |-> "path", len |-> POINT_SIZE + TOKEN_SIZE + box_.len,
     key |-> key, token |-> token, box |-> box_]
\* The same for all messages on the wire behind a lookup key.
Envelope(key, box_) == [kind |-> "wire", len |-> KEY_SIZE + box_.len, key |-> key, box |-> box_]
MarshalI(message) ==
    [kind |-> "final", len |-> SIGNATURE_SIZE + message.len, signer |-> numLayers,
     message |-> message]
FinalMessage(key, final) ==
    [kind |-> "posted", len |-> KEY_SIZE + final.len, key |-> key, final |-> final]

RECURSIVE NoncesIn(_)
NoncesIn(term) ==
    CASE term.kind = "sealed" -> <<<<term.signer, term.nonce>>>> \o NoncesIn(term.body)
      [] term.kind = "info" -> NoncesIn(term.boomerang) \o NoncesIn(term.next)
      [] OTHER -> <<>>

-----------------------------------------------------------------------------
(* The client. *)

ServerID(i) == HashToServer(hash[i])
PrevServerID(i) == IF i = 0 THEN ClientId ELSE ServerID(i - 1)
Shared(i) == <<i, ServerID(i)>>
\* The last key is shared with the anytrust groups.
PrevShared(i) == IF i = numLayers THEN <<i, "groups">> ELSE <<i, ServerID(i - 1)>>
TokenOf(i) == Token(i, i, PrevServerID(i), hash[i])

Encrypt(message, i, r, l, server, boomerang) ==
    SignedSecretSeal(message, Nonce(r, l, server), IF boomerang THEN PrevShared(i) ELSE Shared(i), i)
BoomerangStart(r) == IF r - limit < 0 THEN 0 ELSE r - limit
BoomerangBase(r) ==
    LET seal[l \in -1 .. r - 1] ==
            IF l < BoomerangStart(r) THEN Receipt(r)
            ELSE Encrypt(seal[l - 1], l + 1, r, l + numLayers, ServerID(l), TRUE)
    IN  seal[r - 1]
OnionEncrypt(message, r) ==
    LET seal[l \in 0 .. numLayers] ==
            IF l = numLayers THEN message ELSE Encrypt(seal[l + 1], l, r, l, ServerID(l), FALSE)
    IN  seal[0]
MakeOptimizedPathEstablishmentMessage ==
    LET boomerang(l) ==
            IF l = numLayers - 1
            THEN Encrypt(BoomerangBase(l), numLayers, numLayers, numLayers, PrevServerID(numLayers), TRUE)
            ELSE BoomerangBase(l)
        seal[l \in 0 .. numLayers] ==
            IF l = numLayers THEN Empty
            ELSE Encrypt(PathInfo(l + 1, TokenOf(l + 1), boomerang(l), seal[l + 1]),
                         l, l, l, ServerID(l), FALSE)
    IN  PathEnvelope(0, TokenOf(0), seal[0])
Payload(r) == [kind |-> "message", len |-> PayloadSize, of |-> r]

-----------------------------------------------------------------------------
Init ==
    /\ numLayers \in LayerCounts /\ limit \in Limits
    /\ hash \in [0 .. numLayers -> Hashes]
    /\ phase = "idle" /\ round = 0 /\ layer = 0 /\ at = 0
    /\ lens = WireBoomerangLengths(ReceiptSize)
    /\ envelope = Empty /\ box = Empty /\ label = 0
    /\ table = [l \in 0 .. numLayers - 1 |-> <<>>]
    /\ anonymous = {} /\ receipts = <<>> /\ posted = <<>> /\ made = <<>>

\* ClientStart of path round 0: the whole path is sealed in one message.
SubmitPathEstablishmentMessage ==
    /\ phase = "idle"
    /\ envelope' = MakeOptimizedPathEstablishmentMessage
    /\ made' = NoncesIn(MakeOptimizedPathEstablishmentMessage.box)
    /\ at' = ServerID(0) /\ phase' = "path"
    /\ UNCHANGED <<client, round, layer, lens, box, label, table, anonymous, receipts, posted>>

\* AddKey.  Slip: the key of the incoming link is used for the outgoing one.
BootstrapKeyIn(in, shared, prev, next, out) ==
    [server |-> at, in |-> in, shared |-> shared, prev |-> prev, next |-> next, out |-> out,
     outShared |-> shared]
BootstrapKey(in, shared, prev, next, out) ==
    [server |-> at, in |-> in, shared |-> shared, prev |-> prev, next |-> next, out |-> out,
     outShared |-> <<out, at>>]

\* GetSignedData writes the nonce into the buffer the signature covers, so the
\* last call decides: it is the one in the arguments of DebugPrint.
\* Slip: without DebugPrint the nonce of the round stays.
SignedNonceOfRound(server) == Nonce(round, layer, server)
SignedNonce(server) == Nonce(numLayers, numLayers, server)

\* recordReceipts at layer 0, under the client's ID; further up no one asks for it.
Recorded(l, prev, receipt) ==
    [layer |-> l, owner |-> IF l = 0 THEN prev ELSE -1, receipt |-> receipt]

Fail == phase' = "failed" /\ UNCHANGED <<table, envelope, box, label, at, layer, receipts>>

\* handlePathMessage with ParseRecordAndGetNext.
HandlePathMessage ==
    /\ phase = "path"
    /\ LET msg == IF round = 0 THEN envelope
                  ELSE Fit(envelope, PathEstablishmentLengths(ReceiptSize)[round])
           source == IF round = 0 THEN ClientId ELSE table[round - 1].server
           readable == /\ msg.kind = "path"
                       /\ VerifyToken(msg.token, round, source, msg.key)
                       /\ HashToServer(msg.token.hash) = at
                       /\ Verify(msg.key, Nonce(round, layer, at), msg.box)
           opened == SecretOpen(msg.box, Nonce(round, layer, at), <<msg.key, at>>)
           parsed == Interpret(opened, BoomerangLengths(ReceiptSize)[layer])
           info == parsed[1]
           last == round = numLayers - 1
           next == NextHop(info.token.hash, last)
           accepted == /\ readable /\ parsed # <<>>
                       /\ VerifyToken(info.token, round + 1, at, info.key)
                       /\ last => Verify(info.key, SignedNonce(at), info.boomerang)
       IN  IF ~accepted THEN Fail
           ELSE /\ table' = [table EXCEPT ![layer] =
                                BootstrapKey(msg.key, <<msg.key, at>>, source, next, info.key)]
                /\ envelope' = PathEnvelope(info.key, info.token, info.next)
                /\ box' = info.boomerang
                /\ \/ /\ layer = 0 /\ phase' = "complete"
                      /\ receipts' = Append(receipts, Recorded(0, source, info.boomerang))
                      /\ UNCHANGED <<label, at, layer>>
                   \/ /\ layer # 0 /\ last /\ phase' = "group"
                      /\ UNCHANGED <<label, at, layer, receipts>>
                   \/ /\ layer # 0 /\ ~last /\ phase' = "boomerang"
                      /\ label' = msg.key /\ at' = source /\ layer' = layer - 1
                      /\ UNCHANGED receipts
    /\ UNCHANGED <<client, round, lens, anonymous, posted, made>>

\* RoundStart of a path round.
RoundStart ==
    /\ phase = "complete" /\ round + 1 < numLayers
    /\ round' = round + 1 /\ layer' = round + 1
    /\ lens' = Shifted(lens, round + 1)
    /\ at' = table[round].next /\ phase' = "path"
    /\ UNCHANGED <<client, envelope, box, label, table, anonymous, receipts, posted, made>>

\* OnThreshold of the last path layer: SendAndRecieve, with
\* HandleCheckpointMessage in the group, HandleOne and AuthenticatedOnionPack.
Checkpoint ==
    /\ phase = "group"
    /\ LET key == table[layer]
       IN  IF ~VerifyToken(envelope.token, numLayers, at, envelope.key)
           THEN Fail /\ UNCHANGED anonymous
           ELSE /\ anonymous' = anonymous \cup {<<HashToGroup(envelope.token.hash), envelope.key>>}
                /\ box' = SecretOpen(box, Nonce(numLayers, numLayers, at), <<envelope.key, "groups">>)
                /\ label' = key.in /\ at' = key.prev /\ layer' = layer - 1
                /\ phase' = "boomerang"
                /\ UNCHANGED <<table, envelope, receipts>>
    /\ UNCHANGED <<client, round, lens, posted, made>>

ReceiptLayer == IF round - limit > 0 THEN round - limit ELSE 0
\* Slip: the receipt is passed on at the receipt layer too.
PassesOnLate(l) == l >= ReceiptLayer
PassesOn(l) == l > ReceiptLayer

\* The entry of this server in the table of a layer, by its key on either link.
Lookup(l, key, reverse) ==
    {b \in {table[l]} \ {<<>>} : b.server = at /\ key = IF reverse THEN b.out ELSE b.in}

\* HandleBoomerangMessage with AuthenticatedOnionParse in reverse.
HandleBoomerangMessage ==
    /\ phase = "boomerang"
    /\ LET msg == Fit(Envelope(label, box), lens[layer + 1])
           keys == IF msg.kind = "wire" THEN Lookup(layer, msg.key, TRUE) ELSE {}
           nonce == Nonce(round, layer + numLayers, at)
           accepted == {b \in keys : Verify(b.out, nonce, msg.box)}
       IN  IF accepted = {} THEN Fail
           ELSE \E b \in accepted :
                /\ box' = SecretOpen(msg.box, nonce, b.outShared)
                /\ \/ /\ PassesOn(layer)
                      /\ label' = b.in /\ at' = b.prev /\ layer' = layer - 1
                      /\ UNCHANGED <<phase, receipts>>
                   \/ /\ ~PassesOn(layer) /\ phase' = "complete"
                      /\ receipts' = Append(receipts, Recorded(layer, b.prev, box'))
                      /\ UNCHANGED <<label, at, layer>>
                /\ UNCHANGED <<table, envelope>>
    /\ UNCHANGED <<client, round, lens, anonymous, posted, made>>

\* SkipPathGen of the client and of the handler: the tables are filled directly.
SkipPathGen ==
    /\ phase = "idle"
    /\ table' = [l \in 0 .. numLayers - 1 |->
                    [server |-> ServerID(l), in |-> l, shared |-> <<l, ServerID(l)>>,
                     prev |-> PrevServerID(l),
                     next |-> NextHop(hash[l + 1], l = numLayers - 1),
                     out |-> l + 1, outShared |-> <<l + 1, ServerID(l)>>]]
    /\ anonymous' = {<<HashToGroup(hash[numLayers]), numLayers>>}
    /\ phase' = "skipped"
    /\ UNCHANGED <<client, round, layer, at, lens, envelope, box, label, receipts, posted, made>>

\* The round number of the next broadcast round: they follow the path rounds.
\* Slip: they are counted from zero.
LightningRoundFresh == IF phase = "posted" THEN round + 1 ELSE 0
LightningRound == IF phase = "skipped" THEN 0 ELSE round + 1

\* RoundSetup of a broadcast round and SendLightningMessage.
SendLightningMessage ==
    /\ \/ phase \in {"skipped", "posted"}
       \/ phase = "complete" /\ round = numLayers - 1
    /\ Len(posted) < MaxLightning
    /\ LET sealed == OnionEncrypt(MarshalI(Payload(LightningRound)), LightningRound)
       IN  box' = sealed /\ made' = made \o NoncesIn(sealed)
    /\ round' = LightningRound /\ layer' = 0 /\ at' = ServerID(0) /\ label' = 0
    /\ lens' = LightningMessageLengths(PayloadSize)
    /\ phase' = "onion"
    /\ UNCHANGED <<client, envelope, table, anonymous, receipts, posted>>

\* handleLightningMessage: AuthenticatedOnionParse, then the next layer's buffer
\* or finalRouter.Pack.
HandleLightningMessage ==
    /\ phase = "onion"
    /\ LET wire == Envelope(label, box)
           msg == IF layer = 0 THEN wire ELSE Fit(wire, lens[layer])
           keys == IF msg.kind = "wire" THEN Lookup(layer, msg.key, FALSE) ELSE {}
           nonce == Nonce(round, layer, at)
           accepted == {b \in keys : Verify(b.in, nonce, msg.box)}
       IN  IF accepted = {} THEN Fail
           ELSE \E b \in accepted :
                /\ box' = SecretOpen(msg.box, nonce, b.shared)
                /\ label' = b.out /\ at' = b.next
                /\ IF layer = numLayers - 1 THEN phase' = "trustee" ELSE UNCHANGED phase
                /\ layer' = layer + 1
                /\ UNCHANGED <<table, envelope, receipts>>
    /\ UNCHANGED <<client, round, lens, anonymous, posted, made>>

\* HandleTrusteeMessage in the groups.
HandleTrusteeMessage ==
    /\ phase = "trustee"
    /\ LET msg == Fit(FinalMessage(label, box), lens[numLayers])
           accepted == /\ msg.kind = "posted" /\ <<at, msg.key>> \in anonymous
                       /\ msg.final.kind = "final" /\ msg.final.signer = msg.key
       IN  IF ~accepted THEN Fail /\ UNCHANGED posted
           ELSE /\ posted' = Append(posted, <<round, msg.final.message>>)
                /\ phase' = "posted"
                /\ UNCHANGED <<table, envelope, box, label, at, layer, receipts>>
    /\ UNCHANGED <<client, round, lens, anonymous, made>>

Next ==
    \/ SubmitPathEstablishmentMessage
    \/ HandlePathMessage
    \/ RoundStart
    \/ Checkpoint
    \/ HandleBoomerangMessage
    \/ SkipPathGen
    \/ SendLightningMessage
    \/ HandleLightningMessage
    \/ HandleTrusteeMessage

Spec == Init /\ [][Next]_vars

-----------------------------------------------------------------------------
\* Every part of the state keeps its type; there is at most one receipt per path round.
TypeOK ==
    /\ phase \in {"idle", "path", "group", "boomerang", "complete", "skipped", "onion",
                  "trustee", "posted", "failed"}
    /\ layer \in 0 .. numLayers /\ round \in Nat
    /\ \A l \in DOMAIN lens : lens[l] \in Nat
    /\ label \in 0 .. numLayers
    /\ \A l \in DOMAIN table : table[l] # <<>> => table[l].server \in 0 .. NumServers - 1
    /\ anonymous \subseteq (0 .. NumGroups - 1) \X (0 .. numLayers)
    /\ Len(receipts) <= numLayers /\ Len(posted) <= MaxLightning

\* Whatever is on its way has the length at which the next server reads it, in every
\* round and layer, also when RoundStart has moved the table up past the limit.
WireLengths ==
    /\ phase = "path" => envelope.len = PathEstablishmentLengths(ReceiptSize)[round]
    /\ phase = "boomerang" => Envelope(label, box).len = lens[layer + 1]
    /\ phase = "onion" => Envelope(label, box).len = lens[layer]
    /\ phase = "trustee" => FinalMessage(label, box).len = lens[numLayers]

\* No server and no group refuses a message of the client: every token, nonce, key and
\* signature is the one the server computes, the one under the group's key included.
NeverRefused == phase # "failed"

\* The receipt of every path round comes back whole, to the layer where the coordinator
\* or, at layer 0 and under its own ID, the client looks for it.
ReceiptsReturn ==
    \A r \in 0 .. Len(receipts) - 1 :
        /\ receipts[r + 1].receipt = Receipt(r)
        /\ receipts[r + 1].layer = (IF r - limit > 0 THEN r - limit ELSE 0)
        /\ receipts[r + 1].layer = 0 => receipts[r + 1].owner = ClientId

\* The client never seals twice under one key with the same round and layer: the
\* cipher is a counter mode, and a signature must not fit another message.
NoncesOnce ==
    \A i, j \in DOMAIN made :
        i # j /\ made[i][1] = made[j][1] =>
            SubSeq(made[i][2], 1, 2) # SubSeq(made[j][2], 1, 2)

\* What a group posts in a broadcast round is the client's message of that round.
PostedIntact == \A n \in DOMAIN posted : posted[n][2] = Payload(posted[n][1])

\* Client and servers agree on every layer of every message.
OnionInv == TypeOK /\ WireLengths /\ NeverRefused /\ ReceiptsReturn /\ PostedIntact
=============================================================================
