--------------------------- MODULE TokenIssuance ---------------------------
(***************************************************************************)
(* The keys of the anytrust groups and what is done with them: generation, *)
(* saving and loading (coordinator/coordinator.go), distribution (SendKeys *)
(* and KeySet), blind signatures on tokens (crypto/token, crypto/pairing)  *)
(* and the decryption of a path's last layer by a group (crypto/dhkx.go,   *)
(* checkpoint).                                                            *)
(*                                                                         *)
(* The groups of the pairing and the curve of the DH keys have the prime   *)
(* order Q.  An element is its discrete logarithm, so multiplication by a  *)
(* scalar is FrMul, and the pairing multiplies too.  A first coordinator   *)
(* makes keys and stores them with the tokens of its clients; a second one *)
(* loads both, for other groups and servers started anew.                  *)
(***************************************************************************)
EXTENDS Integers, Sequences, SequencesExt, FiniteSets

CONSTANTS
    Q,           \* the order of the groups
    Servers,
    Groupings,   \* Groupings[n][g]: the servers of group g in the n-th run
    Contents,    \* contents of tokens: the exponents of the anonymous key and of the hash
    Draws,       \* the random numbers that are drawn
    SkipToken,   \* config.SkipToken: clients sign with a fixed token key
    FixedSecret, \* token.SecretKey.Share
    Failures,    \* calls of KeySet may fail
    Retries      \* attempts of SendKeys for a server

IssuanceAssumption ==
    /\ Q \in Nat /\ Q > 1 /\ \A a, b \in 1 .. Q - 1 : (a * b) % Q # 0
    /\ Contents \subseteq [key : 1 .. Q - 1, hash : 1 .. Q - 1]
    /\ FixedSecret \in 0 .. Q - 1 /\ Draws \subseteq 0 .. Q - 1
    /\ SkipToken \in BOOLEAN /\ Failures \in BOOLEAN /\ Retries \in Nat \ {0}

Fr == 0 .. Q - 1
FrAdd(a, b) == (a + b) % Q
FrSub(a, b) == (a - b) % Q
FrMul(a, b) == (a * b) % Q
FrNeg(a) == (-a) % Q
\* FrInv leaves zero at zero.
FrInv(a) == IF a = 0 THEN 0 ELSE CHOOSE b \in Fr : FrMul(a, b) = 1

\* The shares of a secret for the random numbers r: pairing.AdditiveShares,
\* and the one of crypto, which works on the negated secret.
AdditiveShares(secret, r) == <<FoldLeft(FrSub, secret, r)>> \o r
\* Slip: the first share is not negated back.
DHSharesNegated(secret, r) == <<FoldLeft(FrAdd, FrNeg(secret), r)>> \o r
DHShares(secret, r) == <<FrNeg(FoldLeft(FrAdd, FrNeg(secret), r))>> \o r

VARIABLES
    run,       \* which coordinator: an index of Groupings
    phase,     \* "keys", "send", "ready", "panic"
    secret,    \* the coordinator's secrets: [token, dh]
    file,      \* groupSecretKeys, which WriteKeys stores once the keys are sent, or None
    shares,    \* shares[g][i]: the shares [token, dh] of the i-th member
    pending,   \* pending[s]: the groups whose keys the current attempt must still send
    attempts,  \* attempts[s]: attempts left
    combined,  \* combined[s]: CombinedKey and GroupPublicKey, or None
    member,    \* member[s][g]: signingKey and secretShare, or None
    published, \* the public keys of the clients, or None
    tokens,    \* tokens made: [content, T]
    refused,   \* failed requests: [blinding, keyless]
    rejected,  \* tokens a group has not accepted
    opened     \* keys a group computed: [key, shared, keyless]

vars == <<run, phase, secret, file, shares, pending, attempts, combined, member,
          published, tokens, refused, rejected, opened>>

None == <<>>
Public == 0     \* the entry sent to a server that is in no group
Keys == [token : Fr, dh : Fr]
Groups == DOMAIN Groupings[run]
Members(g) == ToSet(Groupings[run][g])
\* SendKeys: a server in no group gets the public keys.
Entries(s) == LET own == {g \in Groups : s \in Members(g)}
              IN  IF own = {} THEN {Public} ELSE own
\* Members that did not get their shares: their keys are the zero values.
Keyless(g) == \E s \in Members(g) : member[s][g] = None
Share(s, g) == IF member[s][g] = None THEN [token |-> 0, dh |-> 0] ELSE member[s][g]

NewServers ==
    /\ pending' = [s \in Servers |-> {}] /\ attempts' = [s \in Servers |-> 0]
    /\ combined' = [s \in Servers |-> None]
    /\ member' = [s \in Servers |-> [g \in DOMAIN Groupings[run'] |-> None]]
    /\ published' = None

Init ==
    /\ run = 1 /\ phase = "keys"
    /\ secret = None /\ file = None /\ shares = None
    /\ pending = [s \in Servers |-> {}] /\ attempts = [s \in Servers |-> 0]
    /\ combined = [s \in Servers |-> None]
    /\ member = [s \in Servers |-> [g \in Groups |-> None]]
    /\ published = None /\ tokens = {} /\ refused = {} /\ rejected = {} /\ opened = {}

-----------------------------------------------------------------------------
\* keyGenToken: the secret whose shares are sent.
\* Slip: the fixed key is used only by a coordinator that makes new keys.
TokenSecretFirst(t) == IF SkipToken /\ run = 1 THEN FixedSecret ELSE t
TokenSecret(t) == IF SkipToken THEN FixedSecret ELSE t

\* keyGenToken and genDHKeys: every group has its own shares of the same secrets.
Distribute(keys) ==
    /\ secret' = [token |-> TokenSecret(keys.token), dh |-> keys.dh]
    /\ \E r, d \in [Groups -> UNION {[1 .. Len(Groupings[run][g]) - 1 -> Draws] : g \in Groups}] :
        /\ \A g \in Groups : {Len(r[g]), Len(d[g])} = {Len(Groupings[run][g]) - 1}
        /\ shares' = [g \in Groups |->
                        LET t == AdditiveShares(secret'.token, r[g])
                            x == DHShares(secret'.dh, d[g])
                        IN  [i \in DOMAIN t |-> [token |-> t[i], dh |-> x[i]]]]
    /\ phase' = "send"
    /\ pending' = [s \in Servers |-> Entries(s)]
    /\ attempts' = [s \in Servers |-> Retries]

\* KeyGenToken and GenDHKeys in the first run.
KeyGen ==
    /\ phase = "keys" /\ file = None
    /\ \E t, d \in Draws : Distribute([token |-> t, dh |-> d]) /\ file' = [token |-> t, dh |-> d]
    /\ UNCHANGED <<run, combined, member, published, tokens, refused, rejected, opened>>

\* LoadKeys: new shares for the current groups.
LoadKeys ==
    /\ phase = "keys" /\ file # None
    /\ Distribute(file)
    /\ UNCHANGED <<run, file, combined, member, published, tokens, refused, rejected, opened>>

-----------------------------------------------------------------------------
\* SendKeys has calls to make for s.  Slip: one attempt too many.
ActiveOnceMore(s) == phase = "send" /\ pending[s] # {} /\ attempts[s] >= 0
Active(s) == phase = "send" /\ pending[s] # {} /\ attempts[s] > 0
Position(s, g) == CHOOSE i \in DOMAIN Groupings[run][g] : Groupings[run][g][i] = s

\* server.KeySet: the public keys are set once, the shares every time.
\* Slip: the keys of one group are given to every group of the server.
SetKeysEverywhere(s, g) ==
    /\ combined' = [combined EXCEPT ![s] = IF @ = None THEN secret ELSE @]
    /\ member' = IF g = Public THEN member
                 ELSE [member EXCEPT ![s] = [h \in Groups |-> IF s \in Members(h)
                                                THEN shares[g][Position(s, g)] ELSE @[h]]]
SetKeys(s, g) ==
    /\ combined' = [combined EXCEPT ![s] = IF @ = None THEN secret ELSE @]
    /\ member' = IF g = Public THEN member
                 ELSE [member EXCEPT ![s][g] = shares[g][Position(s, g)]]

KeySet(s) ==
    /\ Active(s)
    /\ \E g \in pending[s] : SetKeys(s, g) /\ pending' = [pending EXCEPT ![s] = @ \ {g}]
    /\ UNCHANGED <<run, phase, secret, file, shares, attempts, published, tokens, refused,
                   rejected, opened>>

\* A call fails, before or after the server has handled it; SendKeys starts
\* again with all of the server's keys, until it has no attempt left.
KeySetFails(s) ==
    /\ Failures /\ Active(s)
    /\ \E g \in pending[s] : SetKeys(s, g) \/ UNCHANGED <<combined, member>>
    /\ attempts' = [attempts EXCEPT ![s] = @ - 1]
    /\ pending' = [pending EXCEPT ![s] = Entries(s)]
    /\ UNCHANGED <<run, phase, secret, file, shares, published, tokens, refused, rejected,
                   opened>>

\* SendKeys waits for every server, and reports nil for those it gave up on.
ClientKeySet ==
    /\ phase = "send" /\ \A s \in Servers : ~Active(s)
    /\ published' = secret /\ phase' = "ready"
    /\ UNCHANGED <<run, secret, file, shares, pending, attempts, combined, member, tokens,
                   refused, rejected, opened>>

-----------------------------------------------------------------------------
\* verify: e(sign, -Q) * e(hash, sQ) is one.
Verify(key, T, hash) == FrAdd(FrMul(T, FrNeg(1)), FrMul(hash, key)) = 0

Prepare(hash, blinding) == FrMul(hash, blinding)
BlindSign(s, g, blinded) == FrMul(blinded, Share(s, g).token)
Combine(partials) == FoldLeft(FrAdd, 0, partials)
Unblind(m, blinding) == FrMul(m, FrInv(blinding))
\* Slip: the combined signature is taken without a check.
IsTokenAlways(T, hash) == TRUE
IsToken(T, hash) == Verify(published.token, T, hash)

\* GetToken: the blinded hash, a signature of every member, Create.
GetToken(c, g) ==
    /\ phase = "ready" /\ ~SkipToken /\ run = 1
    /\ \E blinding \in Draws \cup {0} :
        LET blinded == Prepare(c.hash, blinding)
            group == Groupings[run][g]
            T == Unblind(Combine([i \in DOMAIN group |-> BlindSign(group[i], g, blinded)]),
                         blinding)
        IN  IF IsToken(T, c.hash)
            THEN tokens' = tokens \cup {[content |-> c, T |-> T]} /\ UNCHANGED refused
            ELSE /\ refused' = refused \cup {[blinding |-> blinding, keyless |-> Keyless(g)]}
                 /\ UNCHANGED tokens
    /\ UNCHANGED <<run, phase, secret, file, shares, pending, attempts, combined, member,
                   published, rejected, opened>>

\* SkipToken: the client signs the hash itself.
MakeToken(c) ==
    /\ phase = "ready" /\ SkipToken /\ run = 1
    /\ tokens' = tokens \cup {[content |-> c, T |-> FrMul(c.hash, FixedSecret)]}
    /\ UNCHANGED <<run, phase, secret, file, shares, pending, attempts, combined, member,
                   published, refused, rejected, opened>>

\* HandleCheckpointMessage at the members of a group and HandleResponse at the
\* server that asked: the partial keys are added up.  A member without the
\* combined key dereferences nil.
Checkpoint(t, g) ==
    /\ phase = "ready" /\ tokens # {}
    /\ IF \E s \in Members(g) : combined[s] = None
       THEN phase' = "panic" /\ UNCHANGED <<rejected, opened>>
       ELSE /\ UNCHANGED phase
            /\ IF \A s \in Members(g) : Verify(combined[s].token, t.T, t.content.hash)
               THEN LET group == Groupings[run][g]
                        partials == [i \in DOMAIN group |->
                                        FrMul(Share(group[i], g).dh, t.content.key)]
                    IN  /\ opened' = opened \cup {[key |-> t.content.key,
                                                   shared |-> Combine(partials),
                                                   keyless |-> Keyless(g)]}
                        /\ UNCHANGED rejected
               ELSE rejected' = rejected \cup {t} /\ UNCHANGED opened
    /\ UNCHANGED <<run, secret, file, shares, pending, attempts, combined, member, published,
                   tokens, refused>>

\* The next coordinator starts its servers anew; the file and the recorded
\* tokens remain.
Restart ==
    /\ phase = "ready" /\ run < Len(Groupings)
    /\ run' = run + 1 /\ phase' = "keys" /\ secret' = None /\ shares' = None
    /\ NewServers
    /\ UNCHANGED <<file, tokens, refused, rejected, opened>>

Next ==
    \/ KeyGen
    \/ LoadKeys
    \/ \E s \in Servers : KeySet(s) \/ KeySetFails(s)
    \/ ClientKeySet
    \/ \E c \in Contents, g \in Groups : GetToken(c, g)
    \/ \E c \in Contents : MakeToken(c)
    \/ \E t \in tokens, g \in Groups : Checkpoint(t, g)
    \/ Restart

Spec == Init /\ [][Next]_vars

-----------------------------------------------------------------------------
\* Every share, key, token and computed key is an element of its group.
TypeOK ==
    /\ run \in DOMAIN Groupings /\ phase \in {"keys", "send", "ready", "panic"}
    /\ {secret, file, published} \subseteq Keys \cup {None}
    /\ shares # None => \A g \in Groups : shares[g] \in [DOMAIN Groupings[run][g] -> Keys]
    /\ \A s \in Servers : /\ attempts[s] \in 0 .. Retries /\ combined[s] \in Keys \cup {None}
                          /\ pending[s] \subseteq Entries(s)
                          /\ \A g \in Groups : member[s][g] \in Keys \cup {None}
    /\ tokens \subseteq [content : Contents, T : Fr] /\ rejected \subseteq tokens
    /\ refused \subseteq [blinding : Fr, keyless : BOOLEAN]
    /\ opened \subseteq [key : Fr, shared : Fr, keyless : BOOLEAN]

\* token.Create returns only tokens every server accepts, whichever members
\* of the group lack their shares, and a token recorded under one choice of
\* groups is still accepted by the servers of a later run that loads the keys.
TokensStayValid ==
    /\ rejected = {}
    /\ \A t \in tokens, s \in Servers :
        combined[s] # None => Verify(combined[s].token, t.T, t.content.hash)

\* A request for a token fails only when the random blinding is zero or SendKeys
\* gave up on a member of the group: with all shares delivered, in any order
\* and with any repetitions, the partial signatures make a token.
RefusedForCause == \A r \in refused : r.blinding = 0 \/ r.keyless

\* A group whose members all have their shares computes the key the client
\* shares with the group's public key (PrevShared of the last layer), in the
\* run that made the keys and in one that loaded them.
GroupsDecrypt == \A o \in opened : o.keyless \/ o.shared = FrMul(o.key, file.dh)

\* Keys that were shared out, sent again, stored and loaded still belong together.
KeysInv == TypeOK /\ TokensStayValid /\ RefusedForCause /\ GroupsDecrypt
=============================================================================
