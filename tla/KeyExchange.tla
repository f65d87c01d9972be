----------------------------- MODULE KeyExchange -----------------------------
(***************************************************************************)
(* server/keyExchange: the members of the master group choose secrets and  *)
(* publish their public keys to each other; every member of another group  *)
(* gets an additive share of every secret.  A member is complete when the  *)
(* synchronizer has counted one message from every master.                 *)
(*                                                                         *)
(* A public key is represented by its exponent; arithmetic is modulo the   *)
(* prime P in place of the order of the curve.                             *)
(***************************************************************************)
EXTENDS Integers, FiniteSets, Functions

CONSTANTS
    Masters,   \* members of the master group
    Others,    \* members of another group
    P,         \* order of the group of keys
    None,      \* nobody
    MaxLost    \* bound: calls that fail before they are handled

ExchangeAssumption ==
    /\ P \in Nat \ {0, 1} /\ MaxLost \in Nat /\ Masters \cap Others = {}
    /\ IsFiniteSet(Masters) /\ IsFiniteSet(Others) /\ Others # {}
    /\ None \notin Masters \cup Others

Members == Masters \cup Others
Z == 0 .. P - 1

VARIABLES
    secret,   \* secretSigningKey: of a master its own, of others the sum of shares
    public,   \* publicSigningKey
    share,    \* share[i][d]: what master i sends to member d of the other group
    call,     \* call[i][d]: "none", "sent", "locked", "ok", "lost"
    mu,       \* holder of k.mu: the sender whose message is handled
    count,    \* processed of the synchronizer
    layer,    \* "inProgress", "completed"
    firing,   \* members whose Trigger has been started and has not run
    master,   \* "start", "wait", "sync", "done", "error": StartKeyExchange
    panicked  \* Done has counted more than the threshold

vars == <<secret, public, share, call, mu, count, layer, firing, master, panicked>>

\* Slip: the last share is random as well.
AdditiveSharesRandom(s) == [Others -> Z]
\* ec.AdditiveShares: random shares, the last one completes the sum.
AdditiveShares(s) == {f \in [Others -> Z] : SumFunctionOnSet(f, Others) % P = s}

\* NewMasterKeyExchange chooses a secret, NewKeyExchange starts from zero.
Init ==
    /\ secret \in {f \in [Members -> Z] : \A d \in Others : f[d] = 0}
    /\ public = [d \in Members |-> 0]
    /\ share = [i \in Masters |-> [d \in Others |-> 0]]
    /\ call = [i \in Masters |-> [d \in Members |-> "none"]]
    /\ mu = [d \in Members |-> None] /\ count = [d \in Members |-> 0]
    /\ layer = [d \in Members |-> "inProgress"] /\ firing = {}
    /\ master = [i \in Masters |-> "start"] /\ panicked = FALSE

\* StartKeyExchange: SendPublicKeyShares and SendPrivateKeyShares call all members.
StartKeyExchange(i) ==
    /\ master[i] = "start"
    /\ master' = [master EXCEPT ![i] = "wait"]
    /\ \E f \in AdditiveShares(secret[i]) : share' = [share EXCEPT ![i] = f]
    /\ call' = [call EXCEPT ![i] = [d \in Members |-> "sent"]]
    /\ UNCHANGED <<secret, public, mu, count, layer, firing, panicked>>

Lose(i, d) ==
    /\ call[i][d] = "sent"
    /\ Cardinality({p \in Masters \X Members : call[p[1]][p[2]] = "lost"}) < MaxLost
    /\ call' = [call EXCEPT ![i][d] = "lost"]
    /\ UNCHANGED <<secret, public, share, mu, count, layer, firing, master, panicked>>

\* ReceiveKeyShare takes k.mu and waits, holding it, while the exchange is in progress.
Lock(i, d) ==
    /\ call[i][d] = "sent" /\ mu[d] = None
    /\ mu' = [mu EXCEPT ![d] = i]
    /\ call' = [call EXCEPT ![i][d] = "locked"]
    /\ UNCHANGED <<secret, public, share, count, layer, firing, master, panicked>>

\* Slip: one message more is waited for.
ThresholdMore == Cardinality(Masters) + 1
Threshold == Cardinality(Masters)

\* Done of the synchronizer.
Done(d) ==
    /\ count' = [count EXCEPT ![d] = @ + 1]
    /\ firing' = IF count'[d] = Threshold THEN firing \cup {d} ELSE firing
    /\ panicked' = (panicked \/ count'[d] > Threshold)

\* Slip: a share replaces what has been accumulated.
AccumulateLast(sum, x) == x
Accumulate(sum, x) == (sum + x) % P

ReceiveKeyShare(i, d) ==
    /\ call[i][d] = "locked" /\ layer[d] = "inProgress"
    /\ IF d \in Masters
       THEN public' = [public EXCEPT ![d] = Accumulate(@, secret[i])] /\ UNCHANGED secret
       ELSE secret' = [secret EXCEPT ![d] = Accumulate(@, share[i][d])] /\ UNCHANGED public
    /\ Done(d)
    /\ mu' = [mu EXCEPT ![d] = None]
    /\ call' = [call EXCEPT ![i][d] = "ok"]
    /\ UNCHANGED <<share, layer, master>>

\* Trigger with OnThreshold runs in a goroutine of its own.
Trigger(d) ==
    /\ d \in firing
    /\ firing' = firing \ {d}
    /\ layer' = [layer EXCEPT ![d] = "completed"] /\ count' = [count EXCEPT ![d] = 0]
    /\ UNCHANGED <<secret, public, share, call, mu, master, panicked>>

\* Errors of the public shares are dropped, errors of the private shares are returned.
Sent(i) ==
    /\ master[i] = "wait"
    /\ \/ /\ \E d \in Others : call[i][d] = "lost"
          /\ master' = [master EXCEPT ![i] = "error"]
       \/ /\ \A d \in Others : call[i][d] = "ok"
          /\ \/ \A d \in Masters : call[i][d] \in {"ok", "lost"}
             \/ \E d \in Masters : call[i][d] = "lost"
          /\ master' = [master EXCEPT ![i] = "sync"]
    /\ UNCHANGED <<secret, public, share, call, mu, count, layer, firing, panicked>>

\* Slip: StartKeyExchange returns without Sync(Completed).
CompletedUnchecked(i) == TRUE
Completed(i) == layer[i] = "completed"

Finish(i) ==
    /\ master[i] = "sync" /\ Completed(i)
    /\ master' = [master EXCEPT ![i] = "done"]
    /\ UNCHANGED <<secret, public, share, call, mu, count, layer, firing, panicked>>

Master(i) == StartKeyExchange(i) \/ Sent(i) \/ Finish(i)
Handle(i, d) == Lock(i, d) \/ ReceiveKeyShare(i, d)

Step ==
    \/ \E i \in Masters : Master(i) \/ \E d \in Members : Handle(i, d)
    \/ \E d \in Members : Trigger(d)
Next == Step \/ \E i \in Masters, d \in Members : Lose(i, d)

\* Calls that are not lost are handled, and every goroutine runs.
Spec == Init /\ [][Next]_vars /\ WF_vars(Step)

-----------------------------------------------------------------------------
\* Every part of the state keeps its type, and no synchronizer counts past its threshold.
TypeOK ==
    /\ secret \in [Members -> Z] /\ public \in [Members -> Z]
    /\ share \in [Masters -> [Others -> Z]]
    /\ call \in [Masters -> [Members -> {"none", "sent", "locked", "ok", "lost"}]]
    /\ mu \in [Members -> Masters \cup {None}] /\ count \in [Members -> 0 .. Threshold]
    /\ layer \in [Members -> {"inProgress", "completed"}] /\ firing \subseteq Members
    /\ master \in [Masters -> {"start", "wait", "sync", "done", "error"}] /\ ~panicked

\* A master that has returned from the exchange, or answers GetPublicKeys, has the sum
\* of all public keys, also when calls were lost and however shares interleave.
PublicKeyComplete ==
    \A i \in Masters : (layer[i] = "completed" \/ master[i] = "done") =>
        public[i] = SumFunctionOnSet(secret, Masters) % P

\* When all members of the other group are complete, their secrets add up to the secret
\* that belongs to the public key: no share was lost, doubled or overwritten.
SharesAddUp ==
    (\A d \in Others : layer[d] = "completed") =>
        SumFunctionOnSet(secret, Others) % P = SumFunctionOnSet(secret, Masters) % P

\* The exchange ends in one key, whichever way its messages interleave.
SharesInv == TypeOK /\ PublicKeyComplete /\ SharesAddUp

\* Every member is complete and every master has returned.
Complete == /\ \A d \in Members : layer[d] = "completed"
            /\ \A i \in Masters : master[i] = "done"
=============================================================================
