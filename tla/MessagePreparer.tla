-------------------------- MODULE MessagePreparer ---------------------------
(***************************************************************************)
(* server/prepareMessages/server.go: registration, submission and blind    *)
(* token signatures for clients, called by concurrent gRPC goroutines,     *)
(* with errors/errors.go and errors/memory.go, whose one mutex every error *)
(* constructor takes.                                                      *)
(*                                                                         *)
(* A critical section without a blocking call is one step that needs its   *)
(* lock free.  A call that fails inside one keeps the lock (the unlock is  *)
(* deferred) until LogError lets it return.                                *)
(***************************************************************************)
EXTENDS Integers, FiniteSets

CONSTANTS
    Clients,    \* client ids
    Rpcs,       \* goroutines that serve requests
    NumLayers,  \* tokens are signed for layers 0 .. NumLayers
    Nil

ASSUME LayersAssumption == NumLayers \in Nat
ASSUME NilAssumption == Nil \notin Clients \cup Rpcs

VARIABLES
    registered, \* the clients RegisterClient has put into the map
    signed,     \* PerClientInfo.signed
    submitted,  \* the clients with PerClientInfo.submitted set
    mapOwner, markOwner, \* who holds mapLock and markLock
    logLocked,  \* errors.mu, which LogError takes and never releases
    panicked,   \* DefaultErrorHandler has ended the process
    running,    \* memory.go: the profiling goroutine was started
    rpc,        \* the request each goroutine serves and how far it is
    returned,   \* token signatures handed out, per client and layer
    accepted    \* submissions accepted, per client

store == <<registered, signed, submitted>>
locks == <<mapOwner, markOwner>>
grants == <<returned, accepted>>
vars == <<store, locks, logLocked, panicked, running, rpc, grants>>

Signable == 0 .. NumLayers
\* Layers a request may name; one that is out of range stands for all.
Layers == 0 .. NumLayers + 1
Idle == [pc |-> "idle", client |-> Nil, layer |-> 0]
Pcs == {"idle", "register", "token", "submit", "found", "signed", "checked",
        "monitor", "error", "fatal"}

Init ==
    /\ registered = {}
    /\ signed = [c \in Clients |-> -1] /\ submitted = {}
    /\ mapOwner = Nil /\ markOwner = Nil
    /\ logLocked = FALSE /\ panicked = FALSE /\ running = FALSE
    /\ rpc = [r \in Rpcs |-> Idle]
    /\ returned = [c \in Clients |-> [l \in Signable |-> 0]]
    /\ accepted = [c \in Clients |-> 0]

At(r, label) == ~panicked /\ rpc[r].pc = label
Goto(r, label) == rpc' = [rpc EXCEPT ![r].pc = label]
Return(r) == rpc' = [rpc EXCEPT ![r] = Idle]

\* HandleSignedMessage passes a request on; its signature and its group element
\* may or may not be good, which the steps below decide.
Call(r) ==
    /\ At(r, "idle")
    /\ \E op \in {"register", "token", "submit"}, c \in Clients, l \in Layers :
          rpc' = [rpc EXCEPT ![r] = [pc |-> op, client |-> c, layer |-> l]]
    /\ UNCHANGED <<store, locks, logLocked, panicked, running, grants>>

\* InterpretFrom, ValidateSignature and BlindSign fail outside the locks, and so
\* does a layer out of range.
Refuse(r) ==
    /\ rpc[r].pc \in {"register", "token", "found", "checked"} /\ ~panicked
    /\ Goto(r, "error")
    /\ UNCHANGED <<store, locks, logLocked, panicked, running, grants>>

RegisterClient(r) ==
    LET c == rpc[r].client IN
    /\ At(r, "register") /\ mapOwner = Nil
    /\ IF c \in registered
       THEN Goto(r, "error") /\ mapOwner' = r /\ UNCHANGED store
       ELSE /\ registered' = registered \cup {c}
            /\ signed' = [signed EXCEPT ![c] = -1]
            /\ submitted' = submitted \ {c}
            /\ Return(r) /\ UNCHANGED mapOwner
    /\ UNCHANGED <<markOwner, logLocked, panicked, running, grants>>

InRange(r) == rpc[r].layer \in Signable

\* The lookup under mapLock of HandleTokenRequest; MarkSubmitted looks without it.
Lookup(r) ==
    /\ \/ At(r, "token") /\ mapOwner = Nil /\ InRange(r)
       \/ At(r, "submit")
    /\ Goto(r, IF rpc[r].client \notin registered THEN "error"
               ELSE IF At(r, "token") THEN "found" ELSE "checked")
    /\ UNCHANGED <<store, locks, logLocked, panicked, running, grants>>

\* The response is complete and signed before the record is consulted.
BlindSign(r) ==
    /\ At(r, "found") /\ Goto(r, "signed")
    /\ UNCHANGED <<store, locks, logLocked, panicked, running, grants>>

\* Slip: the test lets the layer that was signed last pass again.
AlreadySignedStrict(r) == signed[rpc[r].client] > rpc[r].layer
AlreadySigned(r) == signed[rpc[r].client] >= rpc[r].layer

MarkSigned(r) ==
    LET c == rpc[r].client  l == rpc[r].layer IN
    /\ At(r, "signed") /\ markOwner = Nil
    /\ IF AlreadySigned(r)
       THEN Goto(r, "error") /\ markOwner' = r /\ UNCHANGED <<signed, returned>>
       ELSE /\ signed' = [signed EXCEPT ![c] = l]
            /\ returned' = [returned EXCEPT ![c][l] = @ + 1]
            /\ Return(r) /\ UNCHANGED markOwner
    /\ UNCHANGED <<registered, submitted, mapOwner, logLocked, panicked, running, accepted>>

MarkSubmitted(r) ==
    LET c == rpc[r].client IN
    /\ At(r, "checked") /\ markOwner = Nil
    /\ IF c \in submitted
       THEN Goto(r, "error") /\ markOwner' = r /\ UNCHANGED <<submitted, accepted>>
       ELSE /\ submitted' = submitted \cup {c}
            /\ accepted' = [accepted EXCEPT ![c] = @ + 1]
            /\ Return(r) /\ UNCHANGED markOwner
    /\ UNCHANGED <<registered, signed, mapOwner, logLocked, panicked, running, returned>>

\* Slip: the unlock is not deferred, so a call that fails leaves its lock taken.
ReleaseForgotten(owner, r) == owner
Release(owner, r) == IF owner = r THEN Nil ELSE owner

\* HandleSignedMessage gives a request for a group the server is not in to the
\* error handler, which panics; all other errors go back to the client.
WrongServer(r) ==
    /\ rpc[r].pc \in {"register", "token"} /\ ~panicked
    /\ Goto(r, "fatal")
    /\ UNCHANGED <<store, locks, logLocked, panicked, running, grants>>

\* LogError takes errors.mu for good; the caller then returns its error or panics.
LogError(r) ==
    /\ At(r, "error") \/ At(r, "fatal")
    /\ ~logLocked
    /\ logLocked' = TRUE
    /\ panicked' = (rpc[r].pc = "fatal")
    /\ mapOwner' = Release(mapOwner, r) /\ markOwner' = Release(markOwner, r)
    /\ Return(r)
    /\ UNCHANGED <<store, running, grants>>

\* RoundSetup and ClientStart of round 0 call MonitorMemory.
CallMonitor(r) ==
    /\ At(r, "idle") /\ Goto(r, "monitor")
    /\ UNCHANGED <<store, locks, logLocked, panicked, running, grants>>
MonitorMemory(r) ==
    /\ At(r, "monitor") /\ ~logLocked
    /\ running' = TRUE /\ Return(r)
    /\ UNCHANGED <<store, locks, logLocked, panicked, grants>>

Step(r) ==
    \/ Refuse(r) \/ WrongServer(r) \/ RegisterClient(r) \/ Lookup(r) \/ BlindSign(r)
    \/ MarkSigned(r) \/ MarkSubmitted(r) \/ LogError(r) \/ MonitorMemory(r)

Next == \E r \in Rpcs : Call(r) \/ CallMonitor(r) \/ Step(r)

\* A goroutine that is not blocked runs on.
Fairness == \A r \in Rpcs : WF_vars(Step(r))
Spec == Init /\ [][Next]_vars /\ Fairness

-----------------------------------------------------------------------------
\* Every field keeps its type; the layer of a signature is one the server signs.
TypeOK ==
    /\ registered \subseteq Clients
    /\ signed \in [Clients -> -1 .. NumLayers]
    /\ submitted \subseteq Clients
    /\ mapOwner \in Rpcs \cup {Nil} /\ markOwner \in Rpcs \cup {Nil}
    /\ logLocked \in BOOLEAN /\ panicked \in BOOLEAN /\ running \in BOOLEAN
    /\ rpc \in [Rpcs -> [pc : Pcs, client : Clients \cup {Nil}, layer : Layers]]
    /\ returned \in [Clients -> [Signable -> Nat]]
    /\ accepted \in [Clients -> Nat]

\* However many requests of a client are served at once, it gets at most one token
\* signature per layer and one submission ("don't sign twice for a client"),
\* although the signature is computed before the record is tested.
SignedOnce ==
    \A c \in Clients : accepted[c] <= 1 /\ \A l \in Signable : returned[c][l] <= 1

\* Signatures come in the order of the layers: with the signature for layer l out,
\* no request for a lower layer is granted, whichever was received first.
LayersInOrder ==
    [][\A c \in Clients, l \in Signable :
          returned'[c][l] > returned[c][l] =>
             \A k \in Signable : k > l => returned[c][k] = 0]_vars

\* A lock that stays taken between two steps belongs to a call that waits in
\* LogError: requests that succeed, and requests whose error is logged, never
\* leave mapLock or markLock behind.
LocksOfErrors ==
    /\ mapOwner # Nil => rpc[mapOwner].pc = "error"
    /\ markOwner # Nil => rpc[markOwner].pc = "error"

\* Why SignedOnce holds: a record says at least as much as was handed out, it is
\* blank before it is registered, and a request past its lookup has a record.
GrantsRecorded ==
    \A c \in Clients :
        /\ accepted[c] = IF c \in submitted THEN 1 ELSE 0
        /\ c \notin registered => signed[c] = -1 /\ c \notin submitted
        /\ \A l \in Signable : /\ returned[c][l] \in {0, 1}
                               /\ returned[c][l] = 1 => l <= signed[c]
RequestsKnown ==
    \A r \in Rpcs :
        /\ rpc[r].pc \in Pcs \ {"idle", "monitor"} => rpc[r].client \in Clients
        /\ rpc[r].pc \in {"found", "signed", "checked"} => rpc[r].client \in registered
        /\ rpc[r].pc \in {"found", "signed"} => rpc[r].layer \in Signable
RecordsAgree == GrantsRecorded /\ RequestsKnown

Errors == {r \in Rpcs : rpc[r].pc \in {"error", "fatal"}}

\* Every request is answered, unless the process panics or a second error, or the
\* memory monitor, meets the log mutex that the first error kept.
Answered ==
    \A r \in Rpcs :
        rpc[r].pc # "idle" ~>
            \/ rpc[r].pc = "idle"
            \/ logLocked /\ (panicked \/ Errors # {} \/ rpc[r].pc = "monitor")

\* What the comment in LogError assumes when it keeps the mutex: a panic is coming.
PanicFollowsError == logLocked ~> panicked
=============================================================================
