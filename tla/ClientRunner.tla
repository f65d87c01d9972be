---------------------------- MODULE ClientRunner ----------------------------
(***************************************************************************)
(* client/clients.go: one process that plays many clients.  ClientStart    *)
(* and CheckReceipt start a goroutine per client and collect one result    *)
(* from each over an unbuffered channel; ClientStart limits them with a    *)
(* channel used as a semaphore, which broadcast rounds replace.  Path      *)
(* messages can be recorded in files and loaded by a later process.        *)
(*                                                                         *)
(* The coordinator makes the calls of Plan one after the other and stops   *)
(* at the first error.                                                     *)
(***************************************************************************)
EXTENDS Integers, Sequences, FiniteSets, SequencesExt

CONSTANTS
    Ids,       \* client ids StartId .. EndId - 1
    Plan,      \* calls: "path", "light", "receipt", or "load" by a new process
    PathCap, LightCap, \* capacities of the semaphores: 32 and 256 per CPU
    BlockSize, \* a file is written when more clients than this are recorded
    Record,    \* RecordMessageFile is set
    Faults     \* TRUE: calls to servers may fail

PlanAssumption ==
    /\ Plan \in Seq({"path", "light", "receipt", "load"})
    /\ PathCap \in Nat \ {0} /\ LightCap \in Nat \ {0} /\ BlockSize \in Nat
    /\ Record \in BOOLEAN /\ Faults \in BOOLEAN /\ IsFiniteSet(Ids)

Calls == 1 .. Len(Plan)

VARIABLES
    call,     \* the call in progress or made last
    main,     \* "idle", "collect", "failed": where the handler of the call is
    got,      \* results taken from done
    cur,      \* c.Sem: the call that made the channel, 0 for NewClientRunner
    sem,      \* elements in each of these channels
    go,       \* where the goroutine of each client of each call is
    on,       \* the channel from which it releases
    clients,  \* what is known of each client: has a path, a routing key
    block,    \* RecordedClients
    files,    \* files written, in the order of idx
    done,     \* how often the operation of a call was carried out per client
    next      \* idx of the next file to load

runner == <<call, main, got>>
slots  == <<cur, sem, on>>
disk   == <<block, files, next>>
vars   == <<runner, slots, go, clients, disk, done>>

Blank == [path |-> FALSE, routing |-> FALSE]

Init ==
    /\ call = 0 /\ main = "idle" /\ got = 0
    /\ cur = 0 /\ sem = [c \in {0} \cup Calls |-> 0]
    /\ go = [c \in Calls |-> [i \in Ids |-> "none"]]
    /\ on = [c \in Calls |-> [i \in Ids |-> 0]]
    /\ clients = [i \in Ids |-> Blank]
    /\ block = <<>> /\ files = <<>> /\ next = 1
    /\ done = [c \in Calls |-> [i \in Ids |-> 0]]

Kind(c) == Plan[c]
Cap(c) == IF c = 0 THEN PathCap ELSE LightCap
Goto(c, i, label) == go' = [go EXCEPT ![c][i] = label]
\* The operation of a call on a client has been carried out.
Carried(c, i) == done' = [done EXCEPT ![c][i] = @ + 1]

\* ClientStart and CheckReceipt: goroutines start, broadcast rounds make a new
\* semaphore first.  Clients that do not exist yet are added blank.
Start(c) ==
    /\ main = "idle" /\ call = c - 1 /\ Kind(c) # "load"
    /\ call' = c /\ main' = "collect" /\ got' = 0
    /\ cur' = IF Kind(c) = "light" THEN c ELSE cur
    /\ go' = [go EXCEPT ![c] = [i \in Ids |-> IF Kind(c) = "receipt" THEN "work" ELSE "start"]]
    /\ UNCHANGED <<sem, on, clients, disk, done>>

\* Slip: one more than the channel holds.
RoomForOneMore(ch) == sem[ch] <= Cap(ch)
Room(ch) == sem[ch] < Cap(ch)

\* No goroutine can still wait here when a later call replaces c.Sem.
Acquire(c, i) ==
    /\ go[c][i] = "start" /\ Room(cur)
    /\ sem' = [sem EXCEPT ![cur] = @ + 1]
    /\ Goto(c, i, "work")
    /\ UNCHANGED <<runner, cur, on, clients, disk, done>>

\* Slip: the goroutine returns on an error without sending it on done.
FailedUnreported == "end"
Failed == "error"

\* RegisterClient, MakeOptimizedPathEstablishmentMessage, Submit... and
\* CheckReceipt return the error of the first server that fails; a broadcast
\* without a routing key finds no entry in the server's table.
Fail(c, i) ==
    /\ go[c][i] = "work"
    /\ Faults \/ (Kind(c) = "light" /\ ~clients[i].routing)
    /\ Goto(c, i, Failed)
    /\ UNCHANGED <<runner, slots, clients, disk, done>>

\* Slip: the block is written but not emptied.
EmptyBlockForgotten(b) == b
EmptyBlock(b) == <<>>

\* WriteClientToFile under c.mu.
WriteClient(i) ==
    LET b == Append(block, i) IN
    IF Len(b) > BlockSize
    THEN files' = Append(files, b) /\ block' = EmptyBlock(b) /\ UNCHANGED next
    ELSE block' = b /\ UNCHANGED <<files, next>>

Work(c, i) ==
    /\ go[c][i] = "work"
    /\ Kind(c) = "light" => clients[i].routing
    /\ IF Kind(c) = "path"
       THEN clients' = [clients EXCEPT ![i] = [path |-> TRUE, routing |-> TRUE]]
       ELSE UNCHANGED clients
    /\ IF Kind(c) = "path" /\ Record THEN WriteClient(i) ELSE UNCHANGED disk
    /\ Carried(c, i) /\ Goto(c, i, "ok")
    /\ UNCHANGED <<runner, slots>>

\* The handler takes one result; the first error ends it, and nobody reads done
\* any more.
Collect(c, i) ==
    /\ main = "collect" /\ call = c /\ go[c][i] \in {"ok", "error"}
    /\ got' = got + 1
    /\ main' = IF go[c][i] = "error" THEN "failed" ELSE main
    /\ Goto(c, i, IF Kind(c) = "receipt" THEN "end" ELSE "release")
    /\ UNCHANGED <<call, slots, clients, disk, done>>

\* Release reads c.Sem again: the channel may be a later one than in Acquire.  Then
\* it takes an element from it, which waits while there is none.
ReleaseFrom(c, i) ==
    /\ go[c][i] = "release"
    /\ on' = [on EXCEPT ![c][i] = cur]
    /\ Goto(c, i, "leave")
    /\ UNCHANGED <<runner, cur, sem, clients, disk, done>>

\* Slip: a path that returns without Release.
FreedForgotten(n) == n
Freed(n) == n - 1

Release(c, i) ==
    /\ go[c][i] = "leave" /\ sem[on[c][i]] > 0
    /\ sem' = [sem EXCEPT ![on[c][i]] = Freed(@)]
    /\ Goto(c, i, "end")
    /\ UNCHANGED <<runner, cur, on, clients, disk, done>>

\* Slip: the handler returns with one result missing.
CollectedEarly == got >= Cardinality(Ids) - 1
Collected == got = Cardinality(Ids)

\* What is left of the last block is written without emptying RecordedClients.
Return ==
    /\ main = "collect" /\ Collected
    /\ main' = "idle"
    /\ IF Kind(call) = "path" /\ Record
       THEN files' = Append(files, block) /\ UNCHANGED <<block, next>>
       ELSE UNCHANGED disk
    /\ UNCHANGED <<call, got, slots, go, clients, done>>

\* Marshal and Unmarshal keep the path keys and drop routingKey.
Unmarshal == [path |-> TRUE, routing |-> FALSE]

\* A new process with the same files: DoAction with LoadKeys.
LoadMessages(c) ==
    /\ main = "idle" /\ call = c - 1 /\ Kind(c) = "load"
    /\ call' = c /\ main' = "load" /\ next' = 1
    /\ cur' = 0 /\ sem' = [x \in DOMAIN sem |-> 0]
    /\ go' = [x \in Calls |-> [i \in Ids |-> "none"]] /\ UNCHANGED on
    /\ clients' = [i \in Ids |-> Blank] /\ block' = <<>>
    /\ UNCHANGED <<got, files, done>>

\* SendLoadedMessages: one file after the other until there is none; all messages
\* of a file are submitted before the next is read.
LoadFile ==
    /\ main = "load"
    /\ IF next > Len(files)
       THEN main' = "idle" /\ UNCHANGED <<next, clients, done, block>>
       ELSE /\ block' = files[next] /\ next' = next + 1
            /\ clients' = [i \in Ids |-> IF i \in ToSet(files[next]) THEN Unmarshal ELSE clients[i]]
            /\ done' = [done EXCEPT ![call] = [i \in Ids |->
                   @[i] + Cardinality({k \in DOMAIN files[next] : files[next][k] = i})]]
            /\ UNCHANGED main
    /\ UNCHANGED <<call, got, slots, go, files>>

Goroutine(c, i) ==
    \/ Acquire(c, i) \/ Fail(c, i) \/ Work(c, i)
    \/ Collect(c, i) \/ ReleaseFrom(c, i) \/ Release(c, i)

Next ==
    \/ \E c \in Calls : Start(c) \/ LoadMessages(c) \/ \E i \in Ids : Goroutine(c, i)
    \/ Return \/ LoadFile

\* The Go scheduler runs every goroutine that can run, and the coordinator goes on.
Spec == Init /\ [][Next]_vars /\ WF_vars(Next)

-----------------------------------------------------------------------------
Labels == {"none", "start", "work", "ok", "error", "release", "leave", "end"}
\* Every part of the state keeps its type; no channel holds more than its capacity.
TypeOK ==
    /\ call \in 0 .. Len(Plan) /\ main \in {"idle", "collect", "load", "failed"}
    /\ got \in 0 .. Cardinality(Ids) /\ cur \in {0} \cup Calls
    /\ \A c \in DOMAIN sem : sem[c] \in 0 .. Cap(c)
    /\ go \in [Calls -> [Ids -> Labels]] /\ on \in [Calls -> [Ids -> {0} \cup Calls]]
    /\ clients \in [Ids -> [path : BOOLEAN, routing : BOOLEAN]]
    /\ block \in Seq(Ids) /\ files \in Seq(Seq(Ids)) /\ next \in Nat
    /\ done \in [Calls -> [Ids -> Nat]]

Working(c) == {i \in Ids : go[c][i] \in {"work", "ok", "error"}}
Releasing(c) == {i \in Ids : go[c][i] \in {"release", "leave"}}

\* A call returns success only after the operation of every client, once each,
\* although results arrive in any order on one channel and the goroutines of the
\* call before may not have ended.
ServedOnce ==
    \A c \in 1 .. call :
        /\ \A i \in Ids : done[c][i] <= 1
        /\ main = "idle" \/ c < call => \A i \in Ids : done[c][i] = 1

\* What Acquire and Release guarantee: a goroutine of an earlier call that releases
\* late takes a place of the new channel, so the bound can be exceeded by one for
\* each of them and by no more.
AdmissionBound ==
    call \in Calls /\ Kind(call) = "light" =>
        Cardinality(Working(call)) + Cardinality(Releasing(call))
            <= LightCap + Cardinality({p \in (1 .. call - 1) \X Ids :
                   go[p[1]][p[2]] = "end" /\ on[p[1]][p[2]] = cur})

\* Every recorded client is in exactly one file, and files have at most one more
\* client than a block; loading submits all of them and restores every path.
FilesComplete ==
    /\ \A f \in DOMAIN files : Len(files[f]) <= BlockSize + 1
    /\ (Record /\ main = "idle" /\ \E c \in 1 .. call : Kind(c) = "path") =>
          \A i \in Ids : Cardinality({p \in UNION {{f} \X DOMAIN files[f] : f \in DOMAIN files} :
                                         files[p[1]][p[2]] = i}) = 1
    /\ (main = "idle" /\ call # 0 /\ Kind(call) = "load") => \A i \in Ids : clients[i].path

\* Calls that overlap in their goroutines serve every client once and lose no record.
RunnerInv == TypeOK /\ ServedOnce /\ AdmissionBound /\ FilesComplete

\* The whole plan is carried out, or it stops at the first error.
Settled == (call = Len(Plan) /\ main = "idle") \/ main = "failed"
=============================================================================
