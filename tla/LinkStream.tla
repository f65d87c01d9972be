----------------------------- MODULE LinkStream -----------------------------
(***************************************************************************)
(* The way of batches from a connection to the worker threads:             *)
(* network/batching.go (send, ConnectionReader), server/pool.go and the    *)
(* loop of HandleTcpStream in server/handler.go.                           *)
(*                                                                         *)
(* Per connection three goroutines work on one batch: ContinuousReader     *)
(* reads it from the connection, WorkerPoolProcessStream hands its         *)
(* messages to the pool and HandleTcpStream waits for it before it reads   *)
(* the next header.  The threads of the pool serve all connections.        *)
(*                                                                         *)
(* A connection carries headers, messages and signatures as units; a peer  *)
(* may close it after any of them.                                         *)
(***************************************************************************)
EXTENDS Integers, Sequences, FiniteSets, Functions

CONSTANTS
    Conns,         \* incoming connections
    Batches,       \* Batches[c]: sizes of the batches sent on connection c
    BaseBatchSize, \* messages read at once
    WireCap,       \* units a connection holds
    BuffCap,       \* capacity of ConnectionReader.Buff
    JobsCap,       \* capacity of WorkPool.jobs
    Threads,       \* threads of the pool
    Breaks         \* connections may be closed by the peer

StreamAssumption ==
    /\ \A c \in Conns : Batches[c] \in Seq(Nat)
    /\ BaseBatchSize \in Nat \ {0} /\ BuffCap \in Nat \ {0} /\ JobsCap \in Nat \ {0}
    /\ WireCap \in Nat /\ WireCap >= BaseBatchSize /\ Breaks \in BOOLEAN

\* Message k of batch b on connection c.
Message(c, b, k) == [kind |-> "message", conn |-> c, batch |-> b, nr |-> k]
Header(c, b) == [kind |-> "header", conn |-> c, batch |-> b, nr |-> Batches[c][b]]
Signature(c, b) == [kind |-> "signature", conn |-> c, batch |-> b, nr |-> 0]
\* SignedMessage.AsArray: header, data and signature.  A place is a unit of a batch.
AsArray(c, p) ==
    CASE p.unit = 0 -> Header(c, p.batch)
      [] p.unit \in 1 .. Batches[c][p.batch] -> Message(c, p.batch, p.unit)
      [] OTHER -> Signature(c, p.batch)
After(c, p) == IF p.unit > Batches[c][p.batch] THEN [batch |-> p.batch + 1, unit |-> 0]
               ELSE [batch |-> p.batch, unit |-> p.unit + 1]

VARIABLES
    unsent,   \* unsent[c]: the place of what the peer writes next
    wire,     \* wire[c]: units written and not read
    closed,   \* connections closed by the peer
    handler,  \* handler[c]: "header", "stream", "hand", "failed"
    batch,    \* batch[c]: header of the batch in work
    reader,   \* reader[c]: ContinuousReader: "none", "read", "push", "ended"
    todo,     \* todo[c]: messages it has not read
    chunk,    \* chunk[c]: messages read and not yet in Buff
    buff,     \* buff[c]: Buff
    err,      \* err[c]: Err or a bad signature
    inHand,   \* inHand[c]: message taken from Buff
    wg,       \* wg[c]: jobs the WaitGroup counts
    jobs,     \* WorkPool.jobs
    thread,   \* thread[t]: job in work, or None
    processed,\* messages processed, a sequence
    done,     \* done[c]: calls of synchronizer.Done
    panicked  \* the error handler has panicked

peer == <<unsent, closed>>
stream == <<reader, todo, chunk, buff, err>>
pool == <<jobs, thread, processed>>
vars == <<peer, wire, handler, batch, stream, inHand, wg, pool, done, panicked>>

None == [kind |-> "none"]
All(v) == [c \in Conns |-> v]

Init ==
    /\ unsent = All([batch |-> 1, unit |-> 0]) /\ wire = All(<<>>) /\ closed = {}
    /\ handler = All("header") /\ batch = All(None)
    /\ reader = All("none") /\ todo = All(0) /\ chunk = All(<<>>) /\ buff = All(<<>>)
    /\ err = All(FALSE) /\ inHand = All(None) /\ wg = All(0)
    /\ jobs = <<>> /\ thread = [t \in Threads |-> None] /\ processed = <<>>
    /\ done = All(0) /\ panicked = FALSE

Set(f, c, v) == [f EXCEPT ![c] = v]

\* send: the peer writes what the connection takes, one batch after the other.
Send(c) ==
    /\ ~panicked /\ c \notin closed
    /\ unsent[c].batch <= Len(Batches[c]) /\ Len(wire[c]) < WireCap
    /\ wire' = [wire EXCEPT ![c] = Append(@, AsArray(c, unsent[c]))]
    /\ unsent' = [unsent EXCEPT ![c] = After(c, @)]
    /\ UNCHANGED <<closed, handler, batch, stream, inHand, wg, pool, done, panicked>>

Close(c) ==
    /\ Breaks /\ ~panicked /\ c \notin closed
    /\ closed' = closed \cup {c}
    /\ UNCHANGED <<unsent, wire, handler, batch, stream, inHand, wg, pool, done, panicked>>

\* HandleTcpStream: ReadMetadata, ReadStream and the start of ContinuousReader.
ReadMetadata(c) ==
    /\ ~panicked /\ handler[c] = "header" /\ wire[c] # <<>>
    /\ batch' = Set(batch, c, Head(wire[c])) /\ wire' = [wire EXCEPT ![c] = Tail(@)]
    /\ handler' = Set(handler, c, "stream") /\ reader' = Set(reader, c, "read")
    /\ todo' = Set(todo, c, Head(wire[c]).nr) /\ err' = Set(err, c, FALSE)
    /\ UNCHANGED <<peer, chunk, buff, inHand, wg, pool, done, panicked>>

\* Slip: the last part is read as if it were full.
PartFull(n) == BaseBatchSize
Part(n) == IF n < BaseBatchSize THEN n ELSE BaseBatchSize

\* ContinuousReader: one ReadFull of several messages.
ReadPart(c) ==
    LET n == Part(todo[c]) IN
    /\ ~panicked /\ reader[c] = "read" /\ todo[c] > 0 /\ Len(wire[c]) >= n
    /\ chunk' = Set(chunk, c, SubSeq(wire[c], 1, n))
    /\ wire' = [wire EXCEPT ![c] = SubSeq(@, n + 1, Len(@))]
    /\ todo' = Set(todo, c, IF todo[c] < n THEN 0 ELSE todo[c] - n) /\ reader' = Set(reader, c, "push")
    /\ UNCHANGED <<peer, handler, batch, buff, err, inHand, wg, pool, done, panicked>>

Push(c) ==
    /\ ~panicked /\ reader[c] = "push" /\ Len(buff[c]) < BuffCap
    /\ buff' = [buff EXCEPT ![c] = Append(@, Head(chunk[c]))]
    /\ chunk' = [chunk EXCEPT ![c] = Tail(@)]
    /\ reader' = Set(reader, c, IF Len(chunk[c]) = 1 THEN "read" ELSE "push")
    /\ UNCHANGED <<peer, wire, handler, batch, todo, err, inHand, wg, pool, done, panicked>>

\* Slip: the reader tries again instead of closing Buff.
EndedRetry == "read"
Ended == "ended"

\* The connection ends within the messages: Err is set and Buff closed.
ReadFails(c) ==
    /\ ~panicked /\ reader[c] = "read" /\ todo[c] > 0
    /\ c \in closed /\ Len(wire[c]) < Part(todo[c])
    /\ err' = Set(err, c, TRUE) /\ reader' = Set(reader, c, Ended)
    /\ UNCHANGED <<peer, wire, handler, batch, todo, chunk, buff, inHand, wg, pool, done, panicked>>

\* The signature is read without a look at the error; what does not verify is found
\* by CheckSignature.  Then Buff is closed.
ReadSignature(c) ==
    /\ ~panicked /\ reader[c] = "read" /\ todo[c] = 0
    /\ \/ /\ wire[c] # <<>> /\ wire' = [wire EXCEPT ![c] = Tail(@)]
          /\ err' = Set(err, c, Head(wire[c]) # Signature(c, batch[c].batch))
       \/ wire[c] = <<>> /\ c \in closed /\ err' = Set(err, c, TRUE) /\ UNCHANGED wire
    /\ reader' = Set(reader, c, Ended)
    /\ UNCHANGED <<peer, handler, batch, todo, chunk, buff, inHand, wg, pool, done, panicked>>

\* Slip: wg.Add is forgotten.
CountedNot(n) == n
Counted(n) == n + 1

\* WorkerPoolProcessStream: the next message of Buff is counted ...
TakeMessage(c) ==
    /\ ~panicked /\ handler[c] = "stream" /\ buff[c] # <<>>
    /\ inHand' = Set(inHand, c, Head(buff[c])) /\ buff' = [buff EXCEPT ![c] = Tail(@)]
    /\ wg' = [wg EXCEPT ![c] = Counted(@)] /\ handler' = Set(handler, c, "hand")
    /\ UNCHANGED <<peer, wire, batch, reader, todo, chunk, err, pool, done, panicked>>

\* ... and given to the pool.
AddJob(c) ==
    /\ ~panicked /\ handler[c] = "hand" /\ Len(jobs) < JobsCap
    /\ jobs' = Append(jobs, inHand[c]) /\ inHand' = Set(inHand, c, None)
    /\ handler' = Set(handler, c, "stream")
    /\ UNCHANGED <<peer, wire, batch, stream, wg, thread, processed, done, panicked>>

\* ProcessThread.
TakeJob(t) ==
    /\ ~panicked /\ thread[t] = None /\ jobs # <<>>
    /\ thread' = [thread EXCEPT ![t] = Head(jobs)] /\ jobs' = Tail(jobs)
    /\ UNCHANGED <<peer, wire, handler, batch, stream, inHand, wg, processed, done, panicked>>

ProcessJob(t) ==
    /\ ~panicked /\ thread[t] # None
    /\ processed' = Append(processed, thread[t])
    /\ wg' = [wg EXCEPT ![thread[t].conn] = @ - 1]
    /\ thread' = [thread EXCEPT ![t] = None]
    /\ UNCHANGED <<peer, wire, handler, batch, stream, inHand, jobs, done, panicked>>

\* Slip: only jobs that a thread has taken are waited for.
DrainedTaken(c) == {t \in Threads : thread[t] # None /\ thread[t].conn = c} = {}
Drained(c) == wg[c] = 0

\* Buff is closed and empty.  Without an error the jobs are waited for; in both cases
\* the deferred Done follows.
EndStream(c) ==
    /\ ~panicked /\ handler[c] = "stream" /\ reader[c] = "ended" /\ buff[c] = <<>>
    /\ err[c] \/ Drained(c)
    /\ done' = [done EXCEPT ![c] = @ + 1]
    /\ handler' = Set(handler, c, IF err[c] THEN "failed" ELSE "header")
    /\ reader' = Set(reader, c, "none") /\ batch' = Set(batch, c, None)
    /\ UNCHANGED <<peer, wire, todo, chunk, buff, err, inHand, wg, pool, panicked>>

\* HandleTcpStream: the error handler panics on a failed batch or header.
ErrorHandler(c) ==
    /\ ~panicked
    /\ handler[c] = "failed" \/ (handler[c] = "header" /\ wire[c] = <<>> /\ c \in closed)
    /\ panicked' = TRUE
    /\ UNCHANGED <<peer, wire, handler, batch, stream, inHand, wg, pool, done>>

Complete == \A c \in Conns : done[c] = Len(Batches[c]) /\ handler[c] = "header"

Connection(c) ==
    \/ Send(c) \/ ReadMetadata(c) \/ ReadPart(c) \/ Push(c) \/ ReadFails(c) \/ ReadSignature(c)
    \/ TakeMessage(c) \/ AddJob(c) \/ EndStream(c) \/ ErrorHandler(c)
Thread(t) == TakeJob(t) \/ ProcessJob(t)

Step == (\E c \in Conns : Connection(c)) \/ (\E t \in Threads : Thread(t))
Next == Step \/ \E c \in Conns : Close(c)

\* Every goroutine that can run does; all their steps are progress.
Spec == Init /\ [][Next]_vars /\ WF_vars(Step)

-----------------------------------------------------------------------------
Batch(c, b) == {Message(c, b, k) : k \in 1 .. Batches[c][b]}
Failed(c) == handler[c] = "failed"

\* Every part of the state keeps its type; no channel holds more than its capacity and
\* the WaitGroup counts exactly the jobs that are on their way.
TypeOK ==
    /\ closed \subseteq Conns /\ handler \in [Conns -> {"header", "stream", "hand", "failed"}]
    /\ reader \in [Conns -> {"none", "read", "push", "ended"}]
    /\ Len(jobs) <= JobsCap
    /\ \A c \in Conns :
          /\ Len(wire[c]) <= WireCap /\ Len(buff[c]) <= BuffCap
          /\ wg[c] = Cardinality({j \in Range(jobs) \cup Range(thread) \cup Range(inHand) :
                                     j # None /\ j.conn = c})

\* A header is read where a header begins and messages where messages are, whatever part
\* of a batch the reader, Buff and the pool are still busy with: each batch is taken from
\* the connection exactly up to its signature, also when its size is no multiple of
\* BaseBatchSize.
FramesAligned ==
    \A c \in Conns :
        /\ batch[c] # None => batch[c].kind = "header" /\ batch[c].batch = done[c] + 1
        /\ \A k \in DOMAIN chunk[c] : chunk[c][k].kind = "message"
        /\ err[c] => c \in closed

\* When Done is called for a batch that was received completely, all its messages have
\* been processed, each once, and none of a later batch.
WholeBatches ==
    \A c \in Conns : \A b \in DOMAIN Batches[c] :
        /\ (b <= done[c] /\ ~Failed(c)) => Batch(c, b) \subseteq Range(processed)
        /\ b > done[c] + 1 => Batch(c, b) \cap Range(processed) = {}
        /\ \A j \in Batch(c, b) : Cardinality({k \in DOMAIN processed : processed[k] = j}) <= 1

\* Frames and batches stay whole on every connection, whichever threads of the pool are
\* busy with which of them, and also while a connection breaks.
StreamInv == TypeOK /\ FramesAligned /\ WholeBatches

\* Full channels do not block each other: every batch is processed, unless a peer closes
\* its connection, and then the process panics.
Settled == Complete \/ (panicked /\ closed # {})
=============================================================================
