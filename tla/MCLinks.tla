------------------------------- MODULE MCLinks -------------------------------
(***************************************************************************)
(* How messages travel between servers: connections are set up, a layer's  *)
(* messages are buffered and cut into chunks, batches pass a connection    *)
(* and the pool.  The parts share no state, so a behaviour is one of a     *)
(* single part, chosen at the start; the variables of the others keep      *)
(* their initial values.                                                   *)
(***************************************************************************)
EXTENDS LinkStream

VARIABLES
    part,
    up, accept, dial, incoming, outgoing, link_wire, setup, link_reader, header, sent, link_panicked,
    data, refused, numElements, permutation, position, element, offset, count, first, out

\* Two connections that share the pool and may break.  Batches of no, one and more
\* messages than are read at once.
MCBatches == << <<3, 0>>, <<1>> >>

\* Two servers connect over TLS; goroutines that accept run before the coordinator's next
\* call, over TLS or in memory.
Tls == INSTANCE ConnectionSetup WITH
    N <- 2, Mock <- FALSE, HeaderUnits <- 2, Prompt <- FALSE,
    wire <- link_wire, reader <- link_reader, panicked <- link_panicked
Prompted == INSTANCE ConnectionSetup WITH
    N <- 2, Mock <- FALSE, HeaderUnits <- 2, Prompt <- TRUE,
    wire <- link_wire, reader <- link_reader, panicked <- link_panicked
InProcess == INSTANCE ConnectionSetup WITH
    N <- 2, Mock <- TRUE, HeaderUnits <- 2, Prompt <- TRUE,
    wire <- link_wire, reader <- link_reader, panicked <- link_panicked

\* More messages than the buffer has room for; fewer, with dummies.
Overflowing == INSTANCE MemReadWriter WITH
    Messages <- {"m1", "m2", "m3"}, NumElements <- 2, ElementLength <- 3,
    ChunkSizes <- {1, 2, 3, 4, 5, 7}, Dummies <- FALSE
FilledUp == INSTANCE MemReadWriter WITH
    Messages <- {"m1", "m2"}, NumElements <- 4, ElementLength <- 2,
    ChunkSizes <- {1, 2, 3, 5}, Dummies <- TRUE

ASSUME StreamAssumption
ASSUME Tls!ConnectionAssumption /\ Prompted!ConnectionAssumption /\ InProcess!ConnectionAssumption
ASSUME Overflowing!BufferAssumption /\ FilledUp!BufferAssumption

Connections == <<up, accept, dial, incoming, outgoing, link_wire, setup, link_reader, header, sent,
                 link_panicked>>
Buffers == <<data, refused, numElements, permutation, position, element, offset, count, first, out>>
all == <<part, vars, Connections, Buffers>>

MCInit ==
    /\ part \in {"tls", "prompt", "in process", "streams", "overflowing", "filled up"}
    /\ Init
    /\ Tls!Init
    /\ IF part = "filled up" THEN FilledUp!Init ELSE Overflowing!Init

Setup == /\ \/ part = "tls" /\ Tls!Next
            \/ part = "prompt" /\ Prompted!Next
            \/ part = "in process" /\ InProcess!Next
         /\ UNCHANGED <<part, vars, Buffers>>
\* Steps of the streams other than a peer's failure.
Pass == part = "streams" /\ Step /\ UNCHANGED <<part, Connections, Buffers>>
MCNext ==
    \/ Setup
    \/ Pass
    \/ /\ part = "streams" /\ \E c \in Conns : Close(c)
       /\ UNCHANGED <<part, Connections, Buffers>>
    \/ /\ \/ part = "overflowing" /\ Overflowing!Next
          \/ part = "filled up" /\ FilledUp!Next
       /\ UNCHANGED <<part, vars, Connections>>

MCSpec == MCInit /\ [][MCNext]_all /\ WF_all(Setup \/ Pass)

-----------------------------------------------------------------------------
\* When all RoundSetup calls have returned every connection is there and no two listeners
\* share a port (ConnectInv of tls_direct.go, for each way to connect).
SetupInv == /\ part \in {"tls", "prompt"} => Tls!ConnectInv
            /\ part = "in process" => InProcess!ConnectInv

\* Every server gets the first message of every server, if goroutines that accept run
\* before the coordinator's next call.
FirstMessagesArrive == <>(part \in {"prompt", "in process"} => Tls!FirstMessagesIn)

\* Full channels do not block each other: every batch is processed, or the process panics
\* since a peer has closed its connection (batching.go and pool.go).
StreamsEnd == <>(part = "streams" => Settled)

\* Accepted messages are sent, whole and in the shuffled order (BufferInv of inMemory.go).
BufferInv == /\ part = "overflowing" => Overflowing!BufferInv
             /\ part = "filled up" => FilledUp!BufferInv
=============================================================================
