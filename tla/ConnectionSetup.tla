--------------------------- MODULE ConnectionSetup ---------------------------
(***************************************************************************)
(* How servers connect: network/tls.go, tls_direct.go and mockconn.go with *)
(* cmd/server (main), Server.Connect and the first RoundStart.             *)
(*                                                                         *)
(* Each server accepts one connection from every other and dials one to    *)
(* every other, in a goroutine per peer.  The dialling side then writes    *)
(* its id, the accepting goroutine reads it.  Nothing orders this read     *)
(* before the read of the first message header, which a reader started by  *)
(* RoundStart makes on the same connection.                                *)
(*                                                                         *)
(* A connection carries units of four bytes: an id is one unit, the header *)
(* of a message HeaderUnits.                                               *)
(***************************************************************************)
EXTENDS Integers, Sequences, FiniteSets

CONSTANTS
    N,           \* number of servers
    Mock,        \* in one process: connections are memory buffers
    HeaderUnits, \* Metadata_size in units
    Prompt       \* goroutines run before the coordinator's next call

ConnectionAssumption ==
    N \in Nat \ {0} /\ HeaderUnits \in Nat \ {0} /\ Mock \in BOOLEAN /\ Prompt \in BOOLEAN

Servers == 0 .. N - 1
Peers(s) == Servers \ {s}

\* NewLocalConfig, StartServer and CalculateAddress: the ports of a local network.
Base == 8000
PortOfServer(s) == Base + s * N
\* Slip: the offset from the gRPC ports is forgotten.
AcceptPortNear(s, from) == PortOfServer(s) + from
AcceptPort(s, from) == PortOfServer(s) + from + 1000

VARIABLES
    up,       \* servers whose gRPC port answers
    accept,   \* accept[s][from]: the goroutine of LaunchAccepts
    dial,     \* dial[s][to]: the goroutine of LaunchConnects
    incoming, \* incoming[s]: peers with an entry in IncomingConnections
    outgoing, \* outgoing[s]: peers with an entry in OutgoingConnections
    wire,     \* wire[from][to]: units written and not read yet
    setup,    \* servers whose RoundSetup has returned
    reader,   \* reader[s][from]: HandleTcpStream: "none", "header", "ok", "garbled"
    header,   \* units it has read
    sent,     \* sent[s]: peers the first message has been sent to
    panicked  \* why a process has panicked

vars == <<up, accept, dial, incoming, outgoing, wire, setup, reader, header, sent, panicked>>
links == <<accept, dial, incoming, outgoing>>
rounds == <<reader, header, sent>>

Pairs(v) == [s \in Servers |-> [t \in Servers |-> v]]

\* The connection of a server to itself is made by NewConnectionManager.
Init ==
    /\ up = {} /\ setup = {} /\ panicked = {}
    /\ accept = [s \in Servers |-> [t \in Servers |-> IF s = t THEN "done" ELSE "none"]]
    /\ dial = [s \in Servers |-> [t \in Servers |-> IF s = t THEN "done" ELSE "none"]]
    /\ incoming = [s \in Servers |-> {s}] /\ outgoing = [s \in Servers |-> {s}]
    /\ wire = Pairs(<<>>) /\ reader = Pairs("none") /\ header = Pairs(<<>>)
    /\ sent = [s \in Servers |-> {}]

Running == panicked = {}
\* The unit that holds the id of the peer; the units of a header are numbered.
Id == 0
Accepts(s, t, label) == accept' = [accept EXCEPT ![s][t] = label]
Dials(s, t, label) == dial' = [dial EXCEPT ![s][t] = label]

\* main of cmd/server: LaunchAccepts, then StartServer.  In one process all servers
\* are built, SetMock launches the accepts.
LaunchAccepts(s) ==
    /\ Running /\ s \notin up
    /\ up' = up \cup {s}
    /\ accept' = [accept EXCEPT ![s] = [t \in Servers |-> IF t = s THEN @[t] ELSE "start"]]
    /\ UNCHANGED <<dial, incoming, outgoing, wire, setup, rounds, panicked>>

\* tls.Listen, or the registration of MockListen: dialling is possible from here on.
Listen(s, t) ==
    /\ Running /\ accept[s][t] = "start"
    /\ Accepts(s, t, IF Mock THEN "accepted" ELSE "listening")
    /\ UNCHANGED <<up, dial, incoming, outgoing, wire, setup, rounds, panicked>>

\* LaunchConnects: within RoundSetup of each server, or one after the other while the
\* servers of one process are set up.
LaunchConnects(s) ==
    /\ Running /\ \A t \in Peers(s) : dial[s][t] = "none"
    /\ IF Mock THEN up = Servers /\ \A t \in 0 .. s - 1 : t \in setup ELSE Servers \subseteq up
    /\ Prompt => \A t \in Peers(s) : accept[t][s] # "start"
    /\ s \notin setup
    /\ dial' = [dial EXCEPT ![s] = [t \in Servers |-> IF t = s THEN @[t] ELSE "dial"]]
    /\ UNCHANGED <<up, accept, incoming, outgoing, wire, setup, rounds, panicked>>

\* tls.Dial reaches the listener, which returns the connection to Accept.
Reach(s, t) ==
    /\ Running /\ ~Mock /\ dial[s][t] = "dial" /\ accept[t][s] = "listening"
    /\ Accepts(t, s, "accepted") /\ Dials(s, t, "handshake")
    /\ UNCHANGED <<up, incoming, outgoing, wire, setup, rounds, panicked>>

\* Nobody listens yet: tls.Dial returns an error.
Refused(s, t) ==
    /\ Running /\ ~Mock /\ dial[s][t] = "dial" /\ accept[t][s] = "start"
    /\ panicked' = panicked \cup {"refused"}
    /\ UNCHANGED <<up, links, wire, setup, rounds>>

\* Slip: the connection is stored after the id has been read.
StoredAtLast(s, t) == FALSE
Stored(s, t) == TRUE

\* The accepting goroutine stores the connection and reads: over TLS the first read
\* does the handshake.
Store(s, t) ==
    /\ Running /\ accept[s][t] = "accepted"
    /\ incoming' = [incoming EXCEPT ![s] = IF Stored(s, t) THEN @ \cup {t} ELSE @]
    /\ Accepts(s, t, "reading")
    /\ UNCHANGED <<up, dial, outgoing, wire, setup, rounds, panicked>>

\* Dial returns when the other side does the handshake, MockConnect when the
\* connection is registered.
Dialled(s, t) ==
    /\ Running
    /\ IF Mock THEN dial[s][t] = "dial" /\ accept[t][s] \notin {"none", "start"}
               ELSE dial[s][t] = "handshake" /\ accept[t][s] = "reading"
    /\ outgoing' = [outgoing EXCEPT ![s] = @ \cup {t}]
    /\ Dials(s, t, "write")
    /\ UNCHANGED <<up, accept, incoming, wire, setup, rounds, panicked>>

WriteId(s, t) ==
    /\ Running /\ dial[s][t] = "write"
    /\ wire' = [wire EXCEPT ![s][t] = Append(@, Id)]
    /\ Dials(s, t, "done")
    /\ UNCHANGED <<up, accept, incoming, outgoing, setup, rounds, panicked>>

\* Slip: LaunchConnects does not wait for its goroutines.
WaitedForNone(s) == \E t \in Servers : dial[s][t] = "done"
Waited(s) == \A t \in Servers : dial[s][t] = "done"

\* wg.Wait: RoundSetup returns.
SetupReturns(s) ==
    /\ Running /\ s \notin setup /\ Waited(s)
    /\ \A t \in Peers(s) : dial[s][t] # "none"
    /\ setup' = setup \cup {s}
    /\ UNCHANGED <<up, links, wire, rounds, panicked>>

\* Slip: the id is checked but stays in the stream.
ConsumedNot(q) == q
Consumed(q) == Tail(q)

\* The accepting goroutine reads the id of its peer and checks it.
ReadId(s, t) ==
    /\ Running /\ accept[s][t] = "reading" /\ wire[t][s] # <<>>
    /\ Accepts(s, t, "done")
    /\ wire' = [wire EXCEPT ![t][s] = Consumed(@)]
    /\ panicked' = IF Head(wire[t][s]) = Id THEN panicked ELSE panicked \cup {"wrong server"}
    /\ incoming' = [incoming EXCEPT ![s] = @ \cup {t}]
    /\ UNCHANGED <<up, dial, outgoing, setup, rounds>>

AllSetUp == setup = Servers

\* The first RoundStart starts a reader per server.
StartReaders(s) ==
    /\ Running /\ AllSetUp /\ reader[s][s] = "none"
    /\ Prompt => \A a, b \in Servers : accept[a][b] = "done"
    /\ reader' = [reader EXCEPT ![s] = [t \in Servers |-> "header"]]
    /\ UNCHANGED <<up, links, wire, setup, header, sent, panicked>>

Header == [k \in 1 .. HeaderUnits |-> k]

\* SendShuffleMessages writes to all servers, the header first.
Send(s, t) ==
    /\ Running /\ reader[s][s] # "none" /\ t \notin sent[s]
    /\ IF t \in outgoing[s]
       THEN /\ wire' = [wire EXCEPT ![s][t] = @ \o Header]
            /\ sent' = [sent EXCEPT ![s] = @ \cup {t}]
            /\ UNCHANGED panicked
       ELSE panicked' = panicked \cup {"nil connection"} /\ UNCHANGED <<wire, sent>>
    /\ UNCHANGED <<up, links, setup, reader, header>>

\* ReadMetadata: io.ReadFull takes what is there, a memory buffer waits for all of it.
ReadMetadata(s, t) ==
    /\ Running /\ reader[s][t] = "header" /\ Len(header[s][t]) < HeaderUnits
    /\ IF t \notin incoming[s]
       THEN panicked' = panicked \cup {"nil connection"} /\ UNCHANGED <<wire, header>>
       ELSE LET k == IF Mock THEN HeaderUnits ELSE 1 IN
            /\ Len(wire[t][s]) >= k
            /\ header' = [header EXCEPT ![s][t] = @ \o SubSeq(wire[t][s], 1, k)]
            /\ wire' = [wire EXCEPT ![t][s] = SubSeq(@, k + 1, Len(@))]
            /\ UNCHANGED panicked
    /\ UNCHANGED <<up, links, setup, reader, sent>>

InterpretFrom(s, t) ==
    /\ Running /\ reader[s][t] = "header" /\ Len(header[s][t]) = HeaderUnits
    /\ reader' = [reader EXCEPT ![s][t] = IF header[s][t] = Header THEN "ok" ELSE "garbled"]
    /\ UNCHANGED <<up, links, wire, setup, header, sent, panicked>>

Link(s, t) ==
    \/ Listen(s, t) \/ Reach(s, t) \/ Refused(s, t) \/ Store(s, t) \/ Dialled(s, t)
    \/ WriteId(s, t) \/ ReadId(s, t) \/ Send(s, t) \/ ReadMetadata(s, t) \/ InterpretFrom(s, t)

Server(s) == LaunchAccepts(s) \/ LaunchConnects(s) \/ SetupReturns(s) \/ StartReaders(s)

Next == \/ \E s \in Servers : Server(s)
        \/ \E s, t \in Servers : Link(s, t)

\* All processes are started and every goroutine that can run does.
Spec == /\ Init /\ [][Next]_vars
        /\ \A s \in Servers : WF_vars(Server(s))
        /\ \A s, t \in Servers : WF_vars(Link(s, t))

-----------------------------------------------------------------------------
\* Every part of the state keeps its type.
TypeOK ==
    /\ up \subseteq Servers /\ setup \subseteq Servers
    /\ \A s, t \in Servers :
          /\ accept[s][t] \in {"none", "start", "listening", "accepted", "reading", "done"}
          /\ dial[s][t] \in {"none", "dial", "handshake", "write", "done"}
          /\ reader[s][t] \in {"none", "header", "ok", "garbled"}
          /\ Len(wire[s][t]) <= HeaderUnits + 1 /\ Len(header[s][t]) <= HeaderUnits
    /\ \A s \in Servers : incoming[s] \subseteq Servers /\ outgoing[s] \subseteq Servers
                          /\ sent[s] \subseteq Servers
    /\ panicked \subseteq {"refused", "wrong server", "nil connection"}

\* When every RoundSetup has returned no server sends to or reads from a connection
\* that is not there, although LaunchConnects waits for the dialling side only: over
\* TLS the dialling side returns after the accepting side has stored the connection.
ConnectedAfterSetup ==
    /\ setup = Servers => \A s \in Servers :
          outgoing[s] = Servers /\ (Mock \/ incoming[s] = Servers)
    /\ "nil connection" \notin panicked

\* No two listeners of a local network have the same port, and none has the gRPC port
\* of a server.
PortsInUseDistinct ==
    LET open == {p \in Servers \X Servers : accept[p[1]][p[2]] = "listening"} IN
    \A p \in open :
        /\ \A q \in open : AcceptPort(p[1], p[2]) = AcceptPort(q[1], q[2]) => p = q
        /\ \A s \in up : AcceptPort(p[1], p[2]) # PortOfServer(s)

\* What the first RoundStart relies on: connections that are there, on ports of their own.
ConnectInv == TypeOK /\ ConnectedAfterSetup /\ PortsInUseDistinct

\* The check "Wrong server connected to accept" never fails, since every connection is
\* dialled by the server it is accepted from.
RightServerConnected == "wrong server" \notin panicked

\* Every server gets the first message of every server.
FirstMessagesIn == \A s, t \in Servers : reader[s][t] = "ok"
=============================================================================
