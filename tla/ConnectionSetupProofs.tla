------------------------ MODULE ConnectionSetupProofs ------------------------
(***************************************************************************)
(* For any number of servers: the ports of a local network do not collide  *)
(* below a bound, and over TLS every connection is in place on both sides  *)
(* when all RoundSetup calls have returned.                                *)
(***************************************************************************)
EXTENDS ConnectionSetup, TLAPS

\* Multiplication by N keeps the order.
LEMMA Monotone ==
    ASSUME NEW x \in Nat, NEW y \in Nat, NEW n \in Nat, x < y
    PROVE  x * n + n <= y * n
<1>1. PICK d \in Nat : y = x + 1 + d
  <2>1. y - x - 1 \in Nat /\ y = x + 1 + (y - x - 1)
    OBVIOUS
  <2>2. QED
    BY <2>1
<1>2. y * n = x * n + n + d * n
  BY <1>1
<1>3. d * n \in Nat /\ x * n \in Nat
  OBVIOUS
<1>4. QED
  BY <1>2, <1>3

\* NewLocalConfig and CalculateAddress: two accepting ports of a local network are
\* different unless server and peer are the same, for any number of servers.
THEOREM AcceptPortsDistinct ==
    ASSUME ConnectionAssumption,
           NEW s \in Servers, NEW t \in Servers, NEW p \in Servers, NEW q \in Servers,
           AcceptPort(s, p) = AcceptPort(t, q)
    PROVE  s = t /\ p = q
<1> N \in Nat /\ s \in Nat /\ t \in Nat /\ p \in Nat /\ q \in Nat /\ p < N /\ q < N
  BY DEF Servers, ConnectionAssumption
<1>0. s * N \in Nat /\ t * N \in Nat
  OBVIOUS
<1>1. s * N + p = t * N + q
  BY <1>0 DEF AcceptPort, PortOfServer, Base
<1>2. ~(s < t)
  BY <1>0, <1>1, Monotone
<1>3. ~(t < s)
  BY <1>0, <1>1, Monotone
<1>4. s = t
  BY <1>2, <1>3
<1>5. p = q
  BY <1>0, <1>1, <1>4
<1>6. QED
  BY <1>4, <1>5

\* While the gRPC ports stay below the first accepting port, no accepting port is a
\* gRPC port: local networks of up to 32 servers.
THEOREM GrpcPortsDistinct ==
    ASSUME ConnectionAssumption, N * (N - 1) < 1000,
           NEW s \in Servers, NEW t \in Servers, NEW p \in Servers
    PROVE  AcceptPort(s, p) # PortOfServer(t)
<1> N \in Nat /\ s \in Nat /\ t \in Nat /\ p \in Nat /\ t <= N - 1
  BY DEF Servers, ConnectionAssumption
<1>1. t * N <= (N - 1) * N
  <2>1. CASE t = N - 1
    BY <2>1
  <2>2. CASE t < N - 1
    <3>1. N - 1 \in Nat /\ t * N \in Nat
      BY <2>2
    <3>2. t * N + N <= (N - 1) * N
      BY <2>2, <3>1, Monotone
    <3>3. (N - 1) * N \in Int
      OBVIOUS
    <3>4. QED
      BY <3>1, <3>2, <3>3
  <2>3. QED
    BY <2>1, <2>2
<1>2. (N - 1) * N = N * (N - 1) /\ N * (N - 1) \in Int /\ t * N \in Nat /\ s * N \in Nat
  OBVIOUS
<1>3. t * N < 1000
  BY <1>1, <1>2
<1>4. QED
  BY <1>2, <1>3 DEF AcceptPort, PortOfServer, Base

-----------------------------------------------------------------------------
AcceptLabels == {"none", "start", "listening", "accepted", "reading", "done"}
DialLabels == {"none", "dial", "handshake", "write", "done"}

\* The types the argument needs.
LinkTypes ==
    /\ up \subseteq Servers /\ setup \subseteq Servers
    /\ accept \in [Servers -> [Servers -> AcceptLabels]]
    /\ dial \in [Servers -> [Servers -> DialLabels]]
    /\ incoming \in [Servers -> SUBSET Servers]
    /\ outgoing \in [Servers -> SUBSET Servers]
    /\ reader \in [Servers -> [Servers -> {"none", "header", "ok", "garbled"}]]

\* The accepting goroutine has stored its connection before it reads.
AcceptStored ==
    \A s, t \in Servers : accept[s][t] \in {"reading", "done"} => t \in incoming[s]

\* Dial returns only after the other side has stored the connection.
DialStored ==
    \A s, t \in Servers : dial[s][t] \in {"write", "done"} => t \in outgoing[s] /\ s \in incoming[t]

\* RoundSetup has waited for all goroutines of LaunchConnects; readers wait for setup.
SetupWaited == \A s \in setup, t \in Servers : dial[s][t] = "done"
ReadersWait == \A s, t \in Servers : reader[s][t] # "none" => setup = Servers
NoNilConnection == "nil connection" \notin panicked

LinkInv ==
    /\ LinkTypes /\ AcceptStored /\ DialStored /\ SetupWaited /\ ReadersWait /\ NoNilConnection

\* NewConnectionManager leaves every server with the connection to itself only.
LEMMA InitLink == Init => LinkInv
BY DEF Init, LinkInv, LinkTypes, AcceptStored, DialStored, SetupWaited, ReadersWait, NoNilConnection,
       AcceptLabels, DialLabels, Pairs

\* What all servers being set up gives.
LEMMA SetupLinks ==
    ASSUME LinkInv, setup = Servers
    PROVE  \A s \in Servers : outgoing[s] = Servers /\ incoming[s] = Servers
<1> SUFFICES ASSUME NEW s \in Servers
             PROVE  outgoing[s] = Servers /\ incoming[s] = Servers
  OBVIOUS
<1>1. \A t \in Servers : t \in outgoing[s] /\ t \in incoming[s]
  BY DEF LinkInv, DialStored, SetupWaited
<1>2. outgoing[s] \in SUBSET Servers /\ incoming[s] \in SUBSET Servers
  BY DEF LinkInv, LinkTypes
<1>3. QED
  BY <1>1, <1>2

\* A step of a server as a whole keeps the invariant.
LEMMA ServerLink ==
    ASSUME ~Mock, LinkInv, NEW s \in Servers, Server(s)
    PROVE  LinkInv'
<1> USE DEF LinkInv
<1>1. CASE LaunchAccepts(s)
  <2>1. accept' \in [Servers -> [Servers -> AcceptLabels]]
    BY <1>1 DEF LaunchAccepts, LinkTypes, AcceptLabels
  <2>2. LinkTypes'
    BY <1>1, <2>1 DEF LaunchAccepts, LinkTypes, rounds
  <2>3. \A a, b \in Servers : accept'[a][b] \in {"reading", "done"} => accept[a][b] = accept'[a][b]
    BY <1>1 DEF LaunchAccepts, LinkTypes
  <2>4. AcceptStored'
    BY <1>1, <2>3 DEF LaunchAccepts, AcceptStored
  <2>5. QED
    BY <1>1, <2>2, <2>4 DEF LaunchAccepts, rounds, DialStored, SetupWaited, ReadersWait, NoNilConnection
<1>2. CASE LaunchConnects(s)
  <2>1. dial' \in [Servers -> [Servers -> DialLabels]]
    BY <1>2 DEF LaunchConnects, LinkTypes, DialLabels
  <2>2. LinkTypes'
    BY <1>2, <2>1 DEF LaunchConnects, LinkTypes, rounds
  <2>3. \A a, b \in Servers : dial'[a][b] \in {"write", "done"} => dial[a][b] = dial'[a][b]
    BY <1>2 DEF LaunchConnects, LinkTypes
  <2>4. \A a \in Servers \ {s} : dial'[a] = dial[a]
    BY <1>2 DEF LaunchConnects, LinkTypes
  <2>5. DialStored'
    BY <1>2, <2>3 DEF LaunchConnects, DialStored
  <2>6. SetupWaited'
    BY <1>2, <2>4 DEF LaunchConnects, SetupWaited, LinkTypes
  <2>7. QED
    BY <1>2, <2>2, <2>5, <2>6 DEF LaunchConnects, rounds, AcceptStored, ReadersWait, NoNilConnection
<1>3. CASE SetupReturns(s)
  <2>1. setup' = setup \cup {s} /\ \A t \in Servers : dial[s][t] = "done"
    BY <1>3 DEF SetupReturns, Waited
  <2>2. LinkTypes'
    BY <1>3, <2>1 DEF SetupReturns, links, rounds, LinkTypes
  <2>3. setup = Servers => setup' = Servers
    BY <2>1
  <2>4. ReadersWait'
    BY <1>3, <2>3 DEF SetupReturns, rounds, ReadersWait
  <2>5. SetupWaited'
    BY <1>3, <2>1 DEF SetupReturns, links, SetupWaited
  <2>6. QED
    BY <1>3, <2>2, <2>4, <2>5 DEF SetupReturns, links, AcceptStored, DialStored, NoNilConnection
<1>4. CASE StartReaders(s)
  <2>1. setup = Servers /\ setup' = setup
    BY <1>4 DEF StartReaders, AllSetUp
  <2>2. reader' \in [Servers -> [Servers -> {"none", "header", "ok", "garbled"}]]
    BY <1>4, SMTT(40) DEF StartReaders, LinkTypes
  <2>3. QED
    BY <1>4, <2>1, <2>2 DEF StartReaders, links, LinkTypes, AcceptStored, DialStored,
          SetupWaited, ReadersWait, NoNilConnection
<1>5. QED
  BY <1>1, <1>2, <1>3, <1>4, SMTT(40) DEF Server

\* A step of one connection keeps the invariant.
LEMMA LinkStep ==
    ASSUME ~Mock, LinkInv, NEW s \in Servers, NEW t \in Servers, Link(s, t)
    PROVE  LinkInv'
<1> USE DEF LinkInv
<1>1. CASE Listen(s, t)
  BY <1>1 DEF Listen, Accepts, rounds, LinkTypes, AcceptStored, DialStored, SetupWaited,
        ReadersWait, NoNilConnection, AcceptLabels
<1>2. CASE Reach(s, t)
  <2>1. LinkTypes'
    BY <1>2 DEF Reach, Accepts, Dials, rounds, LinkTypes, AcceptLabels, DialLabels
  <2>2. AcceptStored'
    BY <1>2 DEF Reach, Accepts, LinkTypes, AcceptStored
  <2>3. \A a, b \in Servers : dial'[a][b] = IF a = s /\ b = t THEN "handshake" ELSE dial[a][b]
    BY <1>2 DEF Reach, Dials, LinkTypes
  <2>4. DialStored'
    BY <1>2, <2>3 DEF Reach, DialStored
  <2>5. SetupWaited'
    BY <1>2, <2>3 DEF Reach, SetupWaited, LinkTypes
  <2>6. QED
    BY <1>2, <2>1, <2>2, <2>4, <2>5 DEF Reach, rounds, ReadersWait, NoNilConnection
<1>3. CASE Refused(s, t)
  BY <1>3 DEF Refused, links, rounds, LinkTypes, AcceptStored, DialStored, SetupWaited,
        ReadersWait, NoNilConnection
<1>4. CASE Store(s, t)
  <2>1. incoming' = [incoming EXCEPT ![s] = @ \cup {t}]
    BY <1>4 DEF Store, Stored
  <2>2. \A a, b \in Servers : accept'[a][b] = IF a = s /\ b = t THEN "reading" ELSE accept[a][b]
    BY <1>4 DEF Store, Accepts, LinkTypes
  <2>3. \A a \in Servers : incoming[a] \subseteq incoming'[a]
    BY <2>1 DEF LinkTypes
  <2>4. LinkTypes'
    BY <1>4, <2>1 DEF Store, Accepts, rounds, LinkTypes, AcceptLabels
  <2>5. AcceptStored'
    BY <2>1, <2>2, <2>3, SMTT(40) DEF AcceptStored, LinkTypes
  <2>6. DialStored'
    BY <1>4, <2>3, SMTT(40) DEF Store, DialStored
  <2>7. QED
    BY <1>4, <2>4, <2>5, <2>6 DEF Store, rounds, SetupWaited, ReadersWait, NoNilConnection
<1>5. CASE Dialled(s, t)
  <2>1. s \in incoming[t]
    BY <1>5 DEF Dialled, AcceptStored
  <2>2. outgoing' = [outgoing EXCEPT ![s] = @ \cup {t}] /\ UNCHANGED <<incoming, accept, setup>>
    BY <1>5 DEF Dialled
  <2>3. \A a, b \in Servers : dial'[a][b] = IF a = s /\ b = t THEN "write" ELSE dial[a][b]
    BY <1>5 DEF Dialled, Dials, LinkTypes
  <2>4. LinkTypes'
    BY <1>5, <2>2 DEF Dialled, Dials, rounds, LinkTypes, DialLabels
  <2>5. \A a \in Servers : outgoing[a] \subseteq outgoing'[a]
    BY <2>2 DEF LinkTypes
  <2>6. t \in outgoing'[s]
    BY <2>2 DEF LinkTypes
  <2>7. DialStored'
    BY <2>1, <2>2, <2>3, <2>5, <2>6, SMTT(40) DEF DialStored
  <2>8. SetupWaited'
    BY <1>5, <2>2, <2>3, SMTT(40) DEF Dialled, SetupWaited, LinkTypes
  <2>9. QED
    BY <1>5, <2>2, <2>4, <2>7, <2>8 DEF Dialled, rounds, AcceptStored, ReadersWait, NoNilConnection
<1>6. CASE WriteId(s, t)
  <2>1. \A a, b \in Servers : dial'[a][b] = IF a = s /\ b = t THEN "done" ELSE dial[a][b]
    BY <1>6 DEF WriteId, Dials, LinkTypes
  <2>2. LinkTypes'
    BY <1>6 DEF WriteId, Dials, rounds, LinkTypes, DialLabels
  <2>3. DialStored'
    BY <1>6, <2>1 DEF WriteId, DialStored
  <2>4. SetupWaited'
    BY <1>6, <2>1 DEF WriteId, SetupWaited, LinkTypes
  <2>5. QED
    BY <1>6, <2>2, <2>3, <2>4 DEF WriteId, rounds, AcceptStored, ReadersWait, NoNilConnection
<1>7. CASE ReadId(s, t)
  <2>1. \A a, b \in Servers : accept'[a][b] = IF a = s /\ b = t THEN "done" ELSE accept[a][b]
    BY <1>7 DEF ReadId, Accepts, LinkTypes
  <2>2. incoming' = [incoming EXCEPT ![s] = @ \cup {t}]
    BY <1>7 DEF ReadId
  <2>3. \A a \in Servers : incoming[a] \subseteq incoming'[a]
    BY <2>2 DEF LinkTypes
  <2>4. LinkTypes'
    <3>1. incoming' \in [Servers -> SUBSET Servers]
      BY <2>2 DEF LinkTypes
    <3>2. accept' \in [Servers -> [Servers -> AcceptLabels]]
      BY <1>7 DEF ReadId, Accepts, LinkTypes, AcceptLabels
    <3>3. QED
      BY <1>7, <3>1, <3>2 DEF ReadId, rounds, LinkTypes
  <2>5. AcceptStored'
    BY <2>1, <2>2, <2>3, SMTT(40) DEF AcceptStored, LinkTypes
  <2>6. DialStored'
    BY <1>7, <2>3 DEF ReadId, DialStored
  <2>7. NoNilConnection'
    BY <1>7 DEF ReadId, NoNilConnection
  <2>8. QED
    BY <1>7, <2>4, <2>5, <2>6, <2>7 DEF ReadId, rounds, SetupWaited, ReadersWait
<1>8. CASE Send(s, t)
  <2>1. setup = Servers
    BY <1>8 DEF Send, ReadersWait
  <2>2. t \in outgoing[s]
    BY <2>1, SetupLinks, SMTT(40)
  <2>3. QED
    BY <1>8, <2>2 DEF Send, links, LinkTypes, AcceptStored, DialStored, SetupWaited,
          ReadersWait, NoNilConnection
<1>9. CASE ReadMetadata(s, t)
  <2>1. setup = Servers
    BY <1>9 DEF ReadMetadata, ReadersWait
  <2>2. t \in incoming[s]
    BY <2>1, SetupLinks, SMTT(40)
  <2>3. UNCHANGED panicked
    BY <1>9, <2>2 DEF ReadMetadata
  <2>4. QED
    BY <1>9, <2>3 DEF ReadMetadata, links, LinkTypes, AcceptStored, DialStored, SetupWaited,
          ReadersWait, NoNilConnection
<1>10. CASE InterpretFrom(s, t)
  <2>1. setup = Servers /\ setup' = setup
    BY <1>10 DEF InterpretFrom, ReadersWait
  <2>2. reader' \in [Servers -> [Servers -> {"none", "header", "ok", "garbled"}]]
    BY <1>10 DEF InterpretFrom, LinkTypes
  <2>3. QED
    BY <1>10, <2>1, <2>2 DEF InterpretFrom, links, LinkTypes, AcceptStored, DialStored,
          SetupWaited, ReadersWait, NoNilConnection
<1>11. QED
  BY <1>1, <1>2, <1>3, <1>4, <1>5, <1>6, <1>7, <1>8, <1>9, <1>10, SMTT(40) DEF Link

\* LinkInv is an invariant of servers that connect over TLS.
LEMMA LinkInvariant == ASSUME ~Mock PROVE Spec => []LinkInv
<1>1. LinkInv /\ [Next]_vars => LinkInv'
  <2> SUFFICES ASSUME LinkInv, [Next]_vars PROVE LinkInv'
    OBVIOUS
  <2>1. CASE UNCHANGED vars
    BY <2>1 DEF vars, LinkInv, LinkTypes, AcceptStored, DialStored, SetupWaited, ReadersWait,
          NoNilConnection
  <2>2. ASSUME NEW s \in Servers, Server(s) PROVE LinkInv'
    BY <2>2, ServerLink
  <2>3. ASSUME NEW s \in Servers, NEW t \in Servers, Link(s, t) PROVE LinkInv'
    BY <2>3, LinkStep
  <2>4. QED
    BY <2>1, <2>2, <2>3 DEF Next
<1>2. QED
  BY <1>1, InitLink, PTL DEF Spec

\* Over TLS, for any number of servers: once every RoundSetup has returned every
\* connection is stored on both sides, and no server ever uses a missing one.
THEOREM TlsConnected == ASSUME ~Mock PROVE Spec => []ConnectedAfterSetup
<1>1. LinkInv => ConnectedAfterSetup
  BY SetupLinks DEF ConnectedAfterSetup, LinkInv, NoNilConnection
<1>2. QED
  BY <1>1, LinkInvariant, PTL

\* In a local network of up to 32 servers no two listeners ever collide.
THEOREM ListenersDistinct ==
    ASSUME ConnectionAssumption, ~Mock, N * (N - 1) < 1000
    PROVE  Spec => []PortsInUseDistinct
<1>1. LinkInv => PortsInUseDistinct
  <2> SUFFICES ASSUME LinkInv, NEW p \in Servers \X Servers
               PROVE  /\ \A q \in Servers \X Servers :
                           AcceptPort(p[1], p[2]) = AcceptPort(q[1], q[2]) => p = q
                      /\ \A s \in up : AcceptPort(p[1], p[2]) # PortOfServer(s)
    BY DEF PortsInUseDistinct
  <2>1. p[1] \in Servers /\ p[2] \in Servers
    OBVIOUS
  <2>2. ASSUME NEW q \in Servers \X Servers, AcceptPort(p[1], p[2]) = AcceptPort(q[1], q[2])
        PROVE  p = q
    <3>1. p[1] = q[1] /\ p[2] = q[2]
      BY <2>1, <2>2, AcceptPortsDistinct, SMTT(40)
    <3>2. QED
      BY <3>1
  <2>3. ASSUME NEW s \in up PROVE AcceptPort(p[1], p[2]) # PortOfServer(s)
    BY <2>1, GrpcPortsDistinct DEF LinkInv, LinkTypes
  <2>4. QED
    BY <2>2, <2>3
<1>2. QED
  BY <1>1, LinkInvariant, PTL
=============================================================================
