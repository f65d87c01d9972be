---------------------- MODULE CheckpointExchangeProofs ----------------------
(***************************************************************************)
(* For any servers, groups and buffers: a group is decrypted with the      *)
(* shares of all its members, whatever order the replies come in.          *)
(***************************************************************************)
EXTENDS CheckpointExchange, SequenceLemmas, FiniteSetTheorems, TLAPS

-----------------------------------------------------------------------------
(* The sizes of finite sets.                                               *)

\* A leaf that names no prover is for SMT, tried again with more time when it fails.
USE SMTT(30), SMTT(40), SMTT(50)

\* A sequence without repetitions is as long as the set of its elements.
LEMMA DistinctLength ==
    ASSUME NEW S, NEW s \in Seq(S), Distinct(s)
    PROVE  Cardinality(Elements(s)) = Len(s)
<1>1. Len(s) \in Nat /\ s \in [1 .. Len(s) -> Elements(s)]
  BY DEF Elements
<1>2. s \in Bijection(1 .. Len(s), Elements(s))
  BY <1>1, Zenon DEF Distinct, Elements, Bijection, Injection, Surjection, IsInjective
<1>3. ExistsBijection(1 .. Len(s), Elements(s))
  BY <1>2, Zenon DEF ExistsBijection
<1>4. QED
  BY <1>1, <1>3, FS_CountingElements, Zenon

\* A finite set that has no elements left.
LEMMA EmptyWhenZero ==
    ASSUME NEW M, NEW x, IsFiniteSet(M \ {x}), Cardinality(M \ {x}) = 0
    PROVE  M \ {x} = {}
BY FS_EmptySet, Zenon

-----------------------------------------------------------------------------
(* The inductive invariant.                                                *)

\* The message with the handler of the connection from a to b.
Handled(a, b) == IF handling[<<a, b>>] = None THEN <<>> ELSE <<handling[<<a, b>>]>>

\* What a has still to write to b.
Unwritten(a, b) ==
    IF b \in jobs[a] THEN reverseGroups[a][b]
    ELSE IF current[a] # Idle /\ current[a].to = b THEN current[a].rest
    ELSE <<>>

\* The groups of b whose reply a has not read, in the order of a's caller:
\* answered, with the handler, in the buffers, not written yet.
Queue(a, b) == reply[<<a, b>>] \o (Handled(a, b) \o (link[<<a, b>>] \o Unwritten(a, b)))

\* The members of a group whose reply a has not read.
Missing(a, g) == {b \in Members[g] : g \in Elements(Queue(a, b))}

\* The types of the variables.
Types ==
    /\ reverseGroups \in [Servers -> [Servers -> Seq(Groups)]]
    /\ jobs \in [Servers -> SUBSET Servers]
    /\ current \in [Servers -> {Idle} \cup [to : Servers, rest : Seq(Groups) \ {<<>>}]]
    /\ link \in [Links -> Seq(Groups)] /\ reply \in [Links -> Seq(Groups)]
    /\ expected \in [Links -> Seq(Groups)]
    /\ handling \in [Links -> Groups \cup {None}]
    /\ partialKey \in [Servers -> [Groups -> Seq(Servers)]]
    /\ groupCounts \in [Servers -> [Groups -> Nat]]
    /\ decrypted \in [Servers -> SUBSET Groups]
    /\ phase \in [Servers -> {"send", "read", "done", "panic"}]
    /\ crashes \in 0 .. MaxCrashes

\* The buffers between two servers hold what they can hold.
Buffers ==
    \A a, b \in Servers :
        a = b \/ (Len(link[<<a, b>>]) <= LinkCapacity /\ Len(reply[<<a, b>>]) <= ReplyCapacity)

\* A caller's order of the groups of a server lists them all.
Orders == \A a, b \in Servers : Elements(reverseGroups[a][b]) = GroupsOf(b)

\* A server that is being written to is no longer to be written to.
Writing == \A a \in Servers : current[a] # Idle => current[a].to \notin jobs[a]

\* The replies come in the order the reader expects, each group once.
Queues ==
    \A a, b \in Servers :
        /\ Distinct(Queue(a, b)) /\ Elements(Queue(a, b)) \subseteq GroupsOf(b)
        /\ phase[a] = "send" => Queue(a, b) = reverseGroups[a][b]
        /\ phase[a] \in {"read", "done"} => expected[<<a, b>>] = Queue(a, b)

\* The shares accumulated are those of the members whose reply was read.
Shares ==
    \A a \in Servers, g \in Groups :
        /\ Distinct(partialKey[a][g])
        /\ Elements(partialKey[a][g]) = Members[g] \ Missing(a, g)

\* The counters.
Counts ==
    \A a \in Servers, g \in Groups :
        /\ groupCounts[a][g] <= Cardinality(Members[g])
        /\ phase[a] \in {"read", "done"} => groupCounts[a][g] = Cardinality(Missing(a, g))
        /\ g \in decrypted[a] => Missing(a, g) = {}

\* Who goes on has decrypted all groups.
DoneAll == \A a \in Servers : phase[a] = "done" => decrypted[a] = Groups

CheckpointIInv ==
    Types /\ Buffers /\ Orders /\ Writing /\ Queues /\ Shares /\ Counts /\ DoneAll

\* An order of SetGroups lists the groups of the server, each one once.
LEMMA CallerOrder ==
    ASSUME CapacityAssumption, NEW b \in Servers, NEW f \in SetGroups(b)
    PROVE  f \in Seq(Groups) /\ Distinct(f) /\ Elements(f) = GroupsOf(b)
<1> DEFINE n == Cardinality(GroupsOf(b))
<1>1. IsFiniteSet(GroupsOf(b)) /\ n \in Nat
  BY FS_Subset, FS_CardinalityType, Zenon DEF CapacityAssumption, GroupsOf
<1>2. f \in [1 .. n -> GroupsOf(b)] /\ \A i, j \in 1 .. n : f[i] = f[j] => i = j
  BY Zenon DEF SetGroups, Bijection, Injection, IsInjective
<1>3. \A g \in GroupsOf(b) : \E i \in 1 .. n : f[i] = g
  BY Zenon DEF SetGroups, Bijection, Surjection
<1>4. Len(f) = n /\ f \in Seq(Groups)
  BY <1>1, <1>2 DEF GroupsOf
<1>5. QED
  BY <1>2, <1>3, <1>4 DEF Distinct, Elements

\* The parts of a queue are sequences of groups.
LEMMA QueueTypes ==
    ASSUME Types, NEW a \in Servers, NEW b \in Servers
    PROVE  /\ reply[<<a, b>>] \in Seq(Groups) /\ link[<<a, b>>] \in Seq(Groups)
           /\ expected[<<a, b>>] \in Seq(Groups)
           /\ Handled(a, b) \in Seq(Groups) /\ Unwritten(a, b) \in Seq(Groups)
           /\ link[<<a, b>>] \o Unwritten(a, b) \in Seq(Groups)
           /\ Handled(a, b) \o (link[<<a, b>>] \o Unwritten(a, b)) \in Seq(Groups)
           /\ Queue(a, b) \in Seq(Groups)
<1>1. reply[<<a, b>>] \in Seq(Groups) /\ link[<<a, b>>] \in Seq(Groups)
      /\ expected[<<a, b>>] \in Seq(Groups) /\ handling[<<a, b>>] \in Groups \cup {None}
  BY Zenon DEF Types, Links
<1>2. Handled(a, b) \in Seq(Groups)
  BY <1>1 DEF Handled
<1>3. Unwritten(a, b) \in Seq(Groups)
  BY DEF Unwritten, Types
<1>4. link[<<a, b>>] \o Unwritten(a, b) \in Seq(Groups)
  BY <1>1, <1>3, Concatenation, Zenon
<1>5. Handled(a, b) \o (link[<<a, b>>] \o Unwritten(a, b)) \in Seq(Groups)
  BY <1>2, <1>4, Concatenation, Zenon
<1>6. Queue(a, b) \in Seq(Groups)
  BY <1>1, <1>5, Concatenation, Zenon DEF Queue
<1>7. QED
  BY <1>1, <1>2, <1>3, <1>4, <1>5, <1>6, Zenon

\* The invariant holds when the exchange starts.
LEMMA CheckpointInit ==
    ASSUME CapacityAssumption, Init
    PROVE  CheckpointIInv
<1>1. \A a, b \in Servers : reverseGroups[a][b] \in SetGroups(b)
  BY Zenon DEF Init
<1>2. \A a, b \in Servers :
        /\ reverseGroups[a][b] \in Seq(Groups) /\ Distinct(reverseGroups[a][b])
        /\ Elements(reverseGroups[a][b]) = GroupsOf(b)
  BY <1>1, CallerOrder, Zenon
<1>3. Types
  <2>1. reverseGroups \in [Servers -> [Servers -> Seq(Groups)]]
    BY <1>2, Zenon DEF Init
  <2>2. current \in [Servers -> {Idle} \cup [to : Servers, rest : Seq(Groups) \ {<<>>}]]
    BY Zenon DEF Init
  <2>3. /\ link \in [Links -> Seq(Groups)] /\ reply \in [Links -> Seq(Groups)]
        /\ expected \in [Links -> Seq(Groups)] /\ handling \in [Links -> Groups \cup {None}]
    BY DEF Init
  <2>4. partialKey \in [Servers -> [Groups -> Seq(Servers)]]
        /\ groupCounts \in [Servers -> [Groups -> Nat]]
    BY DEF Init
  <2>5. jobs \in [Servers -> SUBSET Servers] /\ decrypted \in [Servers -> SUBSET Groups]
        /\ phase \in [Servers -> {"send", "read", "done", "panic"}] /\ crashes \in 0 .. MaxCrashes
    BY DEF Init, CapacityAssumption
  <2>6. QED
    BY <2>1, <2>2, <2>3, <2>4, <2>5, Zenon DEF Types
<1>4. \A a, b \in Servers : Queue(a, b) = reverseGroups[a][b]
  <2> TAKE a, b \in Servers
  <2>1. /\ reply[<<a, b>>] = <<>> /\ link[<<a, b>>] = <<>> /\ Handled(a, b) = <<>>
        /\ Unwritten(a, b) = reverseGroups[a][b]
    BY Zenon DEF Init, Links, Handled, Unwritten
  <2>2. QED
    BY <1>2, <2>1, ConcatNothing DEF Queue
<1>5. \A a \in Servers, g \in Groups : Missing(a, g) = Members[g]
  BY <1>2, <1>4 DEF Missing, GroupsOf, CapacityAssumption
<1>6. Buffers
  BY DEF Init, Buffers, Links, CapacityAssumption
<1>7. Orders /\ Writing
  BY <1>2, Zenon DEF Init, Orders, Writing
<1>8. Queues
  BY <1>2, <1>4, Zenon DEF Init, Queues
<1>9. Shares
  <2>1. \A a \in Servers, g \in Groups : partialKey[a][g] = <<>>
    BY Zenon DEF Init
  <2>2. Elements(<<>>) = {} /\ Distinct(<<>>)
    BY DEF Elements, Distinct
  <2>3. QED
    BY <1>5, <2>1, <2>2, Zenon DEF Shares
<1>10. \A g \in Groups : Cardinality(Members[g]) \in Nat
  BY FS_Subset, FS_CardinalityType, Zenon DEF CapacityAssumption
<1>11. Counts /\ DoneAll
  BY <1>10 DEF Init, Counts, DoneAll
<1>12. QED
  BY <1>3, <1>6, <1>7, <1>8, <1>9, <1>11, Zenon DEF CheckpointIInv

\* Queues that stay as they are carry the invariant along.
LEMMA QueuesKept ==
    ASSUME CheckpointIInv, \A a, b \in Servers : Queue(a, b)' = Queue(a, b),
           UNCHANGED <<reverseGroups, partialKey, decrypted, groupCounts, expected>>,
           \A a \in Servers : \/ phase'[a] = phase[a] \/ phase'[a] = "panic"
                              \/ phase[a] = "read" /\ phase'[a] = "done",
           CapacityAssumption
    PROVE  Orders' /\ Queues' /\ Shares' /\ Counts'
<1>1. \A a \in Servers, g \in Groups : Missing(a, g)' = Missing(a, g)
  BY Zenon DEF Missing, CapacityAssumption
<1>2. Orders'
  BY Zenon DEF CheckpointIInv, Orders
<1>3. Queues'
  BY ZenonT(60) DEF CheckpointIInv, Queues
<1>4. Shares'
  BY <1>1, Zenon DEF CheckpointIInv, Shares
<1>5. Counts'
  BY <1>1 DEF CheckpointIInv, Counts
<1>6. QED
  BY <1>2, <1>3, <1>4, <1>5, Zenon

\* The queue of a connection when its parts stay as they are.
LEMMA QueueSame ==
    ASSUME NEW a \in Servers, NEW b \in Servers, reply'[<<a, b>>] = reply[<<a, b>>],
           link'[<<a, b>>] = link[<<a, b>>], handling'[<<a, b>>] = handling[<<a, b>>],
           Unwritten(a, b)' = Unwritten(a, b)
    PROVE  Queue(a, b)' = Queue(a, b)
BY Zenon DEF Queue, Handled

\* What is unwritten depends on the sender's jobs and its current write.
LEMMA UnwrittenSame ==
    ASSUME NEW a \in Servers, NEW b \in Servers, jobs'[a] = jobs[a], current'[a] = current[a],
           reverseGroups' = reverseGroups
    PROVE  Unwritten(a, b)' = Unwritten(a, b)
BY Zenon DEF Unwritten

\* A job that is begun moves no group.
LEMMA NextJobStep ==
    ASSUME CapacityAssumption, CheckpointIInv, NEW c \in Servers, NextJob(c)
    PROVE  CheckpointIInv'
<1> USE DEF NextJob
<1>1. PICK d \in jobs[c] :
        /\ jobs' = [jobs EXCEPT ![c] = @ \ {d}]
        /\ current' = [current EXCEPT ![c] = IF reverseGroups[c][d] = <<>> THEN Idle
                                             ELSE [to |-> d, rest |-> reverseGroups[c][d]]]
  BY ZenonT(60)
<1> DEFINE new == IF reverseGroups[c][d] = <<>> THEN Idle
                  ELSE [to |-> d, rest |-> reverseGroups[c][d]]
<1>2. Types /\ d \in Servers /\ reverseGroups[c][d] \in Seq(Groups)
  <2>1. Types
    BY Zenon DEF CheckpointIInv
  <2>2. jobs[c] \in SUBSET Servers
    BY <2>1, Zenon DEF Types
  <2>3. d \in Servers
    BY <2>2, Zenon
  <2>4. QED
    BY <2>1, <2>3 DEF Types
<1>3. new \in {Idle} \cup [to : Servers, rest : Seq(Groups) \ {<<>>}]
  BY <1>2, Zenon
<1>4. Types'
  <2>1. jobs' \in [Servers -> SUBSET Servers]
    BY <1>1, <1>2, Zenon DEF Types
  <2>2. current' \in [Servers -> {Idle} \cup [to : Servers, rest : Seq(Groups) \ {<<>>}]]
    BY <1>1, <1>2, <1>3, Zenon DEF Types
  <2>3. QED
    BY <1>2, <2>1, <2>2, ZenonT(60) DEF Types
<1>5. jobs'[c] = jobs[c] \ {d} /\ current'[c] = new /\ current[c] = Idle
      /\ \A a \in Servers \ {c} : jobs'[a] = jobs[a] /\ current'[a] = current[a]
  BY <1>1, <1>2 DEF Types
<1>6. new # Idle => new.to = d /\ new.rest = reverseGroups[c][d]
  BY Zenon
<1>7. new = Idle => reverseGroups[c][d] = <<>>
  BY <1>2, Zenon DEF Idle, CapacityAssumption
<1> HIDE DEF new
<1>8. Writing'
  <2> SUFFICES ASSUME NEW a \in Servers, current'[a] # Idle
               PROVE  current'[a].to \notin jobs'[a]
    BY Zenon DEF Writing, Idle
  <2>1. CASE a = c
    BY <1>5, <1>6, <2>1, Zenon
  <2>2. CASE a # c
    BY <1>5, <2>2, Zenon DEF CheckpointIInv, Writing
  <2>3. QED
    BY <2>1, <2>2, Zenon
<1>9. ASSUME NEW a \in Servers, NEW b \in Servers
      PROVE  Unwritten(a, b)' = Unwritten(a, b)
  <2>1. CASE a # c
    BY <1>5, <2>1, UnwrittenSame, Zenon
  <2>2. CASE a = c /\ b = d
    BY <1>5, <1>6, <1>7, <2>2, Zenon DEF Unwritten
  <2>3. CASE a = c /\ b # d
    BY <1>5, <1>6, <2>3, Zenon DEF Unwritten
  <2>4. QED
    BY <2>1, <2>2, <2>3, Zenon
<1>10. \A a, b \in Servers : Queue(a, b)' = Queue(a, b)
  BY <1>9, QueueSame, Zenon
<1>11. Orders' /\ Queues' /\ Shares' /\ Counts'
  BY <1>10, QueuesKept, Zenon
<1>12. Buffers' /\ DoneAll'
  BY Zenon DEF CheckpointIInv, Buffers, DoneAll
<1>13. QED
  BY <1>4, <1>8, <1>11, <1>12, Zenon DEF CheckpointIInv

\* A write moves a group from the writer to the buffers.
LEMMA SendStep ==
    ASSUME CapacityAssumption, CheckpointIInv, NEW c \in Servers, Send(c)
    PROVE  CheckpointIInv'
<1>1. Types
  BY Zenon DEF CheckpointIInv
<1>2. current[c] \in [to : Servers, rest : Seq(Groups) \ {<<>>}] /\ current[c] # Idle
  BY <1>1, ZenonT(60) DEF Types, Send
<1> SUFFICES ASSUME NEW d \in Servers, d = current[c].to,
                    NEW rest \in Seq(Groups), rest = current[c].rest, rest # <<>>
             PROVE  CheckpointIInv'
  BY <1>2, Zenon
<1>3. /\ Room(c, d, link[<<c, d>>], LinkCapacity)
       /\ link' = [link EXCEPT ![<<c, d>>] = Append(link[<<c, d>>], Head(rest))]
       /\ current' = [current EXCEPT ![c] = IF Len(rest) = 1 THEN Idle
                                            ELSE [to |-> d, rest |-> Tail(rest)]]
  BY ZenonT(60) DEF Send
<1>4. UNCHANGED <<reverseGroups, jobs, handling, reply, expected, partialKey, groupCounts,
                   decrypted, phase, crashes>>
  BY ZenonT(60) DEF Send
<1> DEFINE new == IF Len(rest) = 1 THEN Idle ELSE [to |-> d, rest |-> Tail(rest)]
<1>5. current' = [current EXCEPT ![c] = new]
  BY <1>3, Zenon
<1>6. Head(rest) \in Groups /\ Tail(rest) \in Seq(Groups) /\ Len(Tail(rest)) = Len(rest) - 1
  BY Rest, SMTT(60)
<1>7. /\ new # Idle => new \in [to : Servers, rest : Seq(Groups) \ {<<>>}]
                       /\ new.to = d /\ new.rest = Tail(rest)
      /\ new = Idle => Tail(rest) = <<>>
  <2>4. Len(rest) \in Nat /\ (Tail(rest) = <<>> <=> Len(rest) = 1)
    <3>1. Len(rest) \in Nat /\ (Tail(rest) = <<>> <=> Len(Tail(rest)) = 0)
      BY <1>6, NothingInIt, ZenonT(40)
    <3>2. QED
      BY <1>6, <3>1
  <2>1. CASE Len(rest) = 1
    BY <1>6, <2>1, <2>4, Zenon
  <2>2. CASE Len(rest) # 1
    <3>1. Tail(rest) # <<>>
      BY <2>2, <2>4, Zenon
    <3>2. new = [to |-> d, rest |-> Tail(rest)]
      BY <2>2, Zenon
    <3>3. new # Idle
      BY <3>2, Zenon DEF Idle, CapacityAssumption
    <3>4. QED
      BY <1>6, <3>1, <3>2, <3>3, ZenonT(60)
  <2>3. QED
    BY <2>1, <2>2, Zenon
<1>8. current'[c] = new /\ \A a \in Servers \ {c} : current'[a] = current[a]
  BY <1>1, <1>5, Zenon DEF Types
<1> HIDE DEF new
<1>9. link[<<c, d>>] \in Seq(Groups) /\ Len(link[<<c, d>>]) \in Nat
  BY <1>1, QueueTypes
<1>10. Append(link[<<c, d>>], Head(rest)) \in Seq(Groups)
      /\ Len(Append(link[<<c, d>>], Head(rest))) = Len(link[<<c, d>>]) + 1
  BY <1>6, <1>9, Longer
<1>11. link'[<<c, d>>] = Append(link[<<c, d>>], Head(rest))
      /\ \A a, b \in Servers : <<a, b>> # <<c, d>> => link'[<<a, b>>] = link[<<a, b>>]
  BY <1>1, <1>3, ZenonT(60) DEF Types, Links
<1>12. Types'
  <2>1. link' \in [Links -> Seq(Groups)]
    BY <1>1, <1>10, <1>3, ZenonT(60) DEF Types
  <2>2. current' \in [Servers -> {Idle} \cup [to : Servers, rest : Seq(Groups) \ {<<>>}]]
    BY <1>1, <1>5, <1>7, Zenon DEF Types
  <2>3. QED
    BY <1>1, <1>4, <2>1, <2>2, ZenonT(60) DEF Types
<1>13. Writing'
  <2> SUFFICES ASSUME NEW a \in Servers, current'[a] # Idle
               PROVE  current'[a].to \notin jobs[a]
    BY <1>4, Zenon DEF Writing, Idle
  <2>1. CASE a = c
    BY <1>2, <1>7, <1>8, <2>1, Zenon DEF CheckpointIInv, Writing
  <2>2. CASE a # c
    BY <1>8, <2>2, Zenon DEF CheckpointIInv, Writing
  <2>3. QED
    BY <2>1, <2>2, Zenon
<1>14. d \notin jobs[c]
  BY <1>2, Zenon DEF CheckpointIInv, Writing
<1>15. ASSUME NEW a \in Servers, NEW b \in Servers
       PROVE  Queue(a, b)' = Queue(a, b)
  <2>1. CASE a # c
    <3>1. Unwritten(a, b)' = Unwritten(a, b)
      BY <1>4, <1>8, <2>1, UnwrittenSame, Zenon
    <3>2. QED
      BY <1>4, <1>11, <2>1, <3>1, QueueSame, ZenonT(60)
  <2>2. CASE a = c /\ b # d
    <3>1. Unwritten(a, b)' = Unwritten(a, b)
      BY <1>7, <1>8, <1>4, <2>2, Zenon DEF Unwritten
    <3>2. QED
      BY <1>11, <1>4, <2>2, <3>1, QueueSame, ZenonT(60)
  <2>3. CASE a = c /\ b = d
    <3>1. Unwritten(c, d) = rest
      BY <1>2, <1>14, Zenon DEF Unwritten
    <3>2. Unwritten(c, d)' = Tail(rest)
      BY <1>7, <1>8, <1>14, <1>4, ZenonT(60) DEF Unwritten
    <3>3. link[<<c, d>>] \o rest = Append(link[<<c, d>>], Head(rest)) \o Tail(rest)
      BY <1>9, MoveHead, ZenonT(60)
    <3>4. QED
      BY <1>11, <1>4, <2>3, <3>1, <3>2, <3>3, ZenonT(60) DEF Queue, Handled
  <2>4. QED
    BY <2>1, <2>2, <2>3, Zenon
<1>16. Orders' /\ Queues' /\ Shares' /\ Counts'
  BY <1>15, <1>4, QueuesKept, Zenon
<1>17. Buffers'
  <2> SUFFICES ASSUME NEW a \in Servers, NEW b \in Servers, a # b
               PROVE  Len(link'[<<a, b>>]) <= LinkCapacity /\ Len(reply[<<a, b>>]) <= ReplyCapacity
    BY <1>4, ZenonT(60) DEF Buffers
  <2>1. CASE <<a, b>> # <<c, d>>
    BY <1>11, <2>1, Zenon DEF CheckpointIInv, Buffers
  <2>2. CASE a = c /\ b = d
    <3>1. Len(link[<<c, d>>]) < LinkCapacity
      BY <1>3, <2>2, Zenon DEF Room
    <3>2. LinkCapacity \in Nat
      BY Zenon DEF CapacityAssumption
    <3>3. Len(link'[<<a, b>>]) <= LinkCapacity
      BY <1>10, <1>11, <1>9, <2>2, <3>1, <3>2
    <3>4. QED
      BY <3>3, Zenon DEF CheckpointIInv, Buffers
  <2>3. QED
    BY <2>1, <2>2, Zenon
<1>18. DoneAll'
  BY <1>4, Zenon DEF CheckpointIInv, DoneAll
<1>19. QED
  BY <1>12, <1>13, <1>16, <1>17, <1>18, Zenon DEF CheckpointIInv

\* A handler takes the next message.
LEMMA ReceiveStep ==
    ASSUME CapacityAssumption, CheckpointIInv, NEW c \in Servers, NEW d \in Servers, Receive(c, d)
    PROVE  CheckpointIInv'
<1>1. Types
  BY Zenon DEF CheckpointIInv
<1> SUFFICES ASSUME NEW l \in Seq(Groups), l = link[<<c, d>>], l # <<>>,
                    handling[<<c, d>>] = None,
                    handling' = [handling EXCEPT ![<<c, d>>] = Head(l)],
                    link' = [link EXCEPT ![<<c, d>>] = Tail(l)],
                    UNCHANGED <<reverseGroups, jobs, current, reply, expected, partialKey,
                                groupCounts, decrypted, phase, crashes>>
             PROVE  CheckpointIInv'
  BY <1>1, QueueTypes, ZenonT(60) DEF Receive
<1>2. Head(l) \in Groups /\ Tail(l) \in Seq(Groups) /\ Len(Tail(l)) = Len(l) - 1 /\ Len(l) \in Nat
  BY Rest, Zenon
<1>3. /\ link'[<<c, d>>] = Tail(l) /\ handling'[<<c, d>>] = Head(l)
      /\ \A a, b \in Servers : <<a, b>> # <<c, d>> =>
            link'[<<a, b>>] = link[<<a, b>>] /\ handling'[<<a, b>>] = handling[<<a, b>>]
  BY <1>1, ZenonT(60) DEF Types, Links
<1>4. Types'
  <2>1. link' \in [Links -> Seq(Groups)] /\ handling' \in [Links -> Groups \cup {None}]
    BY <1>1, <1>2, ZenonT(60) DEF Types, Links
  <2>2. QED
    BY <1>1, <2>1, ZenonT(60) DEF Types
<1>5. \A a, b \in Servers : Unwritten(a, b)' = Unwritten(a, b)
  BY UnwrittenSame, Zenon
<1>6. ASSUME NEW a \in Servers, NEW b \in Servers
      PROVE  Queue(a, b)' = Queue(a, b)
  <2>1. CASE <<a, b>> # <<c, d>>
    BY <1>3, <1>5, <2>1, QueueSame, ZenonT(60)
  <2>2. CASE a = c /\ b = d
    <3>1. Handled(c, d) = <<>>
      BY Zenon DEF Handled
    <3>2. Handled(c, d)' = <<Head(l)>>
      BY <1>2, <1>3, SMTT(60) DEF Handled, CapacityAssumption
    <3>3. <<Head(l)>> \o (Tail(l) \o Unwritten(c, d)) = <<>> \o (l \o Unwritten(c, d))
      <4>1. Unwritten(c, d) \in Seq(Groups)
        BY <1>1, QueueTypes, Zenon
      <4>2. QED
        BY <4>1, HeadToHand, ZenonT(40)
    <3>4. QED
      BY <1>3, <1>5, <2>2, <3>1, <3>2, <3>3, ZenonT(60) DEF Queue
  <2>3. QED
    BY <2>1, <2>2, Zenon
<1>7. Orders' /\ Queues' /\ Shares' /\ Counts'
  BY <1>6, QueuesKept, Zenon
<1>8. Buffers'
  <2> SUFFICES ASSUME NEW a \in Servers, NEW b \in Servers, a # b
               PROVE  Len(link'[<<a, b>>]) <= LinkCapacity /\ Len(reply[<<a, b>>]) <= ReplyCapacity
    BY ZenonT(60) DEF Buffers
  <2>1. Len(link[<<a, b>>]) <= LinkCapacity /\ Len(reply[<<a, b>>]) <= ReplyCapacity
    BY Zenon DEF CheckpointIInv, Buffers
  <2>2. CASE <<a, b>> # <<c, d>>
    BY <1>3, <2>1, <2>2, Zenon
  <2>3. CASE a = c /\ b = d
    BY <1>2, <1>3, <2>1, <2>3 DEF CapacityAssumption
  <2>4. QED
    BY <2>2, <2>3, Zenon
<1>9. Writing' /\ DoneAll'
  BY Zenon DEF CheckpointIInv, Writing, DoneAll
<1>10. QED
  BY <1>4, <1>7, <1>8, <1>9, Zenon DEF CheckpointIInv

\* The group answered stays where it is in the queue.
LEMMA Answered ==
    ASSUME NEW r \in Seq(Groups), NEW w \in Seq(Groups), NEW h \in Groups
    PROVE  Append(r, h) \o (<<>> \o w) = r \o (<<h>> \o w)
BY HandToReply, ZenonT(60)

\* A handler writes its reply.
LEMMA RespondStep ==
    ASSUME CapacityAssumption, CheckpointIInv, NEW c \in Servers, NEW d \in Servers, Respond(c, d)
    PROVE  CheckpointIInv'
<1>1. Types
  BY Zenon DEF CheckpointIInv
<1>2. handling[<<c, d>>] \in Groups
  BY <1>1, ZenonT(60) DEF Types, Links, Respond
<1> SUFFICES ASSUME NEW r \in Seq(Groups), r = reply[<<c, d>>],
                    NEW h \in Groups, h = handling[<<c, d>>],
                    Room(c, d, r, ReplyCapacity),
                    reply' = [reply EXCEPT ![<<c, d>>] = Append(r, h)],
                    handling' = [handling EXCEPT ![<<c, d>>] = None],
                    UNCHANGED <<reverseGroups, jobs, current, link, expected, partialKey,
                                groupCounts, decrypted, phase, crashes>>
             PROVE  CheckpointIInv'
  BY <1>1, <1>2, QueueTypes, ZenonT(60) DEF Respond
<1>3. Append(r, h) \in Seq(Groups) /\ Len(Append(r, h)) = Len(r) + 1 /\ Len(r) \in Nat
  BY Longer
<1>4. /\ reply'[<<c, d>>] = Append(r, h) /\ handling'[<<c, d>>] = None
      /\ \A a, b \in Servers : <<a, b>> # <<c, d>> =>
            reply'[<<a, b>>] = reply[<<a, b>>] /\ handling'[<<a, b>>] = handling[<<a, b>>]
  BY <1>1, ZenonT(60) DEF Types, Links
<1>5. Types'
  <2>1. reply' \in [Links -> Seq(Groups)] /\ handling' \in [Links -> Groups \cup {None}]
    BY <1>1, <1>3, ZenonT(60) DEF Types, Links
  <2>2. QED
    BY <1>1, <2>1, ZenonT(60) DEF Types
<1>6. \A a, b \in Servers : Unwritten(a, b)' = Unwritten(a, b)
  BY UnwrittenSame, Zenon
<1>7. ASSUME NEW a \in Servers, NEW b \in Servers
      PROVE  Queue(a, b)' = Queue(a, b)
  <2>1. CASE <<a, b>> # <<c, d>>
    BY <1>4, <1>6, <2>1, QueueSame, ZenonT(60)
  <2>2. CASE a = c /\ b = d
    <3>1. Handled(c, d) = <<h>>
      BY ZenonT(60) DEF Handled, CapacityAssumption
    <3>2. Handled(c, d)' = <<>>
      BY <1>4, Zenon DEF Handled
    <3>3. link[<<c, d>>] \o Unwritten(c, d) \in Seq(Groups)
      BY <1>1, QueueTypes, Zenon
    <3>4. Append(r, h) \o (<<>> \o (link[<<c, d>>] \o Unwritten(c, d)))
            = r \o (<<h>> \o (link[<<c, d>>] \o Unwritten(c, d)))
      BY <3>3, Answered, ZenonT(40)
    <3>5. Queue(c, d) = r \o (<<h>> \o (link[<<c, d>>] \o Unwritten(c, d)))
      BY <3>1, Zenon DEF Queue
    <3>6. Queue(c, d)' = Append(r, h) \o (<<>> \o (link[<<c, d>>] \o Unwritten(c, d)))
      BY <1>4, <1>6, <3>2, ZenonT(40) DEF Queue
    <3>7. QED
      BY <2>2, <3>4, <3>5, <3>6, ZenonT(40)
  <2>3. QED
    BY <2>1, <2>2, Zenon
<1>8. Orders' /\ Queues' /\ Shares' /\ Counts'
  BY <1>7, QueuesKept, Zenon
<1>9. Buffers'
  <2> SUFFICES ASSUME NEW a \in Servers, NEW b \in Servers, a # b
               PROVE  Len(link[<<a, b>>]) <= LinkCapacity /\ Len(reply'[<<a, b>>]) <= ReplyCapacity
    BY ZenonT(60) DEF Buffers
  <2>1. Len(link[<<a, b>>]) <= LinkCapacity /\ Len(reply[<<a, b>>]) <= ReplyCapacity
    BY Zenon DEF CheckpointIInv, Buffers
  <2>2. CASE <<a, b>> # <<c, d>>
    BY <1>4, <2>1, <2>2, Zenon
  <2>3. CASE a = c /\ b = d
    <3>1. Len(r) < ReplyCapacity /\ ReplyCapacity \in Nat
      BY <2>3, Zenon DEF CapacityAssumption, Room
    <3>2. Len(reply'[<<a, b>>]) = Len(r) + 1
      BY <1>3, <1>4, <2>3, Zenon
    <3>3. QED
      BY <1>3, <2>1, <3>1, <3>2
  <2>4. QED
    BY <2>2, <2>3, Zenon
<1>10. Writing' /\ DoneAll'
  BY Zenon DEF CheckpointIInv, Writing, DoneAll
<1>11. QED
  BY <1>5, <1>8, <1>9, <1>10, Zenon DEF CheckpointIInv

\* The readers start with all the groups of every server missing.
LEMMA StartReadersStep ==
    ASSUME CapacityAssumption, CheckpointIInv, NEW c \in Servers, StartReaders(c)
    PROVE  CheckpointIInv'
<1>1. Types
  BY Zenon DEF CheckpointIInv
<1>2. /\ phase[c] = "send" /\ phase' = [phase EXCEPT ![c] = "read"]
      /\ groupCounts' = [groupCounts EXCEPT ![c] = [g \in Groups |-> Cardinality(Members[g])]]
      /\ expected' = [l \in Links |-> IF l[1] = c THEN reverseGroups[c][l[2]] ELSE expected[l]]
      /\ UNCHANGED <<reverseGroups, jobs, current, link, handling, reply, partialKey, decrypted,
                     crashes>>
  BY Zenon DEF StartReaders, GroupSize, ReadOrder
<1>3. \A g \in Groups : IsFiniteSet(Members[g]) /\ Cardinality(Members[g]) \in Nat
  BY FS_Subset, FS_CardinalityType, Zenon DEF CapacityAssumption
<1>4. /\ phase'[c] = "read" /\ \A a \in Servers \ {c} : phase'[a] = phase[a]
      /\ \A g \in Groups : groupCounts'[c][g] = Cardinality(Members[g])
      /\ \A a \in Servers \ {c} : groupCounts'[a] = groupCounts[a]
  BY <1>1, <1>2, Zenon DEF Types
<1>5. \A a, b \in Servers :
        expected'[<<a, b>>] = IF a = c THEN reverseGroups[c][b] ELSE expected[<<a, b>>]
  BY <1>2, Zenon DEF Links
<1>6. Types'
  <2>1. expected' \in [Links -> Seq(Groups)]
    BY <1>1, <1>2 DEF Types, Links
  <2>2. groupCounts' \in [Servers -> [Groups -> Nat]]
    BY <1>1, <1>2, <1>3, Zenon DEF Types
  <2>3. phase' \in [Servers -> {"send", "read", "done", "panic"}]
    BY <1>1, <1>2, Zenon DEF Types
  <2>4. QED
    BY <1>1, <1>2, <2>1, <2>2, <2>3, ZenonT(60) DEF Types
<1>7. \A a, b \in Servers : Queue(a, b)' = Queue(a, b)
  BY <1>2, UnwrittenSame, QueueSame, Zenon
<1>8. \A a \in Servers, g \in Groups : Missing(a, g)' = Missing(a, g)
  BY <1>7, Zenon DEF Missing, CapacityAssumption
<1>9. \A b \in Servers : Queue(c, b) = reverseGroups[c][b]
  BY <1>2, ZenonT(60) DEF CheckpointIInv, Queues
<1>10. \A g \in Groups : Missing(c, g) = Members[g]
  BY <1>9 DEF Missing, CheckpointIInv, Orders, GroupsOf, CapacityAssumption
<1>11. Orders' /\ Writing' /\ Buffers'
  BY <1>2, Zenon DEF CheckpointIInv, Orders, Writing, Buffers
<1>12. Queues'
  <2> SUFFICES ASSUME NEW a \in Servers, NEW b \in Servers
               PROVE  /\ Distinct(Queue(a, b)') /\ Elements(Queue(a, b)') \subseteq GroupsOf(b)
                      /\ phase'[a] = "send" => Queue(a, b)' = reverseGroups'[a][b]
                      /\ phase'[a] \in {"read", "done"} => expected'[<<a, b>>] = Queue(a, b)'
    BY ZenonT(40) DEF Queues
  <2>1. CASE a = c
    BY <1>2, <1>4, <1>5, <1>7, <1>9, <2>1 DEF CheckpointIInv, Queues
  <2>2. CASE a # c
    BY <1>2, <1>4, <1>5, <1>7, <2>2 DEF CheckpointIInv, Queues
  <2>3. QED
    BY <2>1, <2>2, Zenon
<1>13. Shares'
  BY <1>2, <1>8, Zenon DEF CheckpointIInv, Shares
<1>14. Counts'
  <2> SUFFICES ASSUME NEW a \in Servers, NEW g \in Groups
               PROVE  /\ groupCounts'[a][g] <= Cardinality(Members[g])
                      /\ phase'[a] \in {"read", "done"} =>
                            groupCounts'[a][g] = Cardinality(Missing(a, g))
                      /\ g \in decrypted[a] => Missing(a, g) = {}
    BY <1>2, <1>8 DEF Counts
  <2>1. CASE a = c
    <3>1. groupCounts'[a][g] = Cardinality(Members[g]) /\ Missing(a, g) = Members[g]
      BY <1>4, <1>10, <2>1, Zenon
    <3>2. QED
      BY <1>3, <3>1 DEF CheckpointIInv, Counts
  <2>2. CASE a # c
    BY <1>4, <2>2, Zenon DEF CheckpointIInv, Counts
  <2>3. QED
    BY <2>1, <2>2, Zenon
<1>15. DoneAll'
  BY <1>2, <1>4, Zenon DEF CheckpointIInv, DoneAll
<1>16. QED
  BY <1>6, <1>11, <1>12, <1>13, <1>14, <1>15, Zenon DEF CheckpointIInv

\* A server that goes on, or that stops, leaves the queues alone.
LEMMA PhaseStep ==
    ASSUME CapacityAssumption, CheckpointIInv, NEW c \in Servers,
           Finish(c) \/ Panic(c) \/ Crash(c)
    PROVE  CheckpointIInv'
<1>1. Types
  BY Zenon DEF CheckpointIInv
<1>2. UNCHANGED <<reverseGroups, jobs, current, link, handling, reply, expected, partialKey,
                  groupCounts, decrypted>>
  BY Zenon DEF Finish, Panic, Crash
<1>3. PICK p \in {"done", "panic"} :
        /\ phase' = [phase EXCEPT ![c] = p]
        /\ p = "done" => phase[c] = "read" /\ decrypted[c] = Groups
  BY Zenon DEF Finish, Panic, Crash
<1>4. crashes' \in 0 .. MaxCrashes
  BY <1>1 DEF Finish, Panic, Crash, Types, CapacityAssumption
<1>5. phase' \in [Servers -> {"send", "read", "done", "panic"}]
  BY <1>1, <1>3, Zenon DEF Types
<1>6. phase'[c] = p /\ \A a \in Servers \ {c} : phase'[a] = phase[a]
  BY <1>1, <1>3, Zenon DEF Types
<1>7. Types'
  BY <1>1, <1>2, <1>4, <1>5, SMTT(60) DEF Types
<1>8. \A a, b \in Servers : Queue(a, b)' = Queue(a, b)
  BY <1>2, UnwrittenSame, QueueSame, Zenon
<1>9. \A a \in Servers : \/ phase'[a] = phase[a] \/ phase'[a] = "panic"
                         \/ phase[a] = "read" /\ phase'[a] = "done"
  BY <1>3, <1>6, SMTT(60)
<1>10. Orders' /\ Queues' /\ Shares' /\ Counts'
  BY <1>2, <1>8, <1>9, QueuesKept, Zenon
<1>11. Writing' /\ Buffers'
  BY <1>2, Zenon DEF CheckpointIInv, Writing, Buffers
<1>12. DoneAll'
  BY <1>2, <1>3, <1>6, Zenon DEF CheckpointIInv, DoneAll
<1>13. QED
  BY <1>7, <1>10, <1>11, <1>12, Zenon DEF CheckpointIInv

\* The reply that c reads from d is that of the group g: the queue of the
\* connection loses its first element and the other ones stay.
Took(c, d, g) ==
    /\ g \in Groups /\ g \in Elements(Queue(c, d)) /\ Distinct(Queue(c, d)')
    /\ Elements(Queue(c, d)') = Elements(Queue(c, d)) \ {g}
    /\ expected'[<<c, d>>] = Queue(c, d)'
    /\ \A a, b \in Servers : <<a, b>> # <<c, d>> =>
            Queue(a, b)' = Queue(a, b) /\ expected'[<<a, b>>] = expected[<<a, b>>]

\* A reply is read: it is that of the group the reader expects.
LEMMA ReplyRead ==
    ASSUME CapacityAssumption, CheckpointIInv, NEW c \in Servers, NEW d \in Servers,
           HandleResponse(c, d)
    PROVE  \E g \in Groups :
              /\ Took(c, d, g)
              /\ partialKey' = [partialKey EXCEPT ![c][g] = Append(partialKey[c][g], d)]
              /\ groupCounts' = [groupCounts EXCEPT ![c][g] = groupCounts[c][g] - 1]
              /\ decrypted' = [decrypted EXCEPT ![c] = IF groupCounts[c][g] = 1
                                                       THEN decrypted[c] \cup {g} ELSE decrypted[c]]
              /\ phase' = [phase EXCEPT ![c] = IF groupCounts[c][g] < 1 THEN "panic" ELSE phase[c]]
<1>1. Types /\ Queues
  BY Zenon DEF CheckpointIInv
<1>2. /\ reply[<<c, d>>] \in Seq(Groups) /\ reply[<<c, d>>] # <<>>
      /\ phase[c] = "read" /\ expected[<<c, d>>] # <<>>
  BY <1>1, QueueTypes, ZenonT(60) DEF HandleResponse
<1>3. /\ expected' = [expected EXCEPT ![<<c, d>>] = Tail(expected[<<c, d>>])]
      /\ reply' = [reply EXCEPT ![<<c, d>>] = Tail(reply[<<c, d>>])]
      /\ UNCHANGED <<reverseGroups, jobs, current, link, handling>>
  BY ZenonT(60) DEF HandleResponse
<1>4. /\ expected[<<c, d>>] = Queue(c, d) /\ Queue(c, d) \in Seq(Groups) /\ Queue(c, d) # <<>>
      /\ Distinct(Queue(c, d))
  BY <1>1, <1>2, QueueTypes, ZenonT(60) DEF Queues
<1>5. \A a, b \in Servers : Unwritten(a, b)' = Unwritten(a, b) /\ Handled(a, b)' = Handled(a, b)
  BY <1>3, UnwrittenSame, Zenon DEF Handled
<1>6. /\ reply'[<<c, d>>] = Tail(reply[<<c, d>>]) /\ expected'[<<c, d>>] = Tail(Queue(c, d))
      /\ \A a, b \in Servers : <<a, b>> # <<c, d>> =>
            reply'[<<a, b>>] = reply[<<a, b>>] /\ expected'[<<a, b>>] = expected[<<a, b>>]
  BY <1>1, <1>3, <1>4, ZenonT(60) DEF Types, Links
<1>7. \A a, b \in Servers : <<a, b>> # <<c, d>> => Queue(a, b)' = Queue(a, b)
  BY <1>3, <1>5, <1>6, QueueSame, ZenonT(60)
<1>8. Head(Queue(c, d)) = Head(reply[<<c, d>>]) /\ Queue(c, d)' = Tail(Queue(c, d))
  <2>1. Handled(c, d) \o (link[<<c, d>>] \o Unwritten(c, d)) \in Seq(Groups)
    BY <1>1, QueueTypes, Zenon
  <2>2. Queue(c, d)' = Tail(reply[<<c, d>>]) \o (Handled(c, d) \o (link[<<c, d>>] \o Unwritten(c, d)))
    BY <1>3, <1>5, <1>6, ZenonT(60) DEF Queue
  <2>3. QED
    BY <1>2, <2>1, <2>2, TakeHead, ZenonT(60) DEF Queue
<1>9. /\ Distinct(Tail(Queue(c, d))) /\ Head(Queue(c, d)) \in Elements(Queue(c, d))
      /\ Elements(Tail(Queue(c, d))) = Elements(Queue(c, d)) \ {Head(Queue(c, d))}
  BY <1>4, DistinctTail, ZenonT(60)
<1>10. Head(Queue(c, d)) \in Groups
  BY <1>4, Rest, ZenonT(60)
<1>11. Took(c, d, Head(Queue(c, d)))
  BY <1>6, <1>7, <1>8, <1>9, <1>10, ZenonT(60) DEF Took
<1> HIDE DEF Took
<1>12. LET g == Head(Queue(c, d)) IN
       /\ partialKey' = [partialKey EXCEPT ![c][g] = Append(partialKey[c][g], d)]
       /\ groupCounts' = [groupCounts EXCEPT ![c][g] = groupCounts[c][g] - 1]
       /\ decrypted' = [decrypted EXCEPT ![c] = IF groupCounts[c][g] = 1
                                                THEN decrypted[c] \cup {g} ELSE decrypted[c]]
       /\ phase' = [phase EXCEPT ![c] = IF groupCounts[c][g] < 1 THEN "panic" ELSE phase[c]]
  BY <1>4, <1>8, ZenonT(60) DEF HandleResponse, LastReply
<1>13. QED
  BY <1>10, <1>11, <1>12, ZenonT(60)

\* The server whose reply is read was missing, and no other one.
LEMMA TookMissing ==
    ASSUME CapacityAssumption, Queues, NEW c \in Servers, NEW d \in Servers, NEW g \in Groups,
           Took(c, d, g)
    PROVE  /\ d \in Missing(c, g) /\ Missing(c, g)' = Missing(c, g) \ {d}
           /\ \A a \in Servers, k \in Groups : a # c \/ k # g => Missing(a, k)' = Missing(a, k)
<1>1. d \in Members[g] /\ \A k \in Groups : Members[k] \subseteq Servers
  BY Zenon DEF Took, Queues, GroupsOf, CapacityAssumption
<1>2. d \in Missing(c, g)
  BY <1>1, Zenon DEF Missing, Took
<1>3. ASSUME NEW a \in Servers, NEW k \in Groups, NEW b \in Members[k], <<a, b, k>> # <<c, d, g>>
      PROVE  k \in Elements(Queue(a, b)') <=> k \in Elements(Queue(a, b))
  BY <1>1, <1>3, ZenonT(60) DEF Took
<1>4. g \notin Elements(Queue(c, d)')
  BY Zenon DEF Took
<1>5. Missing(c, g)' = Missing(c, g) \ {d}
  BY <1>3, <1>4, ZenonT(60) DEF Missing
<1>6. \A a \in Servers, k \in Groups : a # c \/ k # g => Missing(a, k)' = Missing(a, k)
  BY <1>3, Zenon DEF Missing
<1>7. QED
  BY <1>2, <1>5, <1>6, Zenon

\* The queues after a reply was read.
LEMMA TookQueues ==
    ASSUME Queues, NEW c \in Servers, NEW d \in Servers, NEW g \in Groups, Took(c, d, g),
           phase[c] = "read", phase' = phase, reverseGroups' = reverseGroups
    PROVE  Queues'
<1> SUFFICES ASSUME NEW a \in Servers, NEW b \in Servers
             PROVE  /\ Distinct(Queue(a, b)') /\ Elements(Queue(a, b)') \subseteq GroupsOf(b)
                    /\ phase[a] = "send" => Queue(a, b)' = reverseGroups[a][b]
                    /\ phase[a] \in {"read", "done"} => expected'[<<a, b>>] = Queue(a, b)'
  BY ZenonT(40) DEF Queues
<1>1. CASE <<a, b>> # <<c, d>>
  BY <1>1 DEF Queues, Took
<1>2. CASE a = c /\ b = d
  BY <1>2, Zenon DEF Queues, Took
<1>3. QED
  BY <1>1, <1>2, Zenon

\* The share that came is that of a server that was missing.
LEMMA TookShares ==
    ASSUME CapacityAssumption, Types, Queues, Shares, NEW c \in Servers, NEW d \in Servers,
           NEW g \in Groups, Took(c, d, g),
           partialKey' = [partialKey EXCEPT ![c][g] = Append(partialKey[c][g], d)]
    PROVE  Shares' /\ partialKey' \in [Servers -> [Groups -> Seq(Servers)]]
<1>1. /\ d \in Missing(c, g) /\ Missing(c, g)' = Missing(c, g) \ {d}
      /\ \A a \in Servers, k \in Groups : a # c \/ k # g => Missing(a, k)' = Missing(a, k)
  BY TookMissing
<1>2. /\ partialKey \in [Servers -> [Groups -> Seq(Servers)]] /\ partialKey[c][g] \in Seq(Servers)
  BY DEF Types
<1>3. /\ Distinct(partialKey[c][g]) /\ Elements(partialKey[c][g]) = Members[g] \ Missing(c, g)
  BY Zenon DEF Shares
<1>4. /\ Append(partialKey[c][g], d) \in Seq(Servers) /\ Distinct(Append(partialKey[c][g], d))
      /\ Elements(Append(partialKey[c][g], d)) = Elements(partialKey[c][g]) \cup {d}
  <2>1. d \notin Elements(partialKey[c][g])
    BY <1>1, <1>3, Zenon
  <2>2. \A s \in Seq(Servers) : Distinct(s) /\ d \notin Elements(s) =>
           /\ Append(s, d) \in Seq(Servers) /\ Distinct(Append(s, d))
           /\ Elements(Append(s, d)) = Elements(s) \cup {d}
    BY DistinctAppend
  <2>3. QED
    BY <1>2, <1>3, <2>1, <2>2, ZenonT(60)
<1>5. /\ partialKey'[c][g] = Append(partialKey[c][g], d)
      /\ \A a \in Servers, k \in Groups : a # c \/ k # g => partialKey'[a][k] = partialKey[a][k]
      /\ partialKey' \in [Servers -> [Groups -> Seq(Servers)]]
  BY <1>2, <1>4, UpdateEntry, ZenonT(60)
<1>6. Elements(partialKey'[c][g]) = Members[g] \ Missing(c, g)'
  <2>1. d \in Members[g]
    BY <1>1, Zenon DEF Missing
  <2>2. (Members[g] \ Missing(c, g)) \cup {d} = Members[g] \ (Missing(c, g) \ {d})
    BY <1>1, <2>1, Zenon
  <2>3. QED
    BY <1>1, <1>3, <1>4, <1>5, <2>2, ZenonT(60)
<1>7. ASSUME NEW a \in Servers, NEW k \in Groups
      PROVE  Distinct(partialKey'[a][k]) /\ Elements(partialKey'[a][k]) = Members[k] \ Missing(a, k)'
  <2>1. CASE a # c \/ k # g
    <3>1. Distinct(partialKey[a][k]) /\ Elements(partialKey[a][k]) = Members[k] \ Missing(a, k)
      BY Zenon DEF Shares
    <3>2. QED
      BY <1>1, <1>5, <2>1, <3>1, ZenonT(60)
  <2>2. CASE a = c /\ k = g
    BY <1>4, <1>5, <1>6, <2>2, ZenonT(60)
  <2>3. QED
    BY <2>1, <2>2, Zenon
<1>8. QED
  BY <1>5, <1>7, ZenonT(60) DEF Shares

\* The counter of the group is that of the servers that are missing: it is
\* above zero when a reply is read, and zero after the last one.
LEMMA TookCounts ==
    ASSUME CapacityAssumption, Types, Queues, Counts, NEW c \in Servers, NEW d \in Servers,
           NEW g \in Groups, Took(c, d, g), phase[c] = "read",
           groupCounts' = [groupCounts EXCEPT ![c][g] = groupCounts[c][g] - 1],
           decrypted' = [decrypted EXCEPT ![c] = IF groupCounts[c][g] = 1
                                                 THEN decrypted[c] \cup {g} ELSE decrypted[c]],
           phase' = [phase EXCEPT ![c] = IF groupCounts[c][g] < 1 THEN "panic" ELSE phase[c]]
    PROVE  /\ Counts' /\ phase' = phase /\ groupCounts' \in [Servers -> [Groups -> Nat]]
<1>1. /\ d \in Missing(c, g) /\ Missing(c, g)' = Missing(c, g) \ {d}
      /\ \A a \in Servers, k \in Groups : a # c \/ k # g => Missing(a, k)' = Missing(a, k)
  BY TookMissing
<1>2. PICK n \in Nat, m \in Nat :
         /\ Cardinality(Missing(c, g)) = n + 1 /\ Cardinality(Members[g]) = m
         /\ IsFiniteSet(Missing(c, g) \ {d}) /\ Cardinality(Missing(c, g) \ {d}) = n
  <2>1. IsFiniteSet(Members[g]) /\ IsFiniteSet(Missing(c, g))
    BY FS_Subset, Zenon DEF Missing, CapacityAssumption
  <2>2. Cardinality(Missing(c, g)) \in Nat /\ Cardinality(Members[g]) \in Nat
    BY <2>1, FS_CardinalityType, ZenonT(60)
  <2>3. Cardinality(Missing(c, g)) # 0
    BY <1>1, <2>1, FS_EmptySet, ZenonT(60)
  <2>4. IsFiniteSet(Missing(c, g) \ {d})
        /\ Cardinality(Missing(c, g) \ {d}) = Cardinality(Missing(c, g)) - 1
    BY <1>1, <2>1, FS_RemoveElement, ZenonT(60)
  <2>5. QED
    BY <2>2, <2>3, <2>4
<1>3. groupCounts[c][g] = n + 1 /\ n + 1 <= m /\ g \notin decrypted[c]
  BY <1>1, <1>2, Zenon DEF Counts
<1>4. n <= m /\ ~(n + 1 < 1) /\ n + 1 - 1 = n /\ (n + 1 = 1 => n = 0)
  BY <1>3
<1>5. phase' = phase
  BY <1>3, <1>4, Zenon DEF Types
<1>6. /\ groupCounts'[c][g] = n
      /\ \A a \in Servers, k \in Groups : a # c \/ k # g => groupCounts'[a][k] = groupCounts[a][k]
      /\ groupCounts' \in [Servers -> [Groups -> Nat]]
  <2>1. groupCounts \in [Servers -> [Groups -> Nat]] /\ groupCounts[c][g] - 1 = n
    BY <1>3, <1>4 DEF Types
  <2>2. \A f \in [Servers -> [Groups -> Nat]] : \A h :
           h = [f EXCEPT ![c][g] = n] =>
              /\ h[c][g] = n
              /\ \A a \in Servers, k \in Groups : a # c \/ k # g => h[a][k] = f[a][k]
              /\ h \in [Servers -> [Groups -> Nat]]
    BY UpdateEntry
  <2>3. QED
    BY <2>1, <2>2, ZenonT(60)
<1>7. /\ \A a \in Servers : a # c => decrypted'[a] = decrypted[a]
      /\ \A k \in decrypted'[c] : k \in decrypted[c] \/ (k = g /\ groupCounts[c][g] = 1)
  BY ZenonT(60) DEF Types
<1>8. g \in decrypted'[c] => Missing(c, g)' = {}
  <2>1. g \in decrypted'[c] => n = 0
    BY <1>3, <1>4, <1>7, ZenonT(60)
  <2>2. n = 0 => Missing(c, g) \ {d} = {}
    BY <1>2, EmptyWhenZero, ZenonT(60)
  <2>3. QED
    BY <1>1, <2>1, <2>2, Zenon
<1>9. ASSUME NEW a \in Servers, NEW k \in Groups
      PROVE  /\ groupCounts'[a][k] <= Cardinality(Members[k])
             /\ phase[a] \in {"read", "done"} => groupCounts'[a][k] = Cardinality(Missing(a, k)')
             /\ k \in decrypted'[a] => Missing(a, k)' = {}
  <2>1. CASE a # c \/ k # g
    <3>1. groupCounts'[a][k] = groupCounts[a][k] /\ Missing(a, k)' = Missing(a, k)
      BY <1>1, <1>6, <2>1, ZenonT(60)
    <3>2. k \in decrypted'[a] => k \in decrypted[a]
      BY <1>7, <2>1, ZenonT(60)
    <3>3. QED
      BY <3>1, <3>2, Zenon DEF Counts
  <2>2. CASE a = c /\ k = g
    BY <1>1, <1>2, <1>4, <1>6, <1>8, <2>2, ZenonT(60)
  <2>3. QED
    BY <2>1, <2>2, Zenon
<1>10. QED
  BY <1>5, <1>6, <1>9, ZenonT(60) DEF Counts

\* A reply is read.
LEMMA HandleResponseStep ==
    ASSUME CapacityAssumption, CheckpointIInv, NEW c \in Servers, NEW d \in Servers,
           HandleResponse(c, d)
    PROVE  CheckpointIInv'
<1>1. Types /\ Buffers /\ Orders /\ Writing /\ Queues /\ Shares /\ Counts /\ DoneAll
  BY Zenon DEF CheckpointIInv
<1>2. /\ phase[c] = "read" /\ reply[<<c, d>>] # <<>> /\ expected[<<c, d>>] # <<>>
      /\ expected' = [expected EXCEPT ![<<c, d>>] = Tail(expected[<<c, d>>])]
      /\ reply' = [reply EXCEPT ![<<c, d>>] = Tail(reply[<<c, d>>])]
      /\ UNCHANGED <<reverseGroups, jobs, current, link, handling, crashes>>
  BY ZenonT(60) DEF HandleResponse
<1>3. PICK g \in Groups :
        /\ Took(c, d, g)
        /\ partialKey' = [partialKey EXCEPT ![c][g] = Append(partialKey[c][g], d)]
        /\ groupCounts' = [groupCounts EXCEPT ![c][g] = groupCounts[c][g] - 1]
        /\ decrypted' = [decrypted EXCEPT ![c] = IF groupCounts[c][g] = 1
                                                 THEN decrypted[c] \cup {g} ELSE decrypted[c]]
        /\ phase' = [phase EXCEPT ![c] = IF groupCounts[c][g] < 1 THEN "panic" ELSE phase[c]]
  BY ReplyRead, ZenonT(60)
<1>4. Shares' /\ partialKey' \in [Servers -> [Groups -> Seq(Servers)]]
  BY <1>1, <1>3, TookShares, ZenonT(60)
<1>5. Counts' /\ phase' = phase /\ groupCounts' \in [Servers -> [Groups -> Nat]]
  BY <1>1, <1>2, <1>3, TookCounts, ZenonT(60)
<1>6. Queues'
  BY <1>1, <1>2, <1>3, <1>5, TookQueues, ZenonT(60)
<1>7. /\ Tail(reply[<<c, d>>]) \in Seq(Groups) /\ Tail(expected[<<c, d>>]) \in Seq(Groups)
      /\ Len(reply[<<c, d>>]) \in Nat /\ Len(Tail(reply[<<c, d>>])) = Len(reply[<<c, d>>]) - 1
  <2>1. reply[<<c, d>>] \in Seq(Groups) /\ expected[<<c, d>>] \in Seq(Groups)
    BY <1>1, QueueTypes, Zenon
  <2>2. QED
    BY <1>2, <2>1, Rest, Zenon
<1>8. Types'
  <2>1. reply' \in [Links -> Seq(Groups)] /\ expected' \in [Links -> Seq(Groups)]
    BY <1>1, <1>2, <1>7, ZenonT(60) DEF Types, Links
  <2>2. decrypted' \in [Servers -> SUBSET Groups]
    BY <1>1, <1>3, ZenonT(60) DEF Types
  <2>3. QED
    BY <1>1, <1>2, <1>4, <1>5, <2>1, <2>2, ZenonT(60) DEF Types
<1>9. Orders' /\ Writing'
  BY <1>1, <1>2, Zenon DEF Orders, Writing
<1>10. Buffers'
  <2> SUFFICES ASSUME NEW a \in Servers, NEW b \in Servers, a # b
               PROVE  Len(link[<<a, b>>]) <= LinkCapacity /\ Len(reply'[<<a, b>>]) <= ReplyCapacity
    BY <1>2, ZenonT(60) DEF Buffers
  <2>1. Len(link[<<a, b>>]) <= LinkCapacity /\ Len(reply[<<a, b>>]) <= ReplyCapacity
    BY <1>1, Zenon DEF Buffers
  <2>2. reply'[<<a, b>>] = IF a = c /\ b = d THEN Tail(reply[<<c, d>>]) ELSE reply[<<a, b>>]
    BY <1>1, <1>2, ZenonT(60) DEF Types, Links
  <2>3. ReplyCapacity \in Nat
    BY Zenon DEF CapacityAssumption
  <2>4. CASE a = c /\ b = d
    BY <1>7, <2>1, <2>2, <2>3, <2>4
  <2>5. CASE ~(a = c /\ b = d)
    BY <2>1, <2>2, <2>5, Zenon
  <2>6. QED
    BY <2>4, <2>5, Zenon
<1>11. DoneAll'
  <2>1. \A a \in Servers : decrypted[a] \subseteq decrypted'[a] /\ decrypted'[a] \subseteq Groups
    BY <1>1, <1>3, ZenonT(60) DEF Types
  <2>2. QED
    BY <1>1, <1>5, <2>1, ZenonT(60) DEF DoneAll
<1>12. QED
  BY <1>4, <1>5, <1>6, <1>8, <1>9, <1>10, <1>11, Zenon DEF CheckpointIInv

\* Every step keeps the invariant.
LEMMA CheckpointStep ==
    ASSUME CapacityAssumption, CheckpointIInv, [Next]_vars
    PROVE  CheckpointIInv'
<1>1. CASE UNCHANGED vars
  <2>1. UNCHANGED <<reverseGroups, jobs, current, link, handling, reply, expected, partialKey,
                    groupCounts, decrypted, phase, crashes>>
    BY <1>1, Zenon DEF vars
  <2>2. \A a, b \in Servers : Queue(a, b)' = Queue(a, b)
    BY <2>1, UnwrittenSame, QueueSame, Zenon
  <2>3. Orders' /\ Queues' /\ Shares' /\ Counts'
    BY <2>1, <2>2, QueuesKept, Zenon
  <2>4. Types' /\ Buffers' /\ Writing' /\ DoneAll'
    BY <2>1, Zenon DEF CheckpointIInv, Types, Buffers, Writing, DoneAll
  <2>5. QED
    BY <2>3, <2>4, Zenon DEF CheckpointIInv
<1>2. CASE \E a \in Servers : NextJob(a)
  BY <1>2, NextJobStep, Zenon
<1>3. CASE \E a \in Servers : Send(a)
  BY <1>3, SendStep, Zenon
<1>4. CASE \E a \in Servers : StartReaders(a)
  BY <1>4, StartReadersStep, Zenon
<1>5. CASE \E a \in Servers : Finish(a) \/ Panic(a) \/ Crash(a)
  BY <1>5, PhaseStep, Zenon
<1>6. CASE \E a, b \in Servers : Receive(a, b)
  BY <1>6, ReceiveStep, Zenon
<1>7. CASE \E a, b \in Servers : Respond(a, b)
  BY <1>7, RespondStep, Zenon
<1>8. CASE \E a, b \in Servers : HandleResponse(a, b)
  BY <1>8, HandleResponseStep, Zenon
<1>9. QED
  BY <1>1, <1>2, <1>3, <1>4, <1>5, <1>6, <1>7, <1>8, ZenonT(40) DEF Next, Step

\* What the invariant says of types, of keys and of groups.
LEMMA CheckpointImplies ==
    ASSUME CapacityAssumption, CheckpointIInv
    PROVE  ExchangeInv
<1>1. Types /\ Buffers /\ Shares /\ Counts /\ DoneAll
  BY Zenon DEF CheckpointIInv
<1>2. \A S : \A s \in Seq(S) : Range(s) = Elements(s)
  BY DEF Range, Elements
<1>3. \A S : \A s \in Seq(S) : Elements(s) \subseteq S
  BY DEF Elements
<1>4. \A g \in Groups : IsFiniteSet(Members[g]) /\ Cardinality(Members[g]) \in Nat
  BY FS_Subset, FS_CardinalityType, Zenon DEF CapacityAssumption
<1>5. TypeOK
  <2>1. ASSUME NEW a \in Servers, NEW b \in Servers
        PROVE  /\ a = b \/ (Len(link[<<a, b>>]) <= LinkCapacity /\ Len(reply[<<a, b>>]) <= ReplyCapacity)
               /\ handling[<<a, b>>] \in Groups \cup {None}
               /\ Range(link[<<a, b>>]) \cup Range(reply[<<a, b>>]) \cup Range(expected[<<a, b>>])
                    \subseteq Groups
    <3>1. link[<<a, b>>] \in Seq(Groups) /\ reply[<<a, b>>] \in Seq(Groups)
          /\ expected[<<a, b>>] \in Seq(Groups)
      BY <1>1, QueueTypes, Zenon
    <3>2. Range(link[<<a, b>>]) \subseteq Groups /\ Range(reply[<<a, b>>]) \subseteq Groups
          /\ Range(expected[<<a, b>>]) \subseteq Groups
      BY <1>2, <1>3, <3>1, ZenonT(60)
    <3>3. handling[<<a, b>>] \in Groups \cup {None}
      BY <1>1, Zenon DEF Types, Links
    <3>4. QED
      BY <1>1, <3>2, <3>3, SMTT(60) DEF Buffers
  <2>2. \A l \in Links : l = <<l[1], l[2]>> /\ l[1] \in Servers /\ l[2] \in Servers
    BY DEF Links
  <2>3. \A l \in Links :
            /\ l[1] = l[2] \/ (Len(link[l]) <= LinkCapacity /\ Len(reply[l]) <= ReplyCapacity)
            /\ handling[l] \in Groups \cup {None}
            /\ Range(link[l]) \cup Range(reply[l]) \cup Range(expected[l]) \subseteq Groups
    <3> TAKE l \in Links
    <3> SUFFICES ASSUME NEW a \in Servers, NEW b \in Servers, l = <<a, b>>, a = l[1], b = l[2]
                 PROVE  /\ l[1] = l[2] \/ (Len(link[l]) <= LinkCapacity /\ Len(reply[l]) <= ReplyCapacity)
                        /\ handling[l] \in Groups \cup {None}
                        /\ Range(link[l]) \cup Range(reply[l]) \cup Range(expected[l]) \subseteq Groups
      BY <2>2, Zenon
    <3>1. QED
      BY <2>1, Zenon
  <2>4. ASSUME NEW a \in Servers
        PROVE  /\ jobs[a] \subseteq Servers /\ decrypted[a] \subseteq Groups
               /\ current[a] = Idle \/ (current[a].to \in Servers /\ current[a].rest # <<>>)
               /\ \A g \in Groups : groupCounts[a][g] \in 0 .. Cardinality(Members[g])
               /\ phase[a] \in {"send", "read", "done", "panic"}
    <3>1. jobs[a] \subseteq Servers /\ decrypted[a] \subseteq Groups
          /\ phase[a] \in {"send", "read", "done", "panic"}
      BY <1>1, Zenon DEF Types
    <3>2. current[a] = Idle \/ (current[a].to \in Servers /\ current[a].rest # <<>>)
      BY <1>1, SMTT(60) DEF Types
    <3>3. \A g \in Groups : groupCounts[a][g] \in 0 .. Cardinality(Members[g])
      BY <1>1, <1>4 DEF Types, Counts
    <3>4. QED
      BY <3>1, <3>2, <3>3, Zenon
  <2>5. crashes \in 0 .. MaxCrashes
    BY <1>1, Zenon DEF Types
  <2>6. QED
    BY <2>3, <2>4, <2>5, Zenon DEF TypeOK
<1>6. DecryptedWithAll
  <2> SUFFICES ASSUME NEW a \in Servers, NEW g \in decrypted[a]
               PROVE  /\ Range(partialKey[a][g]) = Members[g]
                      /\ Len(partialKey[a][g]) = Cardinality(Members[g])
    BY <1>1, Zenon DEF DecryptedWithAll, DoneAll
  <2>1. g \in Groups
    BY <1>1, Zenon DEF Types
  <2>2. partialKey[a][g] \in Seq(Servers)
    BY <1>1, <2>1 DEF Types
  <2>3. Distinct(partialKey[a][g]) /\ Elements(partialKey[a][g]) = Members[g]
    <3>1. Missing(a, g) = {}
      BY <1>1, <2>1, Zenon DEF Counts
    <3>2. QED
      BY <1>1, <2>1, <3>1, ZenonT(60) DEF Shares
  <2>4. Cardinality(Elements(partialKey[a][g])) = Len(partialKey[a][g])
    BY <2>2, <2>3, DistinctLength, Zenon
  <2>5. QED
    BY <1>2, <2>2, <2>3, <2>4, Zenon
<1>7. QED
  BY <1>5, <1>6, Zenon DEF ExchangeInv

\* A group is decrypted with the partial keys of all its members, each one
\* once, and a server goes on with all groups decrypted: for any servers and
\* groups, any order in which the callers list them, any buffers that carry
\* the exchange and any servers lost (checkpointSender.go).
THEOREM AllShares ==
    ASSUME CapacityAssumption
    PROVE  Spec => []ExchangeInv
<1>1. Init => CheckpointIInv
  BY CheckpointInit, Zenon
<1>2. CheckpointIInv /\ [Next]_vars => CheckpointIInv'
  BY CheckpointStep, Zenon
<1>3. CheckpointIInv => ExchangeInv
  BY CheckpointImplies, Zenon
<1>4. QED
  BY <1>1, <1>2, <1>3, PTL DEF Spec
=============================================================================
