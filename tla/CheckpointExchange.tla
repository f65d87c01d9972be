------------------------ MODULE CheckpointExchange ------------------------
(***************************************************************************)
(* The exchange with the anytrust groups at the checkpoint: every server   *)
(* sends the tokens of its messages to the members of every group and      *)
(* waits for their partial keys (CheckpointSender.SendAndRecieve in        *)
(* server/processMessages/checkpointSender.go).                            *)
(*                                                                         *)
(* SendGroupShuffleMessages writes, to one server after the other, the     *)
(* token messages of all the groups the server is in.  Only when the last  *)
(* write has returned are the goroutines started that read the replies.    *)
(* On the other side of a connection HandleTcpStream takes one message at  *)
(* a time and writes its reply before it reads the next one.  A write      *)
(* blocks while the buffers of its direction are full, except on the       *)
(* connection of a server to itself, which is in memory.                   *)
(*                                                                         *)
(* Both directions of the connection from a to b are sequences of group    *)
(* numbers: the message, or the reply, of one group is one element, and    *)
(* LinkCapacity and ReplyCapacity count how many of them the buffers hold. *)
(* A reply is accumulated under the keys it carries, that is, for its own  *)
(* group; the counter it decrements is that of the group the reader        *)
(* expects.  A server that panics closes its connections.                  *)
(***************************************************************************)
EXTENDS Integers, FiniteSets, Sequences, Functions

CONSTANTS
    Servers,
    Groups,
    Members,         \* [Groups -> SUBSET Servers]
    LinkCapacity,
    ReplyCapacity,
    MaxCrashes,      \* bound on servers that stop by themselves
    None             \* no group, no server

(* The buffers that the exchange needs: a server that is in n groups gets  *)
(* n messages from a peer before the first reply is read.  One of them is  *)
(* with its handler, ReplyCapacity are answered and LinkCapacity wait.     *)
CapacityAssumption ==
    /\ IsFiniteSet(Servers) /\ IsFiniteSet(Groups) /\ MaxCrashes \in Nat
    /\ None \notin Servers \cup Groups
    /\ \A g \in Groups : Members[g] # {} /\ Members[g] \subseteq Servers
    /\ {LinkCapacity, ReplyCapacity} \subseteq Nat \ {0}
    /\ \A s \in Servers :
        Cardinality({g \in Groups : s \in Members[g]}) <= LinkCapacity + ReplyCapacity + 1

VARIABLES
    reverseGroups,   \* [Servers -> [Servers -> Seq(Groups)]]: of each server's own Caller
    jobs,            \* [Servers -> SUBSET Servers]: servers still to be written to
    current,         \* [Servers -> [to, rest]]: the write in progress
    link,            \* [Links -> Seq(Groups)]: token messages in the buffers
    handling,        \* [Links -> Groups or None]: the message with HandleTcpStream
    reply,           \* [Links -> Seq(Groups)]: replies in the buffers
    expected,        \* [Links -> Seq(Groups)]: what the reader of b's replies still reads
    partialKey,      \* [Servers -> [Groups -> Seq(Servers)]]: the shares accumulated
    groupCounts,     \* [Servers -> [Groups -> Int]]
    decrypted,       \* [Servers -> SUBSET Groups]
    phase,           \* [Servers -> {"send", "read", "done", "panic"}]
    crashes

Links == Servers \X Servers
Idle == [to |-> None, rest |-> <<>>]
vars == <<reverseGroups, jobs, current, link, handling, reply, expected, partialKey,
          groupCounts, decrypted, phase, crashes>>

Alive(s) == phase[s] # "panic"

(* Caller.SetGroups ranges over a map: the groups of a server come in any  *)
(* order, and in another one at every caller.                              *)
GroupsOf(s) == {g \in Groups : s \in Members[g]}
SetGroups(s) == Bijection(1 .. Cardinality(GroupsOf(s)), GroupsOf(s))

Init ==
    /\ reverseGroups \in [Servers -> {f \in [Servers -> UNION {SetGroups(s) : s \in Servers}] :
                                        \A s \in Servers : f[s] \in SetGroups(s)}]
    /\ jobs = [a \in Servers |-> Servers]
    /\ current = [a \in Servers |-> Idle]
    /\ link = [l \in Links |-> <<>>] /\ reply = [l \in Links |-> <<>>]
    /\ handling = [l \in Links |-> None]
    /\ expected = [l \in Links |-> <<>>]
    /\ partialKey = [a \in Servers |-> [g \in Groups |-> <<>>]]
    /\ groupCounts = [a \in Servers |-> [g \in Groups |-> 0]]
    /\ decrypted = [a \in Servers |-> {}]
    /\ phase = [a \in Servers |-> "send"]
    /\ crashes = 0

(* The next server of GetJobs; the order is that of the measured latencies. *)
NextJob(a) ==
    /\ phase[a] = "send" /\ current[a] = Idle
    /\ \E b \in jobs[a] :
        /\ jobs' = [jobs EXCEPT ![a] = @ \ {b}]
        /\ current' = [current EXCEPT ![a] = IF reverseGroups[a][b] = <<>> THEN Idle
                                             ELSE [to |-> b, rest |-> reverseGroups[a][b]]]
    /\ UNCHANGED <<reverseGroups, link, handling, reply, expected, partialKey, groupCounts,
                   decrypted, phase, crashes>>

(* The connection of a server to itself is a pair of growing buffers. *)
Room(a, b, buffer, capacity) == a = b \/ Len(buffer) < capacity

(* One message of the concatenation enters the buffers of the connection. *)
Send(a) ==
    LET b == current[a].to IN
    /\ phase[a] = "send" /\ current[a] # Idle
    /\ Alive(b) /\ Room(a, b, link[a, b], LinkCapacity)
    /\ link' = [link EXCEPT ![<<a, b>>] = Append(@, Head(current[a].rest))]
    /\ current' = [current EXCEPT ![a] = IF Len(@.rest) = 1 THEN Idle
                                         ELSE [to |-> b, rest |-> Tail(@.rest)]]
    /\ UNCHANGED <<reverseGroups, jobs, handling, reply, expected, partialKey, groupCounts,
                   decrypted, phase, crashes>>

(* Slip: every group is counted as if it held all servers. *)
GroupSizeAll(g) == Cardinality(Servers)
(* len(g.Servers). *)
GroupSize(g) == Cardinality(Members[g])

(* Slip: the replies are read in another order than the messages were sent. *)
ReadOrderReversed(a, b) ==
    LET order == reverseGroups[a][b] IN [i \in DOMAIN order |-> order[Len(order) + 1 - i]]
ReadOrder(a, b) == reverseGroups[a][b]

(* All writes have returned: the counters are set, the readers started. *)
StartReaders(a) ==
    /\ phase[a] = "send" /\ jobs[a] = {} /\ current[a] = Idle
    /\ phase' = [phase EXCEPT ![a] = "read"]
    /\ groupCounts' = [groupCounts EXCEPT ![a] = [g \in Groups |-> GroupSize(g)]]
    /\ expected' = [l \in Links |-> IF l[1] = a THEN ReadOrder(a, l[2]) ELSE expected[l]]
    /\ UNCHANGED <<reverseGroups, jobs, current, link, handling, reply, partialKey, decrypted,
                   crashes>>

(* HandleTcpStream and WorkerPoolProcessGroup at b, up to the reply. *)
Receive(a, b) ==
    /\ Alive(b) /\ handling[a, b] = None /\ link[a, b] # <<>>
    /\ handling' = [handling EXCEPT ![<<a, b>>] = Head(link[a, b])]
    /\ link' = [link EXCEPT ![<<a, b>>] = Tail(@)]
    /\ UNCHANGED <<reverseGroups, jobs, current, reply, expected, partialKey, groupCounts,
                   decrypted, phase, crashes>>

(* stream.Send(response): the handler goes on when the reply is written. *)
Respond(a, b) ==
    /\ Alive(a) /\ Alive(b) /\ handling[a, b] # None
    /\ Room(a, b, reply[a, b], ReplyCapacity)
    /\ reply' = [reply EXCEPT ![<<a, b>>] = Append(@, handling[a, b])]
    /\ handling' = [handling EXCEPT ![<<a, b>>] = None]
    /\ UNCHANGED <<reverseGroups, jobs, current, link, expected, partialKey, groupCounts,
                   decrypted, phase, crashes>>

(* Slip: a group is decrypted when one reply is still missing. *)
LastReplyEarly(a, g) == groupCounts[a][g] = 2
(* groupCounts[gid] is zero after this reply. *)
LastReply(a, g) == groupCounts[a][g] = 1

(* The goroutine of server b's replies reads the next one, accumulates its *)
(* partial keys and counts it, all under the lock of the group.  The last  *)
(* one of a group decrypts the group; a counter below zero panics.         *)
HandleResponse(a, b) ==
    LET g == Head(expected[a, b])
        carried == Head(reply[a, b])
    IN
    /\ phase[a] = "read" /\ expected[a, b] # <<>> /\ reply[a, b] # <<>>
    /\ expected' = [expected EXCEPT ![<<a, b>>] = Tail(@)]
    /\ reply' = [reply EXCEPT ![<<a, b>>] = Tail(@)]
    /\ partialKey' = [partialKey EXCEPT ![a][carried] = Append(@, b)]
    /\ groupCounts' = [groupCounts EXCEPT ![a][g] = @ - 1]
    /\ decrypted' = [decrypted EXCEPT ![a] = IF LastReply(a, g) THEN @ \cup {g} ELSE @]
    /\ phase' = [phase EXCEPT ![a] = IF groupCounts[a][g] < 1 THEN "panic" ELSE @]
    /\ UNCHANGED <<reverseGroups, jobs, current, link, handling, crashes>>

(* One value of the channel done for every group. *)
Finish(a) ==
    /\ phase[a] = "read" /\ decrypted[a] = Groups
    /\ phase' = [phase EXCEPT ![a] = "done"]
    /\ UNCHANGED <<reverseGroups, jobs, current, link, handling, reply, expected, partialKey,
                   groupCounts, decrypted, crashes>>

(* Slip: the error of a read is not reported, the reader just waits. *)
BrokenUnreported(a) == phase[a] = "send" /\ current[a] # Idle /\ ~Alive(current[a].to)
(* An operation of a on the connection with a server that has stopped: the *)
(* write of tokens, the read of a reply, and the reply of a handler.  An   *)
(* error of the first two ends SendAndRecieve and OnThreshold panics; the  *)
(* handler's reaches errorHandler.                                         *)
Broken(a) ==
    \/ phase[a] = "send" /\ current[a] # Idle /\ ~Alive(current[a].to)
    \/ phase[a] = "read" /\ \E b \in Servers : expected[a, b] # <<>> /\ ~Alive(b)
    \/ \E b \in Servers : handling[b, a] # None /\ ~Alive(b)

Panic(a) ==
    /\ Alive(a) /\ Broken(a)
    /\ phase' = [phase EXCEPT ![a] = "panic"]
    /\ UNCHANGED <<reverseGroups, jobs, current, link, handling, reply, expected, partialKey,
                   groupCounts, decrypted, crashes>>

(* The process of a server ends for a reason outside of the exchange. *)
Crash(a) ==
    /\ Alive(a) /\ crashes < MaxCrashes
    /\ crashes' = crashes + 1
    /\ phase' = [phase EXCEPT ![a] = "panic"]
    /\ UNCHANGED <<reverseGroups, jobs, current, link, handling, reply, expected, partialKey,
                   groupCounts, decrypted>>

Step ==
    \/ \E a \in Servers : NextJob(a) \/ Send(a) \/ StartReaders(a) \/ Finish(a) \/ Panic(a)
    \/ \E a, b \in Servers : Receive(a, b) \/ Respond(a, b) \/ HandleResponse(a, b)

Next == Step \/ \E a \in Servers : Crash(a)

(* Threads that can run do run; the number of steps is bounded. *)
Spec == Init /\ [][Next]_vars /\ WF_vars(Step)

(***************************************************************************)
(* Properties.                                                             *)
(***************************************************************************)

(* The buffers hold what they can hold, and a counter is that of a group.  *)
TypeOK ==
    /\ \A l \in Links :
        /\ l[1] = l[2] \/ (Len(link[l]) <= LinkCapacity /\ Len(reply[l]) <= ReplyCapacity)
        /\ handling[l] \in Groups \cup {None}
        /\ Range(link[l]) \cup Range(reply[l]) \cup Range(expected[l]) \subseteq Groups
    /\ \A a \in Servers :
        /\ jobs[a] \subseteq Servers /\ decrypted[a] \subseteq Groups
        /\ current[a] = Idle \/ (current[a].to \in Servers /\ current[a].rest # <<>>)
        /\ \A g \in Groups : groupCounts[a][g] \in 0 .. Cardinality(Members[g])
        /\ phase[a] \in {"send", "read", "done", "panic"}
    /\ crashes \in 0 .. MaxCrashes

(* DecryptGroup(gid) runs on the sum of the partial keys of all members of *)
(* the group, each one once, although the counter only says how many       *)
(* replies were read for it and the replies of one member come in the      *)
(* order of this server's own map iteration (checkpointSender.go:74-87);   *)
(* and a server that goes on has decrypted every group.                    *)
DecryptedWithAll ==
    \A a \in Servers :
        /\ \A g \in decrypted[a] :
            /\ Range(partialKey[a][g]) = Members[g]
            /\ Len(partialKey[a][g]) = Cardinality(Members[g])
        /\ phase[a] = "done" => decrypted[a] = Groups

(* Replies and counters belong together at every server, also when a peer  *)
(* is lost on the way.                                                     *)
ExchangeInv == TypeOK /\ DecryptedWithAll

(* "this waits for all groups to respond" (server.go:272): the wait ends   *)
(* at every server, in the reply of all groups or in the panic that        *)
(* follows the loss of a peer.  No server is left between a full           *)
(* connection and a reply it does not read yet.                            *)
Settled == \A a \in Servers : phase[a] \in {"done", "panic"}
===========================================================================
