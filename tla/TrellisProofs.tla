--------------------------- MODULE TrellisProofs ---------------------------
(***************************************************************************)
(* For any servers, layers, clients, groups, links and orders of sending:  *)
(* the servers go through the layers of every round in step.               *)
(***************************************************************************)
EXTENDS Trellis, TLAPS

-----------------------------------------------------------------------------
(* Where the servers are in the layers of the current round.               *)

\* The layers of round r are counted from the first one that batches are sent to.
Place(r, l) == IF IsPath(r) THEN r - l ELSE l - 1
Top(r) == IF IsPath(r) THEN r - ReceiptLayer(r) ELSE NumLayers - 2
Pos(l) == Place(round, l)

\* The server has begun the round, and its fields show its place in it.
Placed(s) == rpc[s] \notin {"start", "reset"} \/ ~IsPath(round)
At(s) == IF Placed(s) THEN Pos(srv[s].layer) ELSE -1

\* The batches of the layers below Emitted(s) are those s has sent or is sending.
Asking(s) == mu[s] = "next" /\ job[s].kind = "tokens"
Emitted(s) == IF Asking(s) \/ At(s) > Top(round) THEN At(s) ELSE At(s) + 1

\* The batches of the layers below Taken(d, s) are those d has taken from s.
Taken(d, s) ==
    IF ~Placed(d) \/ Pos(sync[d].layer) < 0 THEN 0
    ELSE IF s \in sync[d].started THEN Pos(sync[d].layer) + 1
    ELSE Pos(sync[d].layer)

\* Batches that go from layer to layer.
OfLayer(b) == b.type \in {"Path", "Reverse", "Forward"}

\* The senders whose batch of the layer is being processed.
Working(d) == {s \in Servers : OfLayer(hand[d][s].batch)}

-----------------------------------------------------------------------------
(* The inductive invariant.                                                *)

Elements(w) == {w[i] : i \in 1 .. Len(w)}
IsSeq(w) == w \in Seq(Elements(w))

Proper(b) ==
    /\ b.dest \in Servers /\ b.layer \in Int
    /\ \/ OfLayer(b) /\ b.group = Nil
       \/ b.type \in {"Token", "Signature"} /\ b.group \in Groups
Batches(w) == IsSeq(w) /\ \A i \in 1 .. Len(w) : Proper(w[i])

Fields == {"round", "layer", "path", "pathLayer", "receiptLayer", "complete", "started", "fail",
           "receipts", "keys", "used", "parsers", "routers", "paths", "tokens", "final"}

\* The part of a server's record the layers depend on.
Shape(r) ==
    /\ DOMAIN r = Fields
    /\ r.layer \in Int /\ r.pathLayer \in Int /\ r.receiptLayer \in Int
    /\ r.path \in BOOLEAN /\ r.complete \in BOOLEAN
    /\ r.routers \in [Layers -> [Servers -> SUBSET Clients] \cup {Nil}]
    /\ r.tokens \in [Groups -> SUBSET Clients]

\* A change of a server's record that its place in the layers does not depend on.
Keeps(r, q) ==
    /\ Shape(q)
    /\ q.layer = r.layer /\ q.path = r.path /\ q.pathLayer = r.pathLayer
    /\ q.receiptLayer = r.receiptLayer /\ q.complete = r.complete
    /\ \A l \in Layers : r.routers[l] # Nil => q.routers[l] # Nil

Calls == {"setup", "setupGroups", "start", "reset", "send", "trigger", "wait", "groups", "done"}
Holders == {"free", "setup", "start", "next"}
Syncs == [layer : Int, started : SUBSET Servers, processed : Nat,
          trig : {"none", "spawned", "locked", "called"}, next : Int]

\* The types of the variables.
ControlTypes ==
    /\ round \in 0 .. LastRound /\ phase \in {"setup", "clients", "start", "check", "end"}
    /\ DOMAIN rpc = Servers /\ DOMAIN mu = Servers /\ DOMAIN sync = Servers
    /\ \A s \in Servers : rpc[s] \in Calls /\ mu[s] \in Holders /\ sync[s] \in Syncs
ServerTypes ==
    /\ DOMAIN srv = Servers /\ \A s \in Servers : Shape(srv[s])
    /\ DOMAIN job = Servers
    /\ \A s \in Servers : mu[s] = "next" => job[s] = [kind |-> job[s].kind, layer |-> job[s].layer]
LinkTypes ==
    /\ DOMAIN out = Servers /\ DOMAIN link = Servers
    /\ \A s \in Servers :
        /\ Batches(out[s]) /\ DOMAIN link[s] = Servers
        /\ \A d \in Servers : Batches(link[s][d])
HandTypes ==
    /\ DOMAIN hand = Servers
    /\ \A d \in Servers :
        /\ DOMAIN hand[d] = Servers
        /\ \A s \in Servers :
            /\ hand[d][s] = [batch |-> hand[d][s].batch, jobs |-> hand[d][s].jobs]
            /\ hand[d][s].batch = NoBatch \/ Proper(hand[d][s].batch)
Types == ControlTypes /\ ServerTypes /\ LinkTypes /\ HandTypes

\* Who holds Server.mu.
Holds ==
    \A s \in Servers :
        /\ mu[s] = "start" <=> rpc[s] \in {"reset", "send"}
        /\ mu[s] = "setup" <=> rpc[s] = "setupGroups"

\* The elements of S can be numbered from 1 to n.
Numbers(f, n, S) ==
    /\ f \in [1 .. n -> S] /\ \A i, j \in 1 .. n : f[i] = f[j] => i = j
    /\ \A x \in S : \E i \in 1 .. n : f[i] = x
Counts(n, S) == n \in Nat /\ \E f \in [1 .. n -> S] : Numbers(f, n, S)

\* Synchronizer y, in the layer at place q, counts the batches; those from w are being
\* processed.
Counted(y, w, q) ==
    /\ w \subseteq y.started /\ Counts(y.processed, y.started \ w)
    /\ y.trig = "none" => y.processed # NumServers
    /\ y.trig # "none" => w = {}
    /\ IF q < 0 THEN y.started = {} ELSE y.trig # "none" => y.started = Servers
Counting(s) == Counted(sync[s], Working(s), Pos(sync[s].layer))

\* A server that has its place in the round.
InRound(s) ==
    /\ At(s) <= Top(round) + 1 /\ At(s) >= IF IsPath(round) THEN 0 ELSE -1
    /\ srv[s].receiptLayer = IF IsPath(round) THEN ReceiptLayer(round) ELSE -1
    /\ At(s) <= Top(round) => srv[s].layer \in Layers /\ srv[s].routers[srv[s].layer] # Nil
    /\ IF sync[s].trig = "called"
       THEN sync[s].next = srv[s].layer /\ Pos(sync[s].layer) = At(s) - 1
       ELSE sync[s].layer = srv[s].layer
    /\ Counting(s)
    /\ srv[s].complete => At(s) = Top(round) + 1 /\ mu[s] # "next"
    /\ mu[s] = "next" =>
        /\ job[s].layer # srv[s].layer
        /\ job[s].kind \in {"receipt", "trustees"} => At(s) = Top(round) + 1
        /\ job[s].kind = "tokens" => At(s) <= Top(round)
    /\ rpc[s] \in {"groups", "done"} => srv[s].complete
    /\ rpc[s] = "start" => At(s) = -1 /\ sync[s].trig = "none" /\ ~srv[s].complete

\* A server that has yet to begin a path round.
Resting(s) ==
    /\ Working(s) = {} /\ sync[s].trig \in {"none", "called"} /\ mu[s] # "next"
    /\ sync[s].layer < round /\ (sync[s].trig = "called" => sync[s].next < round)
    /\ rpc[s] = "reset" =>
        /\ srv[s].layer = round /\ srv[s].pathLayer = round
        /\ srv[s].receiptLayer = ReceiptLayer(round) /\ ~srv[s].complete
        /\ srv[s].layer \in Layers /\ srv[s].routers[srv[s].layer] # Nil

\* The batches w on a link to d and o behind it: m layers are sent or begun, of which d
\* has taken k.
Line(r, w, o, d, k, m) ==
    /\ k <= m
    /\ \A i \in 1 .. Len(w) : OfLayer(w[i]) => k <= Place(r, w[i].layer) /\ Place(r, w[i].layer) < m
    /\ \A i, j \in 1 .. Len(w) :
        OfLayer(w[i]) /\ OfLayer(w[j]) /\ i < j => Place(r, w[i].layer) < Place(r, w[j].layer)
    /\ \A i \in 1 .. Len(o) :
        OfLayer(o[i]) /\ o[i].dest = d =>
            /\ Place(r, o[i].layer) = m - 1 /\ k < m
            /\ \A j \in 1 .. Len(w) : OfLayer(w[j]) => Place(r, w[j].layer) < m - 1
            /\ \A j \in 1 .. Len(o) : OfLayer(o[j]) /\ o[j].dest = d => j = i
Queue(s, d) == Line(round, link[s][d], out[s], d, Taken(d, s), Emitted(s))

\* While a round runs.
Local(s) ==
    /\ rpc[s] \notin {"setup", "setupGroups"} /\ (srv[s].path <=> IsPath(round))
    /\ rpc[s] \in {"reset", "send"} => IsPath(round)
    /\ IF Placed(s) THEN InRound(s) ELSE Resting(s)
Running ==
    /\ round > 0
    /\ \A s \in Servers : Local(s)
    /\ \A s, d \in Servers : Queue(s, d) /\ At(s) <= At(d) + 1

\* The server is set up.
Fresh(s) ==
    IF IsPath(round) THEN srv[s].path /\ sync[s].layer = 0 /\ sync[s].trig = "none"
    ELSE /\ ~srv[s].path /\ ~srv[s].complete /\ srv[s].layer = 0 /\ srv[s].receiptLayer = -1
         /\ srv[s].layer \in Layers /\ srv[s].routers[srv[s].layer] # Nil
         /\ sync[s] = NewSynchronizer(0)

\* Between two rounds.
Still(s) ==
    /\ Working(s) = {} /\ sync[s].trig \in {"none", "called"} /\ mu[s] # "next"
    /\ IF phase = "setup" THEN rpc[s] \in {"setup", "setupGroups", "done"} ELSE rpc[s] = "done"
    /\ (phase = "setup" /\ rpc[s] # "setup") \/ phase = "clients" => Fresh(s)
    /\ phase \in {"check", "end"} =>
        /\ srv[s].path <=> IsPath(round)
        /\ IsPath(round) => /\ sync[s].layer <= round
                            /\ sync[s].trig = "called" => sync[s].next <= round
NoLayers(w) == \A i \in 1 .. Len(w) : ~OfLayer(w[i])
Quiet ==
    /\ phase \in {"setup", "clients"} /\ IsPath(round) => round = 0
    /\ \A s \in Servers : Still(s) /\ NoLayers(out[s]) /\ \A d \in Servers : NoLayers(link[s][d])

\* Only the value for server s changes from f to g.
Only(f, g, s, v) == DOMAIN g = Servers /\ g[s] = v /\ \A t \in Servers \ {s} : g[t] = f[t]

\* In a step, the values of server s become a (rpc), m (mu), y (sync), q (srv), j (job), o (out).
Moves(s, a, m, y, q, j, o) ==
    /\ Only(rpc, rpc', s, a) /\ Only(mu, mu', s, m) /\ Only(sync, sync', s, y)
    /\ Only(srv, srv', s, q) /\ Only(job, job', s, j) /\ Only(out, out', s, o)
    /\ UNCHANGED <<round, phase, link, hand>>

\* They have their types and agree on who holds Server.mu.
Fits(a, m, y, q, j, o) ==
    /\ a \in Calls /\ m \in Holders /\ y \in Syncs /\ Shape(q) /\ Batches(o)
    /\ m = "next" => j = [kind |-> j.kind, layer |-> j.layer]
    /\ m = "start" <=> a \in {"reset", "send"}
    /\ m = "setup" <=> a = "setupGroups"

\* The server stays in its layer and takes no batch.
Stays(s, a, m, y, q, j) ==
    /\ a \in {"send", "trigger", "wait", "groups", "done"} \/ a = rpc[s]
    /\ a \in {"groups", "done"} => srv[s].complete
    /\ a = "send" => IsPath(round)
    /\ a = "start" => y.trig = "none"
    /\ (m = mu[s] /\ j = job[s]) \/ (m # "next" /\ mu[s] # "next")
    /\ y.layer = sync[s].layer /\ y.next = sync[s].next /\ y.started = sync[s].started
    /\ y.trig = "called" <=> sync[s].trig = "called"
    /\ Keeps(srv[s], q) /\ Counted(y, Working(s), Pos(sync[s].layer))

\* What a step leaves of the view server t has of the layers.
SameView(t) ==
    /\ rpc'[t] = rpc[t] /\ mu'[t] = mu[t] /\ job'[t] = job[t] /\ sync'[t] = sync[t]
    /\ Keeps(srv[t], srv'[t]) /\ Working(t)' = Working(t)

TrellisInv ==
    /\ Types /\ Holds
    /\ IF phase = "start" THEN Running ELSE Quiet
-----------------------------------------------------------------------------
(* Layers and sequences of batches.                                        *)

\* A leaf that names no prover is for Zenon, tried again with more time when it fails.
USE Zenon, ZenonT(30)

\* The layers a round goes through.
LEMMA RoundLayers ==
    ASSUME NEW r \in 0 .. LastRound, r > 0
    PROVE  /\ r \in Nat /\ NumLayers \in Nat /\ NumLayers >= 2 /\ NumServers \in Nat \ {0}
           /\ Top(r) \in Nat /\ LastLayer = NumLayers - 1 /\ LastLayer \in Layers
           /\ IsPath(r) => /\ ReceiptLayer(r) \in Nat /\ ReceiptLayer(r) < r
                           /\ Top(r) = r - ReceiptLayer(r) /\ r < NumLayers
           /\ ~IsPath(r) => Top(r) = NumLayers - 2
BY ConfigAssumption, SMTT(30), SMTT(40) DEF LastRound, IsPath, ReceiptLayer, Top, LastLayer, Layers

\* A sequence is one of its elements.
LEMMA SeqOfElements ==
    ASSUME NEW S, NEW w \in Seq(S)
    PROVE  IsSeq(w)
BY SMTT(30), SMTT(40) DEF IsSeq, Elements

\* The rest of a sequence.
LEMMA RestOf ==
    ASSUME NEW w, IsSeq(w), w # <<>>
    PROVE  /\ IsSeq(Tail(w)) /\ Len(w) \in Nat \ {0} /\ Len(Tail(w)) = Len(w) - 1 /\ Head(w) = w[1]
           /\ \A i \in 1 .. Len(Tail(w)) : Tail(w)[i] = w[i + 1] /\ i + 1 \in 1 .. Len(w)
           /\ 1 \in 1 .. Len(w)
<1>1. /\ Tail(w) \in Seq(Elements(w)) /\ Len(Tail(w)) = Len(w) - 1 /\ Head(w) = w[1]
      /\ Len(w) \in Nat \ {0} /\ \A i \in 1 .. Len(w) - 1 : Tail(w)[i] = w[i + 1]
  BY SMTT(30), SMTT(40) DEF IsSeq
<1>2. IsSeq(Tail(w))
  BY <1>1, SeqOfElements
<1>3. QED
  BY <1>1, <1>2, SMTT(30), SMTT(40)

\* One more batch.
LEMMA OneMore ==
    ASSUME NEW w, IsSeq(w), NEW b
    PROVE  /\ IsSeq(Append(w, b)) /\ Len(w) \in Nat /\ Len(Append(w, b)) = Len(w) + 1
           /\ Append(w, b)[Len(w) + 1] = b
           /\ \A i \in 1 .. Len(w) : Append(w, b)[i] = w[i]
           /\ \A i \in 1 .. Len(Append(w, b)) : i \in 1 .. Len(w) \/ i = Len(w) + 1
<1>1. w \in Seq(Elements(w) \cup {b})
  BY SMTT(30), SMTT(40) DEF IsSeq
<1>2. /\ Append(w, b) \in Seq(Elements(w) \cup {b}) /\ Len(Append(w, b)) = Len(w) + 1
      /\ Len(w) \in Nat /\ Append(w, b)[Len(w) + 1] = b
      /\ \A i \in 1 .. Len(w) : Append(w, b)[i] = w[i]
  BY <1>1, SMTT(30), SMTT(40)
<1>3. IsSeq(Append(w, b))
  BY <1>2, SeqOfElements
<1>4. QED
  BY <1>2, <1>3, SMTT(30), SMTT(40)

-----------------------------------------------------------------------------
(* What processing a message leaves alone.                                 *)

\* A change of other fields.
LEMMA OtherFields ==
    ASSUME NEW r, Shape(r), NEW q, DOMAIN q = Fields, q.layer = r.layer, q.path = r.path,
           q.pathLayer = r.pathLayer, q.receiptLayer = r.receiptLayer, q.complete = r.complete,
           q.routers = r.routers, q.tokens = r.tokens
    PROVE  Keeps(r, q)
BY DEF Keeps, Shape

\* A server that is left alone keeps its place.
LEMMA KeepsSame == ASSUME NEW r, Shape(r) PROVE Keeps(r, r)
BY OtherFields DEF Shape

\* Two changes that keep the place of a server keep it together.
LEMMA KeepsBoth ==
    ASSUME NEW r, NEW q, NEW p, Keeps(r, q), Keeps(q, p)
    PROVE  Keeps(r, p)
BY DEF Keeps

\* Noting a failure keeps the place of the server.
LEMMA FailKeeps ==
    ASSUME NEW r, Shape(r), NEW why
    PROVE  Keeps(r, Fail(r, why))
<1> DEFINE q == Fail(r, why)
<1>1. /\ DOMAIN q = Fields /\ q.layer = r.layer /\ q.path = r.path /\ q.pathLayer = r.pathLayer
      /\ q.receiptLayer = r.receiptLayer /\ q.complete = r.complete
      /\ q.routers = r.routers /\ q.tokens = r.tokens
  BY DEF Shape, Fields, Fail
<1>2. QED
  BY <1>1, OtherFields

\* MemReadWriter.Write of one destination.
LEMMA PackKeeps ==
    ASSUME NEW r, Shape(r), NEW l, NEW c \in Clients, NEW d
    PROVE  Keeps(r, AuthenticatedOnionPack(r, l, c, d))
<1> DEFINE q == [r EXCEPT !.routers[l][d] = @ \cup {c}]
<1>1. ASSUME r.routers[l] # Nil PROVE Keeps(r, q)
  <2>1. /\ DOMAIN q = Fields /\ q.layer = r.layer /\ q.path = r.path /\ q.pathLayer = r.pathLayer
        /\ q.receiptLayer = r.receiptLayer /\ q.complete = r.complete /\ q.tokens = r.tokens
    BY DEF Shape, Fields
  <2>2. q.routers = [r.routers EXCEPT ![l][d] = @ \cup {c}]
    BY DEF Shape, Fields
  <2> HIDE DEF q
  <2>3. CASE l \in Layers
    <3>1. r.routers[l] \in [Servers -> SUBSET Clients]
      BY <1>1, <2>3 DEF Shape
    <3>2. [r.routers[l] EXCEPT ![d] = @ \cup {c}] \in [Servers -> SUBSET Clients]
      BY <3>1
    <3>3. /\ q.routers[l] \in [Servers -> SUBSET Clients]
          /\ q.routers \in [Layers -> [Servers -> SUBSET Clients] \cup {Nil}]
          /\ \A k \in Layers \ {l} : q.routers[k] = r.routers[k]
      BY <2>2, <2>3, <3>2 DEF Shape
    <3>4. q.routers[l] # Nil
      BY <3>3, ConfigAssumption
    <3>5. \A k \in Layers : r.routers[k] # Nil => q.routers[k] # Nil
      BY <3>3, <3>4
    <3>6. Shape(q)
      BY <2>1, <3>3 DEF Shape
    <3>7. QED
      BY <2>1, <3>5, <3>6 DEF Keeps
  <2>4. CASE l \notin Layers
    <3>1. q.routers = r.routers
      BY <2>2, <2>4, SMTT(30), SMTT(40) DEF Shape
    <3>2. QED
      BY <2>1, <3>1, OtherFields
  <2>5. QED
    BY <2>3, <2>4
<1>2. QED
  BY <1>1, FailKeeps DEF AuthenticatedOnionPack

\* Write to the buffer of a group.
LEMMA GroupWriteKeeps ==
    ASSUME NEW r, Shape(r), NEW g, NEW c \in Clients
    PROVE  /\ Keeps(r, GroupWrite(r, "final", g, c))
           /\ Keeps(r, GroupWrite(r, "tokens", g, c))
<1>1. Keeps(r, [r EXCEPT !["final"][g] = @ \cup {c}])
  <2> DEFINE q == [r EXCEPT !["final"][g] = @ \cup {c}]
  <2>1. /\ DOMAIN q = Fields /\ q.layer = r.layer /\ q.path = r.path /\ q.pathLayer = r.pathLayer
        /\ q.receiptLayer = r.receiptLayer /\ q.complete = r.complete
        /\ q.routers = r.routers /\ q.tokens = r.tokens
    BY DEF Shape, Fields
  <2>2. QED
    BY <2>1, OtherFields
<1>2. Keeps(r, [r EXCEPT !["tokens"][g] = @ \cup {c}])
  <2> DEFINE q == [r EXCEPT !["tokens"][g] = @ \cup {c}]
  <2>1. /\ DOMAIN q = Fields /\ q.layer = r.layer /\ q.path = r.path /\ q.pathLayer = r.pathLayer
        /\ q.receiptLayer = r.receiptLayer /\ q.complete = r.complete
        /\ q.routers = r.routers
    BY DEF Shape, Fields
  <2>2. q.tokens = [r.tokens EXCEPT ![g] = @ \cup {c}]
    BY DEF Shape, Fields
  <2> HIDE DEF q
  <2>3. q.tokens \in [Groups -> SUBSET Clients]
    BY <2>2 DEF Shape
  <2>4. Shape(q)
    BY <2>1, <2>3 DEF Shape
  <2>5. Keeps(r, q)
    BY <2>1, <2>4 DEF Keeps
  <2>6. QED
    BY <2>5 DEF q
<1>3. QED
  BY <1>1, <1>2, FailKeeps DEF GroupWrite

\* CommonState.ReadAndCheck of an envelope.
LEMMA ParseKeeps ==
    ASSUME NEW r, Shape(r), NEW l, NEW c, NEW at
    PROVE  Keeps(r, AuthenticatedOnionParse(r, l, c, at))
<1> DEFINE q == [r EXCEPT !.used[l] = @ \cup {c}, !.parsers[l] = @ + 1]
<1>1. Keeps(r, q)
  <2>1. /\ DOMAIN q = Fields /\ q.layer = r.layer /\ q.path = r.path /\ q.pathLayer = r.pathLayer
        /\ q.receiptLayer = r.receiptLayer /\ q.complete = r.complete
        /\ q.routers = r.routers /\ q.tokens = r.tokens
    BY DEF Shape, Fields
  <2>2. QED
    BY <2>1, OtherFields
<1>2. QED
  BY <1>1, FailKeeps DEF AuthenticatedOnionParse

\* Noting a receipt keeps the place of the server.
LEMMA ReceiptKeeps ==
    ASSUME NEW r, Shape(r), NEW c
    PROVE  Keeps(r, [r EXCEPT !.receipts = @ \cup {c}])
<1> DEFINE q == [r EXCEPT !.receipts = @ \cup {c}]
<1>1. /\ DOMAIN q = Fields /\ q.layer = r.layer /\ q.path = r.path /\ q.pathLayer = r.pathLayer
      /\ q.receiptLayer = r.receiptLayer /\ q.complete = r.complete
      /\ q.routers = r.routers /\ q.tokens = r.tokens
  BY DEF Shape, Fields
<1>2. QED
  BY <1>1, OtherFields

\* handleLightningMessage changes routers and failures only.
LEMMA LightningKeeps ==
    ASSUME NEW r, Shape(r), NEW c \in Clients, NEW at
    PROVE  Keeps(r, handleLightningMessage(r, c, at))
<1> DEFINE p == AuthenticatedOnionParse(r, r.layer, c, at)
           k == KeyOf(p, r.layer, c).next
<1>1. Keeps(r, p)
  BY ParseKeeps
<1>2. Shape(p)
  BY <1>1 DEF Keeps
<1>3. handleLightningMessage(r, c, at) \in
        {p, AuthenticatedOnionPack(p, r.layer, c, k), GroupWrite(p, "final", k, c)}
  BY DEF handleLightningMessage
<1> HIDE DEF p, k
<1>4. Keeps(p, AuthenticatedOnionPack(p, r.layer, c, k)) /\ Keeps(p, GroupWrite(p, "final", k, c))
  BY <1>2, PackKeeps, GroupWriteKeeps
<1>5. Keeps(r, AuthenticatedOnionPack(p, r.layer, c, k)) /\ Keeps(r, GroupWrite(p, "final", k, c))
  BY <1>1, <1>4, KeepsBoth
<1>6. QED
  BY <1>1, <1>3, <1>5

\* HandleBoomerangMessage changes routers, receipts and failures only.
LEMMA BoomerangKeeps ==
    ASSUME NEW r, Shape(r), NEW c \in Clients, NEW at
    PROVE  Keeps(r, HandleBoomerangMessage(r, c, at))
<1> DEFINE p == AuthenticatedOnionParse(r, r.layer, c, at)
           k == KeyOf(p, r.layer, c).prev
           q == [p EXCEPT !.receipts = @ \cup {c}]
<1>1. Keeps(r, p)
  BY ParseKeeps
<1>2. Shape(p)
  BY <1>1 DEF Keeps
<1>3. HandleBoomerangMessage(r, c, at) \in {p, AuthenticatedOnionPack(p, r.layer, c, k), q}
  BY DEF HandleBoomerangMessage
<1>4. Keeps(p, q)
  BY <1>2, ReceiptKeeps
<1> HIDE DEF p, k, q
<1>5. Keeps(p, AuthenticatedOnionPack(p, r.layer, c, k))
  BY <1>2, PackKeeps
<1>6. Keeps(r, AuthenticatedOnionPack(p, r.layer, c, k)) /\ Keeps(r, q)
  BY <1>1, <1>4, <1>5, KeepsBoth
<1>7. QED
  BY <1>1, <1>3, <1>6

\* A path message adds a key and is kept for the next round.
LEMMA PathKeeps ==
    ASSUME NEW r, Shape(r), NEW s, NEW src, NEW c \in Clients, NEW at
    PROVE  Keeps(r, handlePathMessage(r, s, src, c, at))
<1> DEFINE l == r.layer
           next == IF l = LastLayer THEN Exit[c] ELSE Route[c][l + 1]
           k == AddKey(r, l, c, src, next)
           n == [k EXCEPT !.paths[l][next] = @ \cup {c}]
           p == ParseRecordAndGetNext(r, s, src, l, c, at)
           q == [p EXCEPT !.receipts = @ \cup {c}]
           w == AuthenticatedOnionPack(p, l, c, src)
<1>1. handlePathMessage(r, s, src, c, at) \in {p, q, w}
  BY DEF handlePathMessage
<1>2. p \in {Fail(r, "no path parser"), Fail(r, "TokenInvalid"), Fail(r, "WrongServer"),
             Fail(r, "DecryptionFailure"), GroupWrite(k, "tokens", next, c),
             Fail(k, "LinkOverflow"), n}
  BY DEF ParseRecordAndGetNext
<1>3. Keeps(r, k)
  <2> HIDE DEF l, next
  <2>1. /\ DOMAIN k = Fields /\ k.layer = r.layer /\ k.path = r.path /\ k.pathLayer = r.pathLayer
        /\ k.receiptLayer = r.receiptLayer /\ k.complete = r.complete
        /\ k.routers = r.routers /\ k.tokens = r.tokens
    BY DEF Shape, Fields, AddKey
  <2>2. QED
    BY <2>1, OtherFields
<1>4. Shape(k)
  BY <1>3 DEF Keeps
<1> HIDE DEF l, next, k
<1>5. Keeps(k, n)
  <2>1. /\ DOMAIN n = Fields /\ n.layer = k.layer /\ n.path = k.path /\ n.pathLayer = k.pathLayer
        /\ n.receiptLayer = k.receiptLayer /\ n.complete = k.complete
        /\ n.routers = k.routers /\ n.tokens = k.tokens
    BY <1>4 DEF Shape, Fields
  <2>2. QED
    BY <1>4, <2>1, OtherFields
<1>6. Keeps(k, GroupWrite(k, "tokens", next, c)) /\ Keeps(k, Fail(k, "LinkOverflow"))
  BY <1>4, GroupWriteKeeps, FailKeeps
<1> HIDE DEF n, p
<1>7. Keeps(r, p)
  <2>1. p \in {Fail(r, "no path parser"), Fail(r, "TokenInvalid"), Fail(r, "WrongServer"),
               Fail(r, "DecryptionFailure")} => Keeps(r, p)
    BY FailKeeps
  <2>2. p \in {GroupWrite(k, "tokens", next, c), Fail(k, "LinkOverflow"), n} => Keeps(k, p)
    BY <1>5, <1>6
  <2>3. QED
    BY <1>2, <1>3, <2>1, <2>2, KeepsBoth
<1>8. Shape(p)
  BY <1>7 DEF Keeps
<1>9. Keeps(p, q) /\ Keeps(p, w)
  BY <1>8, ReceiptKeeps, PackKeeps
<1>10. Keeps(r, q) /\ Keeps(r, w)
  BY <1>7, <1>9, KeepsBoth
<1>11. QED
  BY <1>1, <1>7, <1>10

\* The receipts of the last layer get a router of their own.
LEMMA PackDecryptedKeeps ==
    ASSUME NEW r, Shape(r)
    PROVE  Keeps(r, PackDecrypted(r))
<1> DEFINE back == UNION {r.tokens[g] : g \in Groups}
           bufs == [d \in Servers |-> {c \in back : KeyOf(r, LastLayer, c).prev = d}]
           q == [r EXCEPT !.routers[LastLayer] = bufs]
<1>1. PackDecrypted(r) \in {Fail(r, "LinkOverflow"), q}
  BY DEF PackDecrypted
<1>2. bufs \in [Servers -> SUBSET Clients]
  <2>1. back \subseteq Clients
    BY DEF Shape
  <2> HIDE DEF back
  <2>2. QED
    BY <2>1
<1>3. bufs # Nil
  BY <1>2, ConfigAssumption DEF ConfigAssumption
<1> HIDE DEF bufs
<1>4. /\ DOMAIN q = Fields /\ q.layer = r.layer /\ q.path = r.path /\ q.pathLayer = r.pathLayer
      /\ q.receiptLayer = r.receiptLayer /\ q.complete = r.complete /\ q.tokens = r.tokens
      /\ q.routers = [r.routers EXCEPT ![LastLayer] = bufs]
  BY DEF Shape, Fields
<1> HIDE DEF q
<1>5. /\ q.routers \in [Layers -> [Servers -> SUBSET Clients] \cup {Nil}]
      /\ \A l \in Layers : q.routers[l] = IF l = LastLayer THEN bufs ELSE r.routers[l]
  BY <1>2, <1>4 DEF Shape
<1>6. Keeps(r, q)
  BY <1>3, <1>4, <1>5 DEF Keeps, Shape
<1>7. QED
  BY <1>1, <1>6, FailKeeps

-----------------------------------------------------------------------------
(* Batches on a link.                                                      *)

\* The places of layers are integers.
LEMMA PlaceType ==
    ASSUME NEW r \in Int, NEW l \in Int
    PROVE  Place(r, l) \in Int
BY SMTT(30), SMTT(40) DEF Place

\* Taking the first batch leaves a line of batches.
LEMMA BatchesRest ==
    ASSUME NEW w, Batches(w), w # <<>>
    PROVE  Batches(Tail(w)) /\ Proper(Head(w)) /\ Proper(w[1])
BY RestOf DEF Batches

\* A sent batch makes a longer line of batches.
LEMMA BatchesMore ==
    ASSUME NEW w, Batches(w), NEW b, Proper(b)
    PROVE  Batches(Append(w, b))
BY OneMore DEF Batches

\* Taking the first batch leaves a line without batches of layers.
LEMMA NoLayersRest ==
    ASSUME NEW w, IsSeq(w), NoLayers(w), w # <<>>
    PROVE  NoLayers(Tail(w)) /\ ~OfLayer(Head(w))
BY RestOf DEF NoLayers

\* A group's batch adds no batch of a layer to a line.
LEMMA NoLayersMore ==
    ASSUME NEW w, IsSeq(w), NoLayers(w), NEW b, ~OfLayer(b)
    PROVE  NoLayers(Append(w, b))
BY OneMore DEF NoLayers

\* The receiver takes a batch that belongs to no layer.
LEMMA LineRest ==
    ASSUME NEW r, NEW w, IsSeq(w), w # <<>>, NEW o, NEW d, NEW k, NEW m, Line(r, w, o, d, k, m)
    PROVE  Line(r, Tail(w), o, d, k, m)
<1> DEFINE t == Tail(w)
<1>1. /\ \A i \in 1 .. Len(t) : t[i] = w[i + 1] /\ i + 1 \in 1 .. Len(w)
      /\ \A i, j \in 1 .. Len(t) : i < j => i + 1 < j + 1
  <2>1. Len(t) \in Nat /\ \A i \in 1 .. Len(t) : t[i] = w[i + 1] /\ i + 1 \in 1 .. Len(w)
    BY RestOf, SMTT(30), SMTT(40)
  <2> HIDE DEF t
  <2>2. QED
    BY <2>1, SMTT(30), SMTT(40)
<1> HIDE DEF t
<1>2. Line(r, t, o, d, k, m)
  BY <1>1 DEF Line
<1>3. QED
  BY <1>2 DEF t

\* The receiver takes a batch of its layer.
LEMMA LineTaken ==
    ASSUME NEW r \in Int, NEW w, Batches(w), w # <<>>, NEW o, NEW d, NEW k \in Int, NEW m \in Int,
           Line(r, w, o, d, k, m), OfLayer(w[1])
    PROVE  /\ Line(r, Tail(w), o, d, Place(r, w[1].layer) + 1, m)
           /\ k <= Place(r, w[1].layer) /\ Place(r, w[1].layer) < m
<1> DEFINE t == Tail(w)
           p(i) == Place(r, w[i].layer)
<1>1. /\ Len(t) \in Nat /\ \A i \in 1 .. Len(t) : t[i] = w[i + 1] /\ i + 1 \in 1 .. Len(w)
      /\ 1 \in 1 .. Len(w) /\ Len(w) \in Nat
  BY RestOf, SMTT(30), SMTT(40) DEF Batches
<1>2. \A i \in 1 .. Len(w) : p(i) \in Int
  BY PlaceType DEF Batches, Proper
<1>3. /\ \A i \in 1 .. Len(w) : OfLayer(w[i]) => k <= p(i) /\ p(i) < m
      /\ \A i, j \in 1 .. Len(w) : OfLayer(w[i]) /\ OfLayer(w[j]) /\ i < j => p(i) < p(j)
      /\ \A i \in 1 .. Len(o) :
          OfLayer(o[i]) /\ o[i].dest = d =>
            /\ Place(r, o[i].layer) = m - 1 /\ k < m
            /\ \A j \in 1 .. Len(w) : OfLayer(w[j]) => p(j) < m - 1
            /\ \A j \in 1 .. Len(o) : OfLayer(o[j]) /\ o[j].dest = d => j = i
  BY DEF Line
<1>4. /\ \A i \in 1 .. Len(t) : Place(r, t[i].layer) = p(i + 1)
  BY <1>1
<1> HIDE DEF t, p
<1>5. k <= p(1) /\ p(1) < m /\ p(1) \in Int
  BY <1>1, <1>2, <1>3
<1>6. \A i \in 1 .. Len(t) : OfLayer(t[i]) => p(1) + 1 <= p(i + 1) /\ p(i + 1) < m
  BY <1>1, <1>2, <1>3, SMTT(30), SMTT(40)
<1>7. \A i, j \in 1 .. Len(t) : OfLayer(t[i]) /\ OfLayer(t[j]) /\ i < j => p(i + 1) < p(j + 1)
  BY <1>1, <1>3, SMTT(30), SMTT(40)
<1>8. ASSUME NEW i \in 1 .. Len(o), OfLayer(o[i]), o[i].dest = d
      PROVE  /\ p(1) + 1 < m /\ \A j \in 1 .. Len(t) : OfLayer(t[j]) => p(j + 1) < m - 1
  <2>1. p(1) < m - 1 /\ \A j \in 1 .. Len(t) : OfLayer(t[j]) => p(j + 1) < m - 1
    BY <1>1, <1>3, <1>8
  <2>2. QED
    BY <1>5, <2>1, SMTT(30), SMTT(40)
<1>9. p(1) + 1 <= m
  BY <1>5, SMTT(30), SMTT(40)
<1>10. Line(r, t, o, d, p(1) + 1, m)
  BY <1>3, <1>4, <1>6, <1>7, <1>8, <1>9 DEF Line
<1>11. QED
  BY <1>5, <1>10 DEF t, p

\* The sender puts the next batch on the link to d.
LEMMA LineSent ==
    ASSUME NEW r \in Int, NEW w, Batches(w), NEW o, Batches(o), o # <<>>, NEW d, o[1].dest = d,
           NEW k \in Int, NEW m \in Int, Line(r, w, o, d, k, m)
    PROVE  Line(r, Append(w, o[1]), Tail(o), d, k, m)
<1> DEFINE b == o[1]
           v == Append(w, b)
           t == Tail(o)
<1>1. /\ Len(t) \in Nat /\ \A i \in 1 .. Len(t) : t[i] = o[i + 1] /\ i + 1 \in 1 .. Len(o)
      /\ 1 \in 1 .. Len(o)
  BY RestOf, SMTT(30), SMTT(40) DEF Batches
<1>2. /\ Len(w) \in Nat /\ Len(v) = Len(w) + 1 /\ v[Len(w) + 1] = b
      /\ \A i \in 1 .. Len(w) : v[i] = w[i]
      /\ \A i \in 1 .. Len(v) : i \in 1 .. Len(w) \/ i = Len(w) + 1
  BY OneMore, SMTT(30), SMTT(40) DEF Batches
<1>3. b.dest = d /\ (OfLayer(b) => /\ Place(r, b.layer) = m - 1 /\ k < m
                                   /\ \A j \in 1 .. Len(w) : OfLayer(w[j]) => Place(r, w[j].layer) < m - 1
                                   /\ \A j \in 1 .. Len(o) : OfLayer(o[j]) /\ o[j].dest = d => j = 1)
  BY <1>1 DEF Line
<1> HIDE DEF b, v, t
<1>4. OfLayer(b) => k <= Place(r, b.layer) /\ Place(r, b.layer) < m
  BY <1>3, SMTT(30), SMTT(40)
<1>5. \A i \in 1 .. Len(v) : OfLayer(v[i]) => k <= Place(r, v[i].layer) /\ Place(r, v[i].layer) < m
  BY <1>2, <1>4 DEF Line
<1>6. ASSUME NEW i \in 1 .. Len(v), NEW j \in 1 .. Len(v), OfLayer(v[i]), OfLayer(v[j]), i < j
      PROVE  Place(r, v[i].layer) < Place(r, v[j].layer)
  <2>1. i \in 1 .. Len(w) /\ v[i] = w[i]
    BY <1>2, <1>6, SMTT(30), SMTT(40)
  <2>2. CASE j \in 1 .. Len(w)
    BY <1>2, <1>6, <2>1, <2>2 DEF Line
  <2>3. CASE j = Len(w) + 1
    BY <1>2, <1>3, <1>6, <2>1, <2>3
  <2>4. QED
    BY <1>2, <2>2, <2>3
<1>7. ASSUME NEW i \in 1 .. Len(t), OfLayer(t[i]), t[i].dest = d
      PROVE  /\ ~OfLayer(b)
             /\ Place(r, t[i].layer) = m - 1 /\ k < m
             /\ \A j \in 1 .. Len(w) : OfLayer(w[j]) => Place(r, w[j].layer) < m - 1
             /\ \A j \in 1 .. Len(t) : OfLayer(t[j]) /\ t[j].dest = d => j = i
  <2>1. /\ Place(r, o[i + 1].layer) = m - 1 /\ k < m
        /\ \A j \in 1 .. Len(w) : OfLayer(w[j]) => Place(r, w[j].layer) < m - 1
        /\ \A j \in 1 .. Len(o) : OfLayer(o[j]) /\ o[j].dest = d => j = i + 1
        /\ t[i] = o[i + 1]
    BY <1>1, <1>7 DEF Line
  <2>2. \A j \in 1 .. Len(t) : OfLayer(t[j]) /\ t[j].dest = d => j + 1 = i + 1
    BY <1>1, <2>1
  <2>3. 1 # i + 1 /\ \A j \in 1 .. Len(t) : j + 1 = i + 1 => j = i
    BY <1>1, SMTT(30), SMTT(40)
  <2>4. ~OfLayer(b)
    BY <1>1, <1>3, <2>1, <2>3 DEF b
  <2>5. QED
    BY <2>1, <2>2, <2>3, <2>4
<1>8. \A i \in 1 .. Len(t) : OfLayer(t[i]) /\ t[i].dest = d =>
            /\ Place(r, t[i].layer) = m - 1 /\ k < m
            /\ \A j \in 1 .. Len(v) : OfLayer(v[j]) => Place(r, v[j].layer) < m - 1
            /\ \A j \in 1 .. Len(t) : OfLayer(t[j]) /\ t[j].dest = d => j = i
  BY <1>2, <1>7
<1>9. k <= m
  BY DEF Line
<1>10. Line(r, v, t, d, k, m)
  BY <1>5, <1>6, <1>8, <1>9 DEF Line
<1>11. QED
  BY <1>10 DEF b, v, t

\* The sender puts the next batch on another link.
LEMMA LineElsewhere ==
    ASSUME NEW r, NEW w, NEW o, IsSeq(o), o # <<>>, NEW d, NEW k, NEW m, Line(r, w, o, d, k, m)
    PROVE  Line(r, w, Tail(o), d, k, m)
<1> DEFINE t == Tail(o)
<1>1. Len(t) \in Nat /\ \A i \in 1 .. Len(t) : t[i] = o[i + 1] /\ i + 1 \in 1 .. Len(o)
  BY RestOf, SMTT(30), SMTT(40)
<1> HIDE DEF t
<1>2. \A i, j \in 1 .. Len(t) : j + 1 = i + 1 => j = i
  BY <1>1, SMTT(30), SMTT(40)
<1>3. Line(r, w, t, d, k, m)
  BY <1>1, <1>2 DEF Line
<1>4. QED
  BY <1>3 DEF t

\* Batches o for place m, at most one for each server.
Layer(r, o, m) ==
    \A i \in 1 .. Len(o) : OfLayer(o[i]) =>
        /\ Place(r, o[i].layer) = m
        /\ \A j \in 1 .. Len(o) : OfLayer(o[j]) /\ o[j].dest = o[i].dest => j = i

\* The sender begins the next layer.
LEMMA LineNext ==
    ASSUME NEW r \in Int, NEW w, Batches(w), NEW o, NEW p, NEW d, NEW k \in Int, NEW m \in Int,
           NEW n \in Int, Line(r, w, o, d, k, m),
           (NoLayers(p) /\ n = m) \/ (Layer(r, p, m) /\ n = m + 1)
    PROVE  Line(r, w, p, d, k, n)
<1>1. /\ k <= m
      /\ \A i \in 1 .. Len(w) : OfLayer(w[i]) => k <= Place(r, w[i].layer) /\ Place(r, w[i].layer) < m
      /\ \A i, j \in 1 .. Len(w) :
          OfLayer(w[i]) /\ OfLayer(w[j]) /\ i < j => Place(r, w[i].layer) < Place(r, w[j].layer)
  BY DEF Line
<1>2. CASE NoLayers(p) /\ n = m
  BY <1>1, <1>2 DEF Line, NoLayers
<1>3. CASE Layer(r, p, m) /\ n = m + 1
  <2>1. \A i \in 1 .. Len(w) : Place(r, w[i].layer) \in Int
    BY PlaceType DEF Batches, Proper
  <2>2. k <= n /\ k < n /\ m = n - 1
    BY <1>1, <1>3, SMTT(30), SMTT(40)
  <2>3. \A i \in 1 .. Len(w) : OfLayer(w[i]) => Place(r, w[i].layer) < n - 1 /\ Place(r, w[i].layer) < n
    BY <1>1, <1>3, <2>1, SMTT(30), SMTT(40)
  <2>4. QED
    BY <1>1, <1>3, <2>2, <2>3 DEF Line, Layer
<1>4. QED
  BY <1>2, <1>3

\* Links without batches of layers.
LEMMA LineNone ==
    ASSUME NEW r, NEW w, NoLayers(w), NEW o, NoLayers(o), NEW d, NEW k, NEW m, k <= m
    PROVE  Line(r, w, o, d, k, m)
BY DEF Line, NoLayers

\* A function on an interval is a sequence.
LEMMA AsSequence ==
    ASSUME NEW S, NEW n \in Nat, NEW o \in [1 .. n -> S]
    PROVE  o \in Seq(S) /\ Len(o) = n
BY SMTT(30), SMTT(40)

\* SendShuffleMessages makes one batch of the layer for each server.
LEMMA Shuffled ==
    ASSUME NEW s \in Servers, NEW type \in {"Path", "Reverse", "Forward"}, NEW rnd, NEW l \in Int,
           NEW bufs, NEW r
    PROVE  /\ Batches(ShuffleMessages(s, type, rnd, l, bufs))
           /\ Layer(r, ShuffleMessages(s, type, rnd, l, bufs), Place(r, l))
<1> DEFINE n == Len(SendOrder[s])
           b(i) == [dest |-> SendOrder[s][i], type |-> type, round |-> rnd, layer |-> l,
                    group |-> Nil, msgs |-> bufs[SendOrder[s][i]]]
           o == [i \in 1 .. n |-> b(i)]
<1>1. GoesThrough(SendOrder[s], Servers)
  BY ConfigAssumption
<1>2. /\ n \in Nat /\ DOMAIN SendOrder[s] = 1 .. n /\ \A i \in 1 .. n : SendOrder[s][i] \in Servers
      /\ \A i, j \in 1 .. n : SendOrder[s][j] = SendOrder[s][i] => j = i
  BY <1>1, SMTT(30), SMTT(40) DEF GoesThrough
<1>3. ShuffleMessages(s, type, rnd, l, bufs) = o
  BY <1>2 DEF ShuffleMessages
<1>4. \A i \in 1 .. n : /\ o[i].dest = SendOrder[s][i] /\ o[i].type = type /\ o[i].layer = l
                        /\ o[i].group = Nil
  OBVIOUS
<1>5. IsSeq(o) /\ Len(o) = n
  <2>1. o \in [1 .. n -> {b(i) : i \in 1 .. n}]
    OBVIOUS
  <2>2. o \in Seq({b(i) : i \in 1 .. n}) /\ Len(o) = n
    <3> HIDE DEF o, n, b
    <3>1. QED
      BY <1>2, <2>1, AsSequence
  <2>3. QED
    BY <2>2, SeqOfElements
<1> HIDE DEF o, n
<1>6. \A i \in 1 .. n : OfLayer(o[i]) /\ Proper(o[i])
  BY <1>2, <1>4 DEF OfLayer, Proper
<1>7. \A i, j \in 1 .. n : o[j].dest = o[i].dest => j = i
  BY <1>2, <1>4
<1>8. Batches(o) /\ Layer(r, o, Place(r, l))
  BY <1>4, <1>5, <1>6, <1>7 DEF Batches, Layer
<1>9. QED
  BY <1>3, <1>8

\* SendGroupShuffleMessages makes batches for the groups.
LEMMA GroupShuffled ==
    ASSUME NEW s \in Servers, NEW type \in {"Token", "Signature"}, NEW rnd, NEW l \in Int, NEW bufs
    PROVE  /\ Batches(GroupShuffleMessages(s, type, rnd, l, bufs))
           /\ NoLayers(GroupShuffleMessages(s, type, rnd, l, bufs))
<1> DEFINE n == Len(GroupSends[s])
           b(i) == [dest |-> GroupSends[s][i][1], type |-> type, round |-> rnd, layer |-> l,
                    group |-> GroupSends[s][i][2], msgs |-> bufs[GroupSends[s][i][2]]]
           o == [i \in 1 .. n |-> b(i)]
<1>1. GroupSends[s] \in Seq({p \in Servers \X Groups : p[1] \in Members[p[2]]})
  BY ConfigAssumption DEF GoesThrough
<1>2. /\ n \in Nat /\ DOMAIN GroupSends[s] = 1 .. n
      /\ \A i \in 1 .. n : GroupSends[s][i] \in Servers \X Groups
  BY <1>1, SMTT(30), SMTT(40)
<1>3. GroupShuffleMessages(s, type, rnd, l, bufs) = o
  BY <1>2 DEF GroupShuffleMessages
<1>4. \A i \in 1 .. n : /\ o[i].dest = GroupSends[s][i][1] /\ o[i].type = type /\ o[i].layer = l
                        /\ o[i].group = GroupSends[s][i][2]
  OBVIOUS
<1>5. IsSeq(o) /\ Len(o) = n
  <2>1. o \in [1 .. n -> {b(i) : i \in 1 .. n}]
    OBVIOUS
  <2>2. o \in Seq({b(i) : i \in 1 .. n}) /\ Len(o) = n
    <3> HIDE DEF o, n, b
    <3>1. QED
      BY <1>2, <2>1, AsSequence
  <2>3. QED
    BY <2>2, SeqOfElements
<1> HIDE DEF o, n
<1>6. \A i \in 1 .. n : GroupSends[s][i][1] \in Servers /\ GroupSends[s][i][2] \in Groups
  BY <1>2, SMTT(30), SMTT(40)
<1>7. \A i \in 1 .. n : ~OfLayer(o[i]) /\ Proper(o[i])
  BY <1>4, <1>6, SMTT(30), SMTT(40) DEF OfLayer, Proper
<1>8. Batches(o) /\ NoLayers(o)
  BY <1>5, <1>7 DEF Batches, NoLayers
<1>9. QED
  BY <1>3, <1>8

-----------------------------------------------------------------------------
(* What a step has to show.                                                *)

\* The places, and the counts of sent and taken batches, are integers.
LEMMA ViewTypes ==
    ASSUME Types, NEW s \in Servers, NEW d \in Servers
    PROVE  /\ At(s) \in Int /\ Emitted(s) \in Int /\ Taken(d, s) \in Int /\ round \in Int
           /\ Taken(d, s) >= 0 /\ Emitted(s) <= At(s) + 1 /\ Shape(srv[s]) /\ sync[s] \in Syncs
           /\ Pos(srv[s].layer) \in Int /\ Pos(sync[d].layer) \in Int
<1>1. round \in Int
  BY ConfigAssumption, SMTT(30), SMTT(40) DEF Types, ControlTypes, LastRound
<1>2. Shape(srv[s]) /\ sync[s] \in Syncs /\ sync[d] \in Syncs
  BY DEF Types, ControlTypes, ServerTypes
<1>3. srv[s].layer \in Int /\ sync[d].layer \in Int
  BY <1>2, SMTT(30), SMTT(40) DEF Shape, Syncs
<1>4. \A l \in Int : Pos(l) \in Int
  BY <1>1, PlaceType DEF Pos
<1>5. Pos(srv[s].layer) \in Int /\ Pos(sync[d].layer) \in Int
  BY <1>3, <1>4
<1>6. At(s) \in Int
  BY <1>5, SMTT(30), SMTT(40) DEF At
<1>7. Emitted(s) \in Int /\ Emitted(s) <= At(s) + 1
  BY <1>6, SMTT(30), SMTT(40) DEF Emitted
<1>8. Taken(d, s) \in Int /\ Taken(d, s) >= 0
  BY <1>5, SMTT(30), SMTT(40) DEF Taken
<1>9. QED
  BY <1>1, <1>2, <1>5, <1>6, <1>7, <1>8

\* A server whose view is the same is where it was.
LEMMA ViewKept ==
    ASSUME NEW t \in Servers, SameView(t), round' = round, phase' = phase
    PROVE  /\ At(t)' = At(t) /\ Emitted(t)' = Emitted(t)
           /\ \A s \in Servers : Taken(t, s)' = Taken(t, s)
           /\ (Local(t) => Local(t)') /\ (Still(t) => Still(t)')
<1>1. /\ rpc'[t] = rpc[t] /\ mu'[t] = mu[t] /\ job'[t] = job[t] /\ sync'[t] = sync[t]
      /\ Working(t)' = Working(t)
  BY DEF SameView
<1>2. /\ srv'[t].layer = srv[t].layer /\ srv'[t].path = srv[t].path
      /\ srv'[t].pathLayer = srv[t].pathLayer /\ srv'[t].receiptLayer = srv[t].receiptLayer
      /\ srv'[t].complete = srv[t].complete
      /\ \A l \in Layers : srv[t].routers[l] # Nil => srv'[t].routers[l] # Nil
  BY DEF SameView, Keeps
<1>3. \A l : Pos(l)' = Pos(l)
  BY DEF Pos
<1>4. (Placed(t)' <=> Placed(t)) /\ At(t)' = At(t)
  BY <1>1, <1>2, <1>3 DEF Placed, At
<1>5. Emitted(t)' = Emitted(t)
  BY <1>1, <1>4 DEF Emitted, Asking
<1>6. \A s \in Servers : Taken(t, s)' = Taken(t, s)
  BY <1>1, <1>3, <1>4 DEF Taken
<1>7. Counting(t) => Counting(t)'
  BY <1>1, <1>3 DEF Counting
<1>8. InRound(t) => InRound(t)'
  BY <1>1, <1>2, <1>3, <1>4, <1>7 DEF InRound
<1>9. Resting(t) => Resting(t)'
  BY <1>1, <1>2 DEF Resting
<1>10. Local(t) => Local(t)'
  BY <1>1, <1>2, <1>4, <1>8, <1>9 DEF Local
<1>11. Fresh(t) => Fresh(t)'
  BY <1>1, <1>2 DEF Fresh
<1>12. Still(t) => Still(t)'
  BY <1>1, <1>2, <1>11 DEF Still
<1>13. QED
  BY <1>4, <1>5, <1>6, <1>10, <1>12

\* Steps that only move batches.
LEMMA StepLinks ==
    ASSUME TrellisInv, Types', round' = round, phase' = phase, \A t \in Servers : SameView(t),
           phase = "start" => \A s, d \in Servers : Queue(s, d)',
           phase # "start" => \A s \in Servers :
               NoLayers(out'[s]) /\ \A d \in Servers : NoLayers(link'[s][d])
    PROVE  TrellisInv'
<1>1. Holds'
  BY DEF TrellisInv, Holds, SameView
<1>2. CASE phase = "start"
  <2>1. Running
    BY <1>2 DEF TrellisInv
  <2>2. \A t \in Servers : Local(t)' /\ At(t)' = At(t)
    BY <2>1, ViewKept DEF Running
  <2>3. Running'
    BY <1>2, <2>1, <2>2 DEF Running
  <2>4. QED
    BY <1>1, <1>2, <2>3 DEF TrellisInv
<1>3. CASE phase # "start"
  <2>1. Quiet
    BY <1>3 DEF TrellisInv
  <2>2. \A t \in Servers : Still(t)'
    BY <2>1, ViewKept DEF Quiet
  <2>3. Quiet'
    BY <1>3, <2>1, <2>2 DEF Quiet
  <2>4. QED
    BY <1>1, <1>3, <2>3 DEF TrellisInv
<1>4. QED
  BY <1>2, <1>3

\* Steps that change nothing the layers depend on.
LEMMA StepSame ==
    ASSUME TrellisInv, Types', round' = round, phase' = phase, \A t \in Servers : SameView(t),
           out' = out, link' = link
    PROVE  TrellisInv'
<1>1. \A t \in Servers : Emitted(t)' = Emitted(t) /\ \A s \in Servers : Taken(t, s)' = Taken(t, s)
  BY ViewKept
<1>2. phase = "start" => \A s, d \in Servers : Queue(s, d)'
  BY <1>1 DEF TrellisInv, Running, Queue
<1>3. phase # "start" => \A s \in Servers :
          NoLayers(out'[s]) /\ \A d \in Servers : NoLayers(link'[s][d])
  BY DEF TrellisInv, Quiet
<1>4. QED
  BY <1>2, <1>3, StepLinks

\* Steps of one server between the rounds.
LEMMA StepStill ==
    ASSUME TrellisInv, Types', Holds', round' = round, phase' = phase, phase # "start",
           NEW s \in Servers, \A t \in Servers \ {s} : SameView(t), Still(s)',
           out' = out, link' = link
    PROVE  TrellisInv'
<1>1. Quiet
  BY DEF TrellisInv
<1>2. \A t \in Servers : Still(t)'
  BY <1>1, ViewKept DEF Quiet
<1>3. Quiet'
  BY <1>1, <1>2 DEF Quiet
<1>4. QED
  BY <1>3 DEF TrellisInv

\* Steps of one server in a round: it keeps its place.
LEMMA StepLocal ==
    ASSUME TrellisInv, Types', Holds', round' = round, phase' = phase, phase = "start",
           NEW s \in Servers, \A t \in Servers \ {s} : SameView(t), Local(s)',
           At(s)' = At(s), Emitted(s)' = Emitted(s),
           \A t \in Servers : Taken(s, t)' = Taken(s, t), out' = out, link' = link
    PROVE  TrellisInv'
<1>1. Running
  BY DEF TrellisInv
<1>2. \A t \in Servers : /\ Local(t)' /\ At(t)' = At(t) /\ Emitted(t)' = Emitted(t)
                         /\ \A u \in Servers : Taken(t, u)' = Taken(t, u)
  BY <1>1, ViewKept DEF Running
<1>3. \A t, d \in Servers : Queue(t, d)'
  BY <1>1, <1>2 DEF Running, Queue
<1>4. Running'
  BY <1>1, <1>2, <1>3 DEF Running
<1>5. QED
  BY <1>4 DEF TrellisInv

\* It begins to send the next layer, or goes on without one.
LEMMA StepOut ==
    ASSUME TrellisInv, Types', Holds', round' = round, phase' = phase, phase = "start",
           NEW s \in Servers, \A t \in Servers \ {s} : SameView(t) /\ out'[t] = out[t], Local(s)',
           At(s)' \in Int, At(s)' >= At(s), \A t \in Servers \ {s} : At(s)' <= At(t) + 1,
           \A t \in Servers : Taken(s, t)' = Taken(s, t), link' = link,
           \/ (NoLayers(out'[s]) /\ Emitted(s)' = Emitted(s))
           \/ (Layer(round, out'[s], Emitted(s)) /\ Emitted(s)' = Emitted(s) + 1)
    PROVE  TrellisInv'
<1>1. Running /\ Types
  BY DEF TrellisInv
<1>2. \A t \in Servers \ {s} :
        Local(t)' /\ At(t)' = At(t) /\ Emitted(t)' = Emitted(t)
  BY <1>1, ViewKept DEF Running
<1>3. \A t, u \in Servers : Taken(t, u)' = Taken(t, u)
  BY ViewKept
<1>4. \A t \in Servers : At(t) \in Int /\ At(t)' \in Int
  BY <1>1, <1>2, ViewTypes
<1>5. \A t, u \in Servers : At(t)' <= At(u)' + 1
  <2>1. \A t, u \in Servers : At(t) <= At(u) + 1
    BY <1>1 DEF Running
  <2>2. QED
    BY <1>2, <1>4, <2>1, SMTT(30), SMTT(40)
<1>6. ASSUME NEW t \in Servers, NEW d \in Servers PROVE Queue(t, d)'
  <2>1. Line(round, link[t][d], out[t], d, Taken(d, t), Emitted(t))
    BY <1>1 DEF Running, Queue
  <2>2. CASE t # s
    BY <1>2, <1>3, <2>1, <2>2 DEF Queue
  <2>3. CASE t = s
    <3>1. round \in Int /\ Emitted(s) \in Int /\ Taken(d, s) \in Int /\ Batches(link[s][d])
      BY <1>1, ViewTypes DEF Types, LinkTypes
    <3>2. Emitted(s)' \in Int
      BY <3>1, SMTT(30), SMTT(40)
    <3>3. Line(round, link[s][d], out'[s], d, Taken(d, s), Emitted(s)')
      BY <2>1, <2>3, <3>1, <3>2, LineNext
    <3>4. QED
      BY <1>3, <2>3, <3>3 DEF Queue
  <2>4. QED
    BY <2>2, <2>3
<1>7. Running'
  BY <1>1, <1>2, <1>5, <1>6 DEF Running
<1>8. QED
  BY <1>7 DEF TrellisInv

-----------------------------------------------------------------------------
(* Handlers.                                                               *)

\* A handler without a batch has no batch of a layer.
LEMMA NoBatchOfLayer == ~OfLayer(NoBatch)
BY SMTT(30), SMTT(40) DEF OfLayer, NoBatch

\* A handler gets another batch, or none.
LEMMA Handed ==
    ASSUME HandTypes, NEW d \in Servers, NEW s \in Servers, NEW b, NEW j, b = NoBatch \/ Proper(b),
           hand' = [hand EXCEPT ![d][s] = [batch |-> b, jobs |-> j]]
    PROVE  /\ HandTypes' /\ \A t \in Servers \ {d} : Working(t)' = Working(t)
           /\ Working(d)' = IF OfLayer(b) THEN Working(d) \cup {s} ELSE Working(d) \ {s}
<1>1. /\ DOMAIN hand = Servers /\ DOMAIN hand[d] = Servers
      /\ \A t \in Servers : DOMAIN hand[t] = Servers
  BY DEF HandTypes
<1>2. /\ DOMAIN hand' = Servers /\ \A t \in Servers : DOMAIN hand'[t] = Servers
      /\ \A t \in Servers \ {d} : hand'[t] = hand[t]
      /\ \A u \in Servers \ {s} : hand'[d][u] = hand[d][u]
      /\ hand'[d][s] = [batch |-> b, jobs |-> j]
  BY <1>1
<1>3. hand'[d][s].batch = b /\ hand'[d][s].jobs = j
  BY <1>2
<1>4. ASSUME NEW t \in Servers, NEW u \in Servers
      PROVE  /\ hand'[t][u] = [batch |-> hand'[t][u].batch, jobs |-> hand'[t][u].jobs]
             /\ hand'[t][u].batch = NoBatch \/ Proper(hand'[t][u].batch)
  <2>1. CASE t = d /\ u = s
    BY <1>2, <1>3, <2>1
  <2>2. CASE ~(t = d /\ u = s)
    <3>1. hand'[t][u] = hand[t][u]
      BY <1>2, <2>2
    <3>2. QED
      BY <3>1 DEF HandTypes
  <2>3. QED
    BY <2>1, <2>2
<1>5. HandTypes'
  BY <1>2, <1>4 DEF HandTypes
<1>6. \A t \in Servers \ {d} : Working(t)' = Working(t)
  BY <1>2 DEF Working
<1>7. Working(d)' = IF OfLayer(b) THEN Working(d) \cup {s} ELSE Working(d) \ {s}
  <2>1. Working(d)' = {u \in Servers : OfLayer(hand'[d][u].batch)}
    BY DEF Working
  <2>2. \A u \in Servers \ {s} : hand'[d][u].batch = hand[d][u].batch
    BY <1>2
  <2>3. \A u : u \in Working(d)' <=> u \in Servers /\ (IF u = s THEN OfLayer(b) ELSE u \in Working(d))
    BY <1>3, <2>1, <2>2 DEF Working
  <2>4. Working(d) \subseteq Servers
    BY DEF Working
  <2>5. QED
    BY <2>3, <2>4, SMTT(30), SMTT(40)
<1>8. QED
  BY <1>5, <1>6, <1>7

\* Only messages are processed.
LEMMA HandedOn ==
    ASSUME HandTypes, NEW d \in Servers, NEW s \in Servers, NEW j,
           hand' = [hand EXCEPT ![d][s].jobs = j]
    PROVE  HandTypes' /\ \A t \in Servers : Working(t)' = Working(t)
<1> DEFINE b == hand[d][s].batch
<1>1. /\ DOMAIN hand = Servers /\ DOMAIN hand[d] = Servers /\ (b = NoBatch \/ Proper(b))
      /\ hand[d][s] = [batch |-> b, jobs |-> hand[d][s].jobs]
  BY DEF HandTypes
<1>2. [hand[d][s] EXCEPT !.jobs = j] = [batch |-> b, jobs |-> j]
  <2> DEFINE x == hand[d][s]
             k == x.jobs
  <2>1. x = [batch |-> b, jobs |-> k]
    BY <1>1
  <2> HIDE DEF b, x, k
  <2>2. [x EXCEPT !.jobs = j] = [batch |-> b, jobs |-> j]
    BY <2>1, SMTT(30), SMTT(40)
  <2>3. QED
    BY <2>2 DEF x
<1>3. hand' = [hand EXCEPT ![d][s] = [batch |-> b, jobs |-> j]]
  BY <1>2
<1>4. /\ HandTypes' /\ \A t \in Servers \ {d} : Working(t)' = Working(t)
      /\ Working(d)' = IF OfLayer(b) THEN Working(d) \cup {s} ELSE Working(d) \ {s}
  <2> HIDE DEF b
  <2>1. QED
    BY <1>1, <1>3, Handed
<1>5. s \in Working(d) <=> OfLayer(b)
  BY DEF Working
<1>6. Working(d)' = Working(d)
  BY <1>4, <1>5
<1>7. QED
  BY <1>4, <1>6

\* Steps that change the record of a server where the layers do not depend on it.
LEMMA StepServer ==
    ASSUME TrellisInv, UNCHANGED <<round, phase, rpc, mu, sync, job, out, link>>,
           DOMAIN srv' = Servers, \A t \in Servers : Keeps(srv[t], srv'[t]),
           HandTypes', \A t \in Servers : Working(t)' = Working(t)
    PROVE  TrellisInv'
<1>1. \A t \in Servers : SameView(t)
  BY DEF SameView
<1>2. Types'
  <2>1. ControlTypes'
    BY DEF TrellisInv, Types, ControlTypes
  <2>2. ServerTypes'
    BY DEF TrellisInv, Types, ServerTypes, Keeps
  <2>3. LinkTypes'
    BY DEF TrellisInv, Types, LinkTypes
  <2>4. QED
    BY <2>1, <2>2, <2>3 DEF Types
<1>3. QED
  BY <1>1, <1>2, StepSame

\* A step that leaves the servers, links and handlers alone.
LEMMA StepNothing ==
    ASSUME TrellisInv, UNCHANGED <<round, phase, rpc, mu, sync, job, out, link, srv, hand>>
    PROVE  TrellisInv'
<1>1. DOMAIN srv' = Servers /\ \A t \in Servers : Keeps(srv[t], srv'[t])
  BY KeepsSame DEF TrellisInv, Types, ServerTypes
<1>2. HandTypes' /\ \A t \in Servers : Working(t)' = Working(t)
  BY DEF TrellisInv, Types, HandTypes, Working
<1>3. QED
  BY <1>1, <1>2, StepServer

\* The steps of the groups do not touch the layers.
LEMMA StepGroups ==
    ASSUME TrellisInv, NEW s \in Servers, NEW g \in GroupsOf(s), GroupStep(s, g)
    PROVE  TrellisInv'
<1>1. UNCHANGED <<round, phase, rpc, mu, sync, job, out, link, srv, hand>>
  BY DEF GroupStep, NewLightningRound, ResetGroup, GroupTriggerLock, GroupOnThreshold,
     GroupTriggerCommit, coordVars, linkVars
<1>2. QED
  BY <1>1, StepNothing

\* One server's record changes.
LEMMA StepOneServer ==
    ASSUME TrellisInv, UNCHANGED <<round, phase, rpc, mu, sync, job, out, link>>,
           NEW d \in Servers, NEW q, srv' = [srv EXCEPT ![d] = q], Keeps(srv[d], q),
           HandTypes', \A t \in Servers : Working(t)' = Working(t)
    PROVE  TrellisInv'
<1>1. DOMAIN srv = Servers /\ \A t \in Servers : Shape(srv[t])
  BY DEF TrellisInv, Types, ServerTypes
<1>2. DOMAIN srv' = Servers /\ \A t \in Servers : Keeps(srv[t], srv'[t])
  BY <1>1, KeepsSame
<1>3. QED
  BY <1>2, StepServer

\* A handler's work on one message keeps the place of its server.
LEMMA StepProcessMessage ==
    ASSUME TrellisInv, NEW d \in Servers, NEW s \in Servers, NEW c \in Clients,
           ProcessMessage(d, s, c)
    PROVE  TrellisInv'
<1> DEFINE b == hand[d][s].batch
           at == <<b.round, b.layer>>
<1>1. UNCHANGED <<round, phase, rpc, mu, sync, job, out, link>>
  BY DEF ProcessMessage, coordVars, linkVars
<1>2. HandTypes' /\ \A t \in Servers : Working(t)' = Working(t)
  BY HandedOn DEF ProcessMessage, TrellisInv, Types
<1>3. Shape(srv[d])
  BY DEF TrellisInv, Types, ServerTypes
<1>4. \/ srv' = [srv EXCEPT ![d] = handleLightningMessage(srv[d], c, at)]
      \/ srv' = [srv EXCEPT ![d] = HandleBoomerangMessage(srv[d], c, at)]
      \/ srv' = [srv EXCEPT ![d] = handlePathMessage(srv[d], d, s, c, at)]
      \/ srv' = srv
  BY DEF ProcessMessage
<1> HIDE DEF at
<1>5. /\ Keeps(srv[d], handleLightningMessage(srv[d], c, at))
      /\ Keeps(srv[d], HandleBoomerangMessage(srv[d], c, at))
      /\ Keeps(srv[d], handlePathMessage(srv[d], d, s, c, at))
  BY <1>3, LightningKeeps, BoomerangKeeps, PathKeeps
<1>6. CASE srv' = srv
  <2>1. DOMAIN srv' = Servers /\ \A t \in Servers : Keeps(srv[t], srv'[t])
    BY <1>6, KeepsSame DEF TrellisInv, Types, ServerTypes
  <2>2. QED
    BY <1>1, <1>2, <2>1, StepServer
<1>7. QED
  BY <1>1, <1>2, <1>4, <1>5, <1>6, StepOneServer

\* A client's message reaches the first layer's buffer of one server.
LEMMA StepSubmitMessage ==
    ASSUME TrellisInv, NEW c \in Clients, SubmitMessage(c)
    PROVE  TrellisInv'
<1> DEFINE s == Route[c][0]
<1>1. UNCHANGED <<round, phase, rpc, mu, sync, job, out, link, hand>>
  BY DEF SubmitMessage, linkVars
<1>2. HandTypes' /\ \A t \in Servers : Working(t)' = Working(t)
  BY <1>1 DEF TrellisInv, Types, HandTypes, Working
<1>3. s \in Servers
  BY ConfigAssumption, SMTT(30), SMTT(40) DEF Layers
<1>4. \/ srv' = [srv EXCEPT ![s] = handlePathMessage(srv[s], s, c, c, <<round, 0>>)]
      \/ srv' = [srv EXCEPT ![s] = handleLightningMessage(srv[s], c, <<round, 0>>)]
  BY DEF SubmitMessage
<1> HIDE DEF s
<1>5. Shape(srv[s])
  BY <1>3 DEF TrellisInv, Types, ServerTypes
<1>6. /\ Keeps(srv[s], handlePathMessage(srv[s], s, c, c, <<round, 0>>))
      /\ Keeps(srv[s], handleLightningMessage(srv[s], c, <<round, 0>>))
  BY <1>5, LightningKeeps, PathKeeps
<1>7. QED
  BY <1>1, <1>2, <1>3, <1>4, <1>6, StepOneServer

-----------------------------------------------------------------------------
(* Batches move.                                                           *)

\* The links after a receiver has taken the first batch of one of them.
LEMMA Shorter ==
    ASSUME LinkTypes, NEW s \in Servers, NEW d \in Servers, link[s][d] # <<>>,
           link' = [link EXCEPT ![s][d] = Tail(@)], out' = out
    PROVE  /\ LinkTypes' /\ link'[s][d] = Tail(link[s][d])
           /\ \A t, u \in Servers : t # s \/ u # d => link'[t][u] = link[t][u]
           /\ Proper(Head(link[s][d])) /\ IsSeq(link[s][d]) /\ Head(link[s][d]) = link[s][d][1]
<1>1. /\ DOMAIN link = Servers /\ \A t \in Servers : DOMAIN link[t] = Servers
      /\ \A t, u \in Servers : Batches(link[t][u])
      /\ DOMAIN out = Servers /\ \A t \in Servers : Batches(out[t])
  BY DEF LinkTypes
<1>2. /\ DOMAIN link' = Servers /\ \A t \in Servers : DOMAIN link'[t] = Servers
      /\ link'[s][d] = Tail(link[s][d])
      /\ \A t, u \in Servers : t # s \/ u # d => link'[t][u] = link[t][u]
  BY <1>1
<1>3. Batches(link[s][d]) /\ Batches(Tail(link[s][d])) /\ Proper(Head(link[s][d]))
  BY <1>1, BatchesRest
<1>4. \A t, u \in Servers : Batches(link'[t][u])
  BY <1>1, <1>2, <1>3
<1>5. LinkTypes'
  BY <1>1, <1>2, <1>4 DEF LinkTypes
<1>6. IsSeq(link[s][d]) /\ Head(link[s][d]) = link[s][d][1]
  BY <1>3, RestOf DEF Batches
<1>7. QED
  BY <1>2, <1>3, <1>5, <1>6

\* A handler takes a batch of a group: no layer counts it.
LEMMA StepTakeGroupBatch ==
    ASSUME TrellisInv, NEW d \in Servers, NEW s \in Servers, TakeGroupBatch(d, s)
    PROVE  TrellisInv'
<1> DEFINE b == Head(link[s][d])
<1>1. /\ UNCHANGED <<round, phase, rpc, mu, sync, job, out, srv>> /\ b.group # Nil
      /\ link[s][d] # <<>> /\ link' = [link EXCEPT ![s][d] = Tail(@)] /\ hand[d][s].batch = NoBatch
      /\ hand' = [hand EXCEPT ![d][s] = [batch |-> b, jobs |-> b.msgs]]
  BY DEF TakeGroupBatch, Accept, Offered, coordVars
<1>2. ControlTypes /\ ServerTypes /\ LinkTypes /\ HandTypes
  BY DEF TrellisInv, Types
<1>3. /\ LinkTypes' /\ link'[s][d] = Tail(link[s][d])
      /\ \A t, u \in Servers : t # s \/ u # d => link'[t][u] = link[t][u]
      /\ Proper(b) /\ IsSeq(link[s][d])
  BY <1>1, <1>2, Shorter
<1> HIDE DEF b
<1>4. ~OfLayer(b)
  BY <1>1, <1>3, SMTT(30), SMTT(40) DEF Proper, OfLayer
<1>5. HandTypes' /\ \A t \in Servers : Working(t)' = Working(t)
  <2>1. /\ HandTypes' /\ \A t \in Servers \ {d} : Working(t)' = Working(t)
        /\ Working(d)' = Working(d) \ {s}
    BY <1>1, <1>2, <1>3, <1>4, Handed
  <2>2. s \notin Working(d)
    BY <1>1, NoBatchOfLayer DEF Working
  <2>3. QED
    BY <2>1, <2>2
<1>6. \A t \in Servers : SameView(t)
  BY <1>1, <1>2, <1>5, KeepsSame DEF SameView, ServerTypes
<1>7. Types'
  BY <1>1, <1>2, <1>3, <1>5 DEF Types, ControlTypes, ServerTypes, Shape
<1>8. ASSUME phase = "start", NEW t \in Servers, NEW u \in Servers PROVE Queue(t, u)'
  <2>1. Line(round, link[t][u], out[t], u, Taken(u, t), Emitted(t))
    BY <1>8 DEF TrellisInv, Running, Queue
  <2>2. Taken(u, t)' = Taken(u, t) /\ Emitted(t)' = Emitted(t)
    BY <1>1, <1>6, ViewKept
  <2>3. Line(round, link'[t][u], out[t], u, Taken(u, t), Emitted(t))
    <3>1. CASE t = s /\ u = d
      BY <1>1, <1>3, <2>1, <3>1, LineRest, SMTT(30), SMTT(40)
    <3>2. CASE ~(t = s /\ u = d)
      BY <1>3, <2>1, <3>2
    <3>3. QED
      BY <3>1, <3>2
  <2>4. QED
    BY <1>1, <2>2, <2>3 DEF Queue
<1>9. ASSUME phase # "start", NEW t \in Servers
      PROVE  NoLayers(out'[t]) /\ \A u \in Servers : NoLayers(link'[t][u])
  <2>1. \A u \in Servers : NoLayers(out[t]) /\ NoLayers(link[t][u]) /\ NoLayers(link[s][d])
    BY <1>9 DEF TrellisInv, Quiet
  <2>2. QED
    BY <1>1, <1>3, <2>1, NoLayersRest
<1>10. QED
  BY <1>1, <1>6, <1>7, <1>8, <1>9, StepLinks

\* A server writes the next of its batches to a link.
LEMMA StepSendNext ==
    ASSUME TrellisInv, NEW s \in Servers, SendNext(s)
    PROVE  TrellisInv'
<1> DEFINE b == Head(out[s])
           d == b.dest
<1>1. /\ UNCHANGED <<round, phase, rpc, mu, sync, job, srv, hand>> /\ out[s] # <<>>
      /\ link' = [link EXCEPT ![s][d] = Append(@, b)] /\ out' = [out EXCEPT ![s] = Tail(@)]
  BY DEF SendNext, coordVars
<1>2. ControlTypes /\ ServerTypes /\ LinkTypes /\ HandTypes
  BY DEF TrellisInv, Types
<1>3. Batches(out[s]) /\ Batches(Tail(out[s])) /\ Proper(b) /\ b = out[s][1] /\ IsSeq(out[s])
  BY <1>1, <1>2, BatchesRest, RestOf DEF LinkTypes, Batches
<1>4. d \in Servers
  BY <1>3 DEF Proper
<1> HIDE DEF b
<1>5. /\ DOMAIN link = Servers /\ \A t \in Servers : DOMAIN link[t] = Servers
      /\ \A t, u \in Servers : Batches(link[t][u])
      /\ DOMAIN out = Servers /\ \A t \in Servers : Batches(out[t])
  BY <1>2 DEF LinkTypes
<1>6. /\ DOMAIN link' = Servers /\ \A t \in Servers : DOMAIN link'[t] = Servers
      /\ link'[s][d] = Append(link[s][d], b)
      /\ \A t, u \in Servers : t # s \/ u # d => link'[t][u] = link[t][u]
      /\ DOMAIN out' = Servers /\ out'[s] = Tail(out[s]) /\ \A t \in Servers \ {s} : out'[t] = out[t]
  <2> HIDE DEF d
  <2>1. QED
    BY <1>1, <1>4, <1>5
<1>7. LinkTypes'
  <2>1. Batches(link'[s][d])
    <3>1. Batches(Append(link[s][d], b))
      BY <1>3, <1>4, <1>5, BatchesMore
    <3>2. QED
      BY <1>6, <3>1
  <2>2. /\ \A t, u \in Servers : Batches(link'[t][u])
        /\ \A t \in Servers : Batches(out'[t])
    BY <1>3, <1>5, <1>6, <2>1
  <2>3. QED
    BY <1>6, <2>2 DEF LinkTypes
<1>8. HandTypes' /\ \A t \in Servers : Working(t)' = Working(t)
  BY <1>1, <1>2 DEF HandTypes, Working
<1>9. \A t \in Servers : SameView(t)
  BY <1>1, <1>2, <1>8, KeepsSame DEF SameView, ServerTypes
<1>10. Types'
  BY <1>1, <1>2, <1>7, <1>8 DEF Types, ControlTypes, ServerTypes, Shape
<1>11. ASSUME phase = "start", NEW t \in Servers, NEW u \in Servers PROVE Queue(t, u)'
  <2>1. Line(round, link[t][u], out[t], u, Taken(u, t), Emitted(t))
    BY <1>11 DEF TrellisInv, Running, Queue
  <2>2. Taken(u, t)' = Taken(u, t) /\ Emitted(t)' = Emitted(t)
    BY <1>1, <1>9, ViewKept
  <2>3. round \in Int /\ Taken(u, t) \in Int /\ Emitted(t) \in Int
    BY ViewTypes DEF TrellisInv
  <2>4. Line(round, link'[t][u], out'[t], u, Taken(u, t), Emitted(t))
    <3>1. CASE t # s
      BY <1>6, <2>1, <3>1
    <3>2. CASE t = s /\ u = d
      <4>1. Line(round, Append(link[s][u], out[s][1]), Tail(out[s]), u, Taken(u, t), Emitted(t))
        BY <1>1, <1>3, <1>5, <2>1, <2>3, <3>2, LineSent
      <4>2. QED
        BY <1>3, <1>6, <3>2, <4>1
    <3>3. CASE t = s /\ u # d
      BY <1>1, <1>3, <1>6, <2>1, <3>3, LineElsewhere
    <3>4. QED
      BY <3>1, <3>2, <3>3
  <2>5. QED
    BY <1>1, <2>2, <2>4 DEF Queue
<1>12. ASSUME phase # "start", NEW t \in Servers
       PROVE  NoLayers(out'[t]) /\ \A u \in Servers : NoLayers(link'[t][u])
  <2>1. /\ NoLayers(out[t]) /\ NoLayers(out[s])
        /\ \A u \in Servers : NoLayers(link[t][u]) /\ NoLayers(link[s][u])
    BY <1>12 DEF TrellisInv, Quiet
  <2>2. NoLayers(Tail(out[s])) /\ ~OfLayer(b)
    BY <1>1, <1>3, <2>1, NoLayersRest DEF b
  <2>3. NoLayers(Append(link[s][d], b))
    BY <1>4, <1>5, <2>1, <2>2, NoLayersMore DEF Batches
  <2>4. QED
    BY <1>6, <2>1, <2>2, <2>3
<1>13. QED
  BY <1>1, <1>9, <1>10, <1>11, <1>12, StepLinks

-----------------------------------------------------------------------------
(* A server in a round counts the batches of its layer.                    *)

\* Steps of a server that stays in its layer.
LEMMA WithinLayer ==
    ASSUME NEW s \in Servers, round' = round, Placed(s), Local(s), Keeps(srv[s], srv'[s]),
           Placed(s)', rpc'[s] \notin {"setup", "setupGroups"},
           rpc'[s] \in {"reset", "send"} => IsPath(round),
           rpc'[s] \in {"groups", "done"} => srv[s].complete,
           rpc'[s] = "start" => rpc[s] = "start" /\ sync'[s].trig = "none",
           \/ mu'[s] = mu[s] /\ job'[s] = job[s]
           \/ mu'[s] # "next" /\ mu[s] # "next",
           sync'[s].layer = sync[s].layer, sync'[s].next = sync[s].next,
           sync'[s].trig = "called" <=> sync[s].trig = "called", Counting(s)'
    PROVE  /\ Local(s)' /\ At(s)' = At(s) /\ Emitted(s)' = Emitted(s)
           /\ \A t \in Servers : (t \in sync'[s].started <=> t \in sync[s].started) =>
                Taken(s, t)' = Taken(s, t)
<1>1. /\ srv'[s].layer = srv[s].layer /\ srv'[s].path = srv[s].path
      /\ srv'[s].pathLayer = srv[s].pathLayer /\ srv'[s].receiptLayer = srv[s].receiptLayer
      /\ srv'[s].complete = srv[s].complete
      /\ \A l \in Layers : srv[s].routers[l] # Nil => srv'[s].routers[l] # Nil
  BY DEF Keeps
<1>2. \A l : Pos(l)' = Pos(l)
  BY DEF Pos
<1>3. At(s)' = At(s)
  BY <1>1, <1>2 DEF At
<1>4. Emitted(s)' = Emitted(s)
  BY <1>3 DEF Emitted, Asking
<1>5. InRound(s)
  BY DEF Local
<1>6. InRound(s)'
  BY <1>1, <1>2, <1>3, <1>5 DEF InRound
<1>7. Local(s)'
  BY <1>1, <1>6 DEF Local
<1>8. \A t \in Servers : (t \in sync'[s].started <=> t \in sync[s].started) =>
          Taken(s, t)' = Taken(s, t)
  BY <1>2 DEF Taken
<1>9. QED
  BY <1>3, <1>4, <1>7, <1>8

\* A batch of a layer that can be taken: the round runs, the receiver is in it and has
\* not yet taken a batch of its layer from this sender.
LEMMA FirstOfSender ==
    ASSUME TrellisInv, NEW d \in Servers, NEW s \in Servers, link[s][d] # <<>>,
           Head(link[s][d]).group = Nil, InLayer(sync[d], Head(link[s][d]).layer)
    PROVE  /\ phase = "start" /\ Placed(d) /\ InRound(d) /\ OfLayer(Head(link[s][d]))
           /\ sync[d].trig = "none" /\ s \notin sync[d].started /\ Pos(sync[d].layer) >= 0
           /\ Line(round, Tail(link[s][d]), out[s], d, Pos(sync[d].layer) + 1, Emitted(s))
<1> DEFINE b == Head(link[s][d])
           q == Pos(sync[d].layer)
<1>1. Types /\ Batches(link[s][d])
  BY DEF TrellisInv, Types, LinkTypes
<1>2. Proper(b) /\ b = link[s][d][1] /\ IsSeq(link[s][d])
  BY <1>1, BatchesRest, RestOf DEF Batches
<1>3. OfLayer(b)
  BY <1>2, ConfigAssumption DEF Proper
<1>4. phase = "start"
  BY <1>2, <1>3, NoLayersRest DEF TrellisInv, Quiet
<1>5. /\ Line(round, link[s][d], out[s], d, Taken(d, s), Emitted(s)) /\ Local(d)
      /\ At(s) <= At(d) + 1
  BY <1>4 DEF TrellisInv, Running, Queue
<1>6. /\ At(s) \in Int /\ Emitted(s) \in Int /\ Taken(d, s) \in Int /\ round \in Int
      /\ Taken(d, s) >= 0 /\ Emitted(s) <= At(s) + 1
  BY <1>1, ViewTypes
<1>7. b.layer = sync[d].layer /\ sync[d].trig \in {"none", "spawned"} /\ sync[d].layer \in Int
  <2>1. sync[d] \in Syncs
    BY <1>1 DEF Types, ControlTypes
  <2>2. sync[d].layer \in Int
    BY <2>1, SMTT(30), SMTT(40) DEF Syncs
  <2>3. QED
    BY <2>2 DEF InLayer, Unlocked
<1>8. q = Place(round, link[s][d][1].layer) /\ q \in Int
  BY <1>2, <1>6, <1>7, PlaceType DEF Pos
<1> HIDE DEF b, q
<1>9. /\ Line(round, Tail(link[s][d]), out[s], d, q + 1, Emitted(s)) /\ Taken(d, s) <= q
      /\ q < Emitted(s)
  BY <1>1, <1>2, <1>3, <1>5, <1>6, <1>8, LineTaken
<1>10. Placed(d)
  <2>1. SUFFICES ASSUME ~Placed(d) PROVE FALSE
    OBVIOUS
  <2>2. IsPath(round) /\ Resting(d) /\ At(d) = -1
    BY <1>5, <2>1 DEF Placed, Local, At
  <2>3. q = round - sync[d].layer /\ sync[d].layer < round
    BY <2>2 DEF q, Pos, Place, Resting
  <2>4. QED
    BY <1>5, <1>6, <1>7, <1>9, <2>2, <2>3, SMTT(30), SMTT(40)
<1>11. q >= 0 /\ ~(q < 0)
  BY <1>6, <1>8, <1>9, SMTT(30), SMTT(40)
<1>12. s \notin sync[d].started
  <2>1. s \in sync[d].started => Taken(d, s) = q + 1
    BY <1>10, <1>11 DEF Taken, q
  <2>2. QED
    BY <1>8, <1>9, <2>1, SMTT(30), SMTT(40)
<1>13. InRound(d)
  BY <1>5, <1>10 DEF Local
<1>14. sync[d].trig = "none"
  BY <1>11, <1>12, <1>13 DEF InRound, Counting, Counted, q
<1>15. QED
  BY <1>3, <1>4, <1>9, <1>10, <1>11, <1>12, <1>13, <1>14 DEF b, q

\* A batch is taken: its sender is marked.
LEMMA OnceSync ==
    ASSUME NEW y \in Syncs, NEW s \in Servers
    PROVE  /\ SyncOnce(y, s) \in Syncs /\ SyncOnce(y, s).layer = y.layer
           /\ SyncOnce(y, s).started = y.started \cup {s} /\ SyncOnce(y, s).processed = y.processed
           /\ SyncOnce(y, s).trig = y.trig /\ SyncOnce(y, s).next = y.next
BY SMTT(30), SMTT(40) DEF Syncs, SyncOnce

\* HandleRouterTraffic takes a batch of its layer (syncOnce).
LEMMA StepTakeBatch ==
    ASSUME TrellisInv, NEW d \in Servers, NEW s \in Servers, TakeBatch(d, s)
    PROVE  TrellisInv'
<1> DEFINE b == Head(link[s][d])
<1>1. /\ UNCHANGED <<round, phase, rpc, mu, job, out>> /\ b.group = Nil
      /\ InLayer(sync[d], b.layer) /\ sync' = [sync EXCEPT ![d] = SyncOnce(@, s)]
      /\ link[s][d] # <<>> /\ link' = [link EXCEPT ![s][d] = Tail(@)]
      /\ hand' = [hand EXCEPT ![d][s] = [batch |-> b, jobs |-> b.msgs]]
      /\ srv' = srv \/ srv' = [srv EXCEPT ![d] = Fail(@, "rejected batch")]
  BY DEF TakeBatch, Accept, Offered, coordVars
<1>2. ControlTypes /\ ServerTypes /\ LinkTypes /\ HandTypes /\ Types /\ Holds
  BY DEF TrellisInv, Types
<1>3. /\ LinkTypes' /\ link'[s][d] = Tail(link[s][d]) /\ Proper(b)
      /\ \A t, u \in Servers : t # s \/ u # d => link'[t][u] = link[t][u]
  BY <1>1, <1>2, Shorter
<1>4. /\ phase = "start" /\ Placed(d) /\ InRound(d) /\ OfLayer(b)
      /\ sync[d].trig = "none" /\ s \notin sync[d].started /\ Pos(sync[d].layer) >= 0
      /\ Line(round, Tail(link[s][d]), out[s], d, Pos(sync[d].layer) + 1, Emitted(s))
  BY <1>1, FirstOfSender
<1> HIDE DEF b
<1>5. /\ HandTypes' /\ \A t \in Servers \ {d} : Working(t)' = Working(t)
      /\ Working(d)' = Working(d) \cup {s}
  BY <1>1, <1>2, <1>3, <1>4, Handed
<1>6. /\ DOMAIN sync' = Servers /\ \A t \in Servers \ {d} : sync'[t] = sync[t]
      /\ sync'[d] \in Syncs
      /\ sync'[d].layer = sync[d].layer /\ sync'[d].started = sync[d].started \cup {s}
      /\ sync'[d].processed = sync[d].processed /\ sync'[d].trig = sync[d].trig
      /\ sync'[d].next = sync[d].next
  <2>1. sync[d] \in Syncs /\ DOMAIN sync = Servers
    BY <1>2 DEF ControlTypes
  <2>2. /\ DOMAIN sync' = Servers /\ \A t \in Servers \ {d} : sync'[t] = sync[t]
        /\ sync'[d] = SyncOnce(sync[d], s)
    BY <1>1, <2>1
  <2>3. QED
    BY <2>1, <2>2, OnceSync, SMTT(30), SMTT(40)
<1>7. DOMAIN srv' = Servers /\ \A t \in Servers : Keeps(srv[t], srv'[t])
  <2>1. DOMAIN srv = Servers /\ \A t \in Servers : Shape(srv[t]) /\ Keeps(srv[t], srv[t])
    BY <1>2, KeepsSame DEF ServerTypes
  <2>2. Keeps(srv[d], Fail(srv[d], "rejected batch"))
    BY <2>1, FailKeeps
  <2>3. CASE srv' = srv
    BY <2>1, <2>3
  <2>4. CASE srv' = [srv EXCEPT ![d] = Fail(@, "rejected batch")]
    BY <2>1, <2>2, <2>4
  <2>5. QED
    BY <1>1, <2>3, <2>4
<1>8. Types' /\ Holds'
  <2>1. ControlTypes'
    BY <1>1, <1>2, <1>6 DEF ControlTypes
  <2>2. ServerTypes'
    BY <1>1, <1>2, <1>7 DEF ServerTypes, Keeps
  <2>3. QED
    BY <1>1, <1>2, <1>3, <1>5, <2>1, <2>2 DEF Types, Holds
<1>9. \A t \in Servers \ {d} : SameView(t)
  BY <1>1, <1>5, <1>6, <1>7 DEF SameView
<1>10. Counting(d)'
  <2>1. Counting(d)
    BY <1>4 DEF InRound
  <2>2. sync'[d].started \ Working(d)' = sync[d].started \ Working(d)
    BY <1>4, <1>5, <1>6, <2>1 DEF Counting, Counted
  <2>3. ~(Pos(sync[d].layer) < 0) /\ Pos(sync[d].layer)' = Pos(sync[d].layer)
    <3>1. Pos(sync[d].layer) \in Int
      BY <1>2, ViewTypes
    <3>2. Pos(sync[d].layer)' = Pos(sync[d].layer) /\ Pos(sync[d].layer) >= 0
      BY <1>1, <1>4, <1>6 DEF Pos
    <3>3. QED
      BY <3>1, <3>2, SMTT(30), SMTT(40)
  <2>4. QED
    BY <1>4, <1>5, <1>6, <2>1, <2>2, <2>3 DEF Counting, Counted
<1>11. /\ Local(d)' /\ At(d)' = At(d) /\ Emitted(d)' = Emitted(d)
       /\ \A t \in Servers : (t \in sync'[d].started <=> t \in sync[d].started) =>
            Taken(d, t)' = Taken(d, t)
  <2>1. Local(d) /\ Placed(d)' /\ rpc'[d] = rpc[d] /\ mu'[d] = mu[d] /\ job'[d] = job[d]
    BY <1>1, <1>4 DEF TrellisInv, Running, Placed
  <2>2. /\ rpc[d] \notin {"setup", "setupGroups"} /\ (rpc[d] \in {"reset", "send"} => IsPath(round))
        /\ (rpc[d] \in {"groups", "done"} => srv[d].complete)
    BY <1>4, <2>1 DEF Local, InRound
  <2>3. QED
    BY <1>1, <1>4, <1>6, <1>7, <1>10, <2>1, <2>2, WithinLayer
<1>12. \A t \in Servers : Local(t)' /\ At(t)' = At(t) /\ Emitted(t)' = Emitted(t)
  BY <1>1, <1>4, <1>9, <1>11, ViewKept DEF TrellisInv, Running
<1>13. /\ \A t \in Servers, u \in Servers \ {d} : Taken(u, t)' = Taken(u, t)
       /\ \A t \in Servers \ {s} : Taken(d, t)' = Taken(d, t)
       /\ Taken(d, s)' = Pos(sync[d].layer) + 1
  <2>1. \A t \in Servers, u \in Servers \ {d} : Taken(u, t)' = Taken(u, t)
    BY <1>1, <1>9, ViewKept
  <2>2. Placed(d)' /\ Pos(sync[d].layer)' = Pos(sync[d].layer) /\ ~(Pos(sync[d].layer) < 0)
    <3>1. Pos(sync[d].layer) \in Int
      BY <1>2, ViewTypes
    <3>2. /\ Placed(d)' /\ Pos(sync[d].layer)' = Pos(sync[d].layer)
          /\ Pos(sync[d].layer) >= 0
      BY <1>1, <1>4, <1>6 DEF Pos, Placed
    <3>3. QED
      BY <3>1, <3>2, SMTT(30), SMTT(40)
  <2>3. \A t \in Servers \ {s} : t \in sync'[d].started <=> t \in sync[d].started
    BY <1>6
  <2>4. \A t \in Servers \ {s} : Taken(d, t)' = Taken(d, t)
    BY <1>11, <2>3
  <2>5. Taken(d, s)' = Pos(sync[d].layer) + 1
    BY <1>6, <2>2 DEF Taken
  <2>6. QED
    BY <2>1, <2>4, <2>5
<1>14. ASSUME NEW t \in Servers, NEW u \in Servers PROVE Queue(t, u)'
  <2>1. Line(round, link[t][u], out[t], u, Taken(u, t), Emitted(t))
    BY <1>4 DEF TrellisInv, Running, Queue
  <2>2. CASE t = s /\ u = d
    BY <1>1, <1>3, <1>4, <1>12, <1>13, <2>2 DEF Queue
  <2>3. CASE ~(t = s /\ u = d)
    BY <1>1, <1>3, <1>12, <1>13, <2>1, <2>3 DEF Queue
  <2>4. QED
    BY <2>2, <2>3
<1>15. Running'
  BY <1>1, <1>4, <1>12, <1>14 DEF TrellisInv, Running
<1>16. QED
  BY <1>1, <1>4, <1>8, <1>15 DEF TrellisInv

-----------------------------------------------------------------------------
(* Steps of one server.                                                    *)

\* An EXCEPT at s changes the value at s only.
LEMMA OnlyThat ==
    ASSUME NEW f, DOMAIN f = Servers, NEW s \in Servers, NEW v
    PROVE  Only(f, [f EXCEPT ![s] = v], s, v) /\ Only(f, f, s, f[s])
BY DEF Only

\* What the other servers see of a step of server s, and the types after it.
LEMMA OneServer ==
    ASSUME TrellisInv, NEW s \in Servers, NEW a, NEW m, NEW y, NEW q, NEW j, NEW o,
           Moves(s, a, m, y, q, j, o), Fits(a, m, y, q, j, o)
    PROVE  /\ Types' /\ Holds' /\ \A t \in Servers \ {s} : SameView(t) /\ out'[t] = out[t]
           /\ Working(s)' = Working(s) /\ rpc'[s] = a /\ mu'[s] = m /\ sync'[s] = y /\ srv'[s] = q
           /\ job'[s] = j /\ out'[s] = o
<1>1. ControlTypes /\ ServerTypes /\ LinkTypes /\ HandTypes /\ Holds
  BY DEF TrellisInv, Types
<1>2. /\ rpc'[s] = a /\ \A t \in Servers \ {s} : rpc'[t] = rpc[t]
      /\ mu'[s] = m /\ \A t \in Servers \ {s} : mu'[t] = mu[t]
      /\ sync'[s] = y /\ \A t \in Servers \ {s} : sync'[t] = sync[t]
      /\ DOMAIN rpc' = Servers /\ DOMAIN mu' = Servers /\ DOMAIN sync' = Servers
  BY DEF Moves, Only
<1>3. /\ srv'[s] = q /\ \A t \in Servers \ {s} : srv'[t] = srv[t]
      /\ job'[s] = j /\ \A t \in Servers \ {s} : job'[t] = job[t]
      /\ out'[s] = o /\ \A t \in Servers \ {s} : out'[t] = out[t]
      /\ DOMAIN srv' = Servers /\ DOMAIN job' = Servers /\ DOMAIN out' = Servers
      /\ UNCHANGED <<round, phase, link, hand>>
  BY DEF Moves, Only
<1>4. \A t \in Servers : Working(t)' = Working(t)
  BY <1>3 DEF Working
<1>5. \A t \in Servers \ {s} : SameView(t)
  BY <1>1, <1>2, <1>3, <1>4, KeepsSame DEF SameView, ServerTypes
<1>6. ControlTypes'
  BY <1>1, <1>2, <1>3 DEF ControlTypes, Fits
<1>7. ServerTypes'
  BY <1>1, <1>2, <1>3 DEF ServerTypes, Fits
<1>8. LinkTypes'
  BY <1>1, <1>3 DEF LinkTypes, Fits
<1>9. HandTypes'
  BY <1>1, <1>3 DEF HandTypes
<1>10. Holds'
  BY <1>1, <1>2 DEF Holds, Fits
<1>11. QED
  BY <1>2, <1>3, <1>4, <1>5, <1>6, <1>7, <1>8, <1>9, <1>10 DEF Types

\* The values before a step.
LEMMA Before ==
    ASSUME TrellisInv, NEW s \in Servers
    PROVE  /\ DOMAIN rpc = Servers /\ DOMAIN mu = Servers /\ DOMAIN sync = Servers
           /\ DOMAIN srv = Servers /\ DOMAIN job = Servers /\ DOMAIN out = Servers
           /\ rpc[s] \in Calls /\ mu[s] \in Holders /\ sync[s] \in Syncs /\ Shape(srv[s])
           /\ (mu[s] = "next" => job[s] = [kind |-> job[s].kind, layer |-> job[s].layer])
           /\ Batches(out[s])
           /\ (mu[s] = "start" <=> rpc[s] \in {"reset", "send"})
           /\ (mu[s] = "setup" <=> rpc[s] = "setupGroups")
BY DEF TrellisInv, Types, ControlTypes, ServerTypes, LinkTypes, Holds

\* A synchronizer is made, or reset for a layer.
LEMMA NewSync ==
    ASSUME NEW l \in Int
    PROVE  /\ NewSynchronizer(l) \in Syncs /\ NewSynchronizer(l).layer = l
           /\ NewSynchronizer(l).started = {} /\ NewSynchronizer(l).processed = 0
           /\ NewSynchronizer(l).trig = "none"
BY SMTT(30), SMTT(40) DEF Syncs, NewSynchronizer

\* Reset leaves a synchronizer that has counted nothing.
LEMMA ResetSync ==
    ASSUME NEW y \in Syncs, NEW l \in Int
    PROVE  /\ Reset(y, l) \in Syncs /\ Reset(y, l).layer = l /\ Reset(y, l).started = {}
           /\ Reset(y, l).processed = 0 /\ Reset(y, l).trig = y.trig
BY SMTT(30), SMTT(40) DEF Syncs, Reset, NewSynchronizer

\* The steps of the trigger change neither the layer nor the count.
LEMMA TriggerSteps ==
    ASSUME NEW y \in Syncs, NEW n \in Int
    PROVE  /\ Spawn(y) \in Syncs /\ Spawn(y).layer = y.layer /\ Spawn(y).started = y.started
           /\ Spawn(y).processed = y.processed /\ Spawn(y).trig = "spawned" /\ Spawn(y).next = y.next
           /\ Lock(y) \in Syncs /\ Lock(y).layer = y.layer /\ Lock(y).started = y.started
           /\ Lock(y).processed = y.processed /\ Lock(y).trig = "locked" /\ Lock(y).next = y.next
           /\ Called(y, n) \in Syncs /\ Called(y, n).layer = y.layer
           /\ Called(y, n).started = y.started /\ Called(y, n).processed = y.processed
           /\ Called(y, n).trig = "called" /\ Called(y, n).next = n
           /\ y.layer \in Int /\ y.next \in Int
BY DEF Syncs, Spawn, Lock, Called

\* Empty buffers are not Nil.
LEMMA Buffers == NoBuffers \in [Servers -> SUBSET Clients] /\ NoBuffers # Nil
<1>1. NoBuffers \in [Servers -> SUBSET Clients]
  BY DEF NoBuffers
<1>2. QED
  BY <1>1, ConfigAssumption

\* A server that runs a round or a layer of it is in a round.
LEMMA RoundRuns ==
    ASSUME TrellisInv, NEW s \in Servers,
           \/ rpc[s] \in {"start", "reset", "send", "trigger", "wait", "groups"}
           \/ mu[s] = "next" \/ sync[s].trig \in {"spawned", "locked"} \/ Working(s) # {}
    PROVE  phase = "start" /\ Running /\ Local(s)
BY DEF TrellisInv, Quiet, Still, Running

\* Server.RoundSetup of round 0.
LEMMA StepRoundSetupPath ==
    ASSUME TrellisInv, NEW s \in Servers, RoundSetupPath(s)
    PROVE  TrellisInv'
<1> DEFINE q == SetupNewPathEstablishmentRound(srv[s])
           y == NewSynchronizer(0)
<1>1. /\ UNCHANGED <<round, phase, link, hand, mu, job, out>> /\ rpc[s] = "setup" /\ mu[s] = "free"
      /\ IsPath(round) /\ rpc' = [rpc EXCEPT ![s] = "done"] /\ srv' = [srv EXCEPT ![s] = q]
      /\ sync' = [sync EXCEPT ![s] = y]
  BY DEF RoundSetupPath, MuFree, coordVars, linkVars
<1>2. phase = "setup" /\ Still(s)
  BY <1>1 DEF TrellisInv, Running, Local, Quiet, Still
<1>3. Shape(q) /\ q.path = TRUE
  <2>1. /\ DOMAIN q = Fields /\ q.layer = 0 /\ q.path = TRUE /\ q.pathLayer = 0 /\ q.receiptLayer = 0
        /\ q.complete = FALSE /\ q.routers = [l \in Layers |-> Nil]
        /\ q.tokens = [g \in Groups |-> {}]
    BY SMTT(30), SMTT(40) DEF SetupNewPathEstablishmentRound, NewServer, NoGroupBuffers, Fields
  <2>2. 0 \in Int
    BY SMTT(30), SMTT(40)
  <2>3. /\ [l \in Layers |-> Nil] \in [Layers -> [Servers -> SUBSET Clients] \cup {Nil}]
        /\ [g \in Groups |-> {}] \in [Groups -> SUBSET Clients]
    OBVIOUS
  <2> HIDE DEF q
  <2>4. QED
    BY <2>1, <2>2, <2>3 DEF Shape
<1>4. y \in Syncs /\ y.layer = 0 /\ y.trig = "none"
  BY NewSync, SMTT(30), SMTT(40)
<1> HIDE DEF q, y
<1>5. /\ Types' /\ Holds' /\ \A t \in Servers \ {s} : SameView(t)
      /\ Working(s)' = Working(s) /\ rpc'[s] = "done" /\ mu'[s] = "free" /\ sync'[s] = y
      /\ srv'[s] = q
  <2>1. Moves(s, "done", "free", y, q, job[s], out[s])
    BY <1>1, Before, OnlyThat DEF Moves
  <2>2. "done" \in Calls /\ "free" \in Holders /\ Batches(out[s])
    BY Before DEF Calls, Holders
  <2>3. Fits("done", "free", y, q, job[s], out[s])
    BY <1>1, <1>3, <1>4, <2>2 DEF Fits
  <2>4. QED
    BY <2>1, <2>3, OneServer, SMTT(30), SMTT(40)
<1>6. Still(s)'
  BY <1>1, <1>2, <1>3, <1>4, <1>5 DEF Still, Fresh
<1>7. QED
  BY <1>1, <1>2, <1>5, <1>6, StepStill

\* Server.RoundSetup of a broadcast round.
LEMMA StepRoundSetupLightning ==
    ASSUME TrellisInv, NEW s \in Servers, RoundSetupLightning(s)
    PROVE  TrellisInv'
<1> DEFINE q == SetupNewLightningRound(srv[s], round)
           y == NewSynchronizer(0)
<1>1. /\ UNCHANGED <<round, phase, link, hand, job, out>> /\ rpc[s] = "setup" /\ mu[s] = "free"
      /\ ~IsPath(round) /\ rpc' = [rpc EXCEPT ![s] = "setupGroups"]
      /\ mu' = [mu EXCEPT ![s] = "setup"] /\ srv' = [srv EXCEPT ![s] = q]
      /\ sync' = [sync EXCEPT ![s] = y]
  BY DEF RoundSetupLightning, MuFree, coordVars, linkVars
<1>2. phase = "setup" /\ Still(s)
  BY <1>1 DEF TrellisInv, Running, Local, Quiet, Still
<1>3. /\ Shape(q) /\ q.path = FALSE /\ q.complete = FALSE /\ q.layer = 0 /\ q.receiptLayer = -1
      /\ 0 \in Layers /\ q.routers[0] # Nil
  <2>1. /\ DOMAIN q = Fields /\ q.layer = 0 /\ q.path = FALSE /\ q.pathLayer = -1
        /\ q.receiptLayer = -1 /\ q.complete = FALSE /\ q.tokens = srv[s].tokens
        /\ q.routers = [l \in Layers |-> IF l = 0 THEN NoBuffers ELSE Nil]
    BY Before DEF SetupNewLightningRound, Shape, Fields
  <2>2. srv[s].tokens \in [Groups -> SUBSET Clients]
    BY Before DEF Shape
  <2>3. 0 \in Layers
    BY ConfigAssumption, SMTT(30), SMTT(40) DEF Layers
  <2> HIDE DEF q
  <2>4. q.routers \in [Layers -> [Servers -> SUBSET Clients] \cup {Nil}] /\ q.routers[0] # Nil
    BY <2>1, <2>3, Buffers
  <2>5. Shape(q)
    <3>1. 0 \in Int /\ -1 \in Int
      BY SMTT(30), SMTT(40)
    <3>2. QED
      BY <2>1, <2>2, <2>4, <3>1 DEF Shape
  <2>6. QED
    BY <2>1, <2>3, <2>4, <2>5
<1>4. y \in Syncs /\ y.trig = "none"
  BY NewSync, SMTT(30), SMTT(40)
<1> HIDE DEF q
<1>5. /\ Types' /\ Holds' /\ \A t \in Servers \ {s} : SameView(t)
      /\ Working(s)' = Working(s) /\ rpc'[s] = "setupGroups" /\ mu'[s] = "setup" /\ sync'[s] = y
      /\ srv'[s] = q
  <2> HIDE DEF y
  <2>1. Moves(s, "setupGroups", "setup", y, q, job[s], out[s])
    BY <1>1, Before, OnlyThat DEF Moves
  <2>2. "setupGroups" \in Calls /\ "setup" \in Holders /\ Batches(out[s])
    BY Before DEF Calls, Holders
  <2>3. Fits("setupGroups", "setup", y, q, job[s], out[s])
    BY <1>1, <1>3, <1>4, <2>2 DEF Fits
  <2>4. QED
    BY <2>1, <2>3, OneServer, SMTT(30), SMTT(40)
<1>6. Still(s)'
  BY <1>1, <1>2, <1>3, <1>4, <1>5 DEF Still, Fresh
<1>7. QED
  BY <1>1, <1>2, <1>5, <1>6, StepStill

\* RoundSetup returns at a server.
LEMMA StepSetupDone ==
    ASSUME TrellisInv, NEW s \in Servers, SetupDone(s)
    PROVE  TrellisInv'
<1>1. /\ UNCHANGED <<round, phase, link, hand, sync, srv, job, out>> /\ rpc[s] = "setupGroups"
      /\ rpc' = [rpc EXCEPT ![s] = "done"] /\ mu' = [mu EXCEPT ![s] = "free"]
  BY DEF SetupDone, coordVars, linkVars
<1>2. phase = "setup" /\ Still(s)
  BY <1>1 DEF TrellisInv, Running, Local, Quiet, Still
<1>3. /\ Types' /\ Holds' /\ \A t \in Servers \ {s} : SameView(t)
      /\ Working(s)' = Working(s) /\ rpc'[s] = "done" /\ mu'[s] = "free" /\ sync'[s] = sync[s]
      /\ srv'[s] = srv[s]
  <2>1. Moves(s, "done", "free", sync[s], srv[s], job[s], out[s])
    BY <1>1, Before, OnlyThat DEF Moves
  <2>2. /\ "done" \in Calls /\ "free" \in Holders /\ Batches(out[s]) /\ sync[s] \in Syncs
        /\ Shape(srv[s])
    BY Before DEF Calls, Holders
  <2>3. Fits("done", "free", sync[s], srv[s], job[s], out[s])
    BY <1>1, <2>2 DEF Fits
  <2>4. QED
    BY <2>1, <2>3, OneServer, SMTT(30), SMTT(40)
<1>4. Fresh(s)
  BY <1>1, <1>2 DEF Still
<1>5. Still(s)'
  BY <1>1, <1>2, <1>3, <1>4 DEF Still, Fresh
<1>6. QED
  BY <1>1, <1>2, <1>3, <1>5, StepStill

\* RoundStart of a path round takes Server.mu and makes the layer's parsers.
LEMMA StepRoundStartPath ==
    ASSUME TrellisInv, NEW s \in Servers, RoundStartPath(s)
    PROVE  TrellisInv'
<1> DEFINE q == StartPathLayer(srv[s], round)
<1>1. /\ UNCHANGED <<round, phase, link, hand, sync, job, out>> /\ rpc[s] = "start" /\ srv[s].path
      /\ mu[s] = "free" /\ rpc' = [rpc EXCEPT ![s] = "reset"]
      /\ mu' = [mu EXCEPT ![s] = "start"] /\ srv' = [srv EXCEPT ![s] = q]
  BY DEF RoundStartPath, MuFree, coordVars, linkVars
<1>2. phase = "start" /\ Running /\ Local(s)
  BY <1>1, RoundRuns
<1>3. IsPath(round) /\ ~Placed(s) /\ Resting(s) /\ At(s) = -1
  BY <1>1, <1>2 DEF Local, Placed, At
<1>4. round \in Layers
  BY <1>2, <1>3, ConfigAssumption, SMTT(30), SMTT(40)
  DEF TrellisInv, Types, ControlTypes, Running, IsPath, Layers, LastRound
<1>5. /\ Shape(q) /\ q.path = srv[s].path /\ q.layer = round /\ q.pathLayer = round
      /\ q.receiptLayer = ReceiptLayer(round) /\ q.complete = FALSE /\ q.routers[round] # Nil
  <2>1. Shape(srv[s])
    BY Before
  <2>2. /\ DOMAIN q = Fields /\ q.layer = round /\ q.path = srv[s].path /\ q.pathLayer = round
        /\ q.receiptLayer = ReceiptLayer(round) /\ q.complete = FALSE
        /\ q.tokens = IF round = LastLayer THEN NoGroupBuffers ELSE srv[s].tokens
        /\ q.routers = [srv[s].routers EXCEPT ![round] = NoBuffers]
    BY <2>1 DEF StartPathLayer, Shape, Fields
  <2>3. ReceiptLayer(round) \in Int /\ round \in Int
    BY <1>4, ConfigAssumption, SMTT(30), SMTT(40) DEF ReceiptLayer, Layers
  <2> HIDE DEF q
  <2>4. q.tokens \in [Groups -> SUBSET Clients]
    BY <2>1, <2>2 DEF Shape, NoGroupBuffers
  <2>5. q.routers \in [Layers -> [Servers -> SUBSET Clients] \cup {Nil}] /\ q.routers[round] # Nil
    BY <1>4, <2>1, <2>2, Buffers DEF Shape
  <2>6. Shape(q)
    <3>1. srv[s].path \in BOOLEAN
      BY <2>1 DEF Shape
    <3>2. QED
      BY <2>2, <2>3, <2>4, <2>5, <3>1 DEF Shape
  <2>7. QED
    BY <2>2, <2>5, <2>6
<1> HIDE DEF q
<1>6. /\ Types' /\ Holds' /\ \A t \in Servers \ {s} : SameView(t)
      /\ Working(s)' = Working(s) /\ rpc'[s] = "reset" /\ mu'[s] = "start" /\ sync'[s] = sync[s]
      /\ srv'[s] = q
  <2>1. Moves(s, "reset", "start", sync[s], q, job[s], out[s])
    BY <1>1, Before, OnlyThat DEF Moves
  <2>2. "reset" \in Calls /\ "start" \in Holders /\ Batches(out[s]) /\ sync[s] \in Syncs
    BY Before DEF Calls, Holders
  <2>3. Fits("reset", "start", sync[s], q, job[s], out[s])
    BY <1>1, <1>5, <2>2 DEF Fits
  <2>4. QED
    BY <2>1, <2>3, OneServer, SMTT(30), SMTT(40)
<1>7. ~Placed(s)' /\ At(s)' = -1
  BY <1>1, <1>3, <1>6 DEF Placed, At
<1>8. Local(s)'
  <2>1. Resting(s)'
    BY <1>1, <1>3, <1>4, <1>5, <1>6 DEF Resting
  <2>2. QED
    BY <1>1, <1>3, <1>5, <1>6, <1>7, <2>1 DEF Local
<1>9. Emitted(s)' = Emitted(s) /\ \A t \in Servers : Taken(s, t)' = Taken(s, t)
  BY <1>1, <1>3, <1>6, <1>7 DEF Emitted, Asking, Taken
<1>10. QED
  BY <1>1, <1>2, <1>3, <1>6, <1>7, <1>8, <1>9, StepLocal

\* No server is further back than before the first layer.
LEMMA NotBefore ==
    ASSUME Running, Types, NEW t \in Servers
    PROVE  At(t) >= -1
<1>1. Local(t)
  BY DEF Running
<1>2. At(t) \in Int
  BY ViewTypes, SMTT(30), SMTT(40)
<1>3. CASE Placed(t)
  BY <1>1, <1>2, <1>3, SMTT(30), SMTT(40) DEF Local, InRound
<1>4. CASE ~Placed(t)
  BY <1>4, SMTT(30), SMTT(40) DEF At
<1>5. QED
  BY <1>3, <1>4

\* A synchronizer at the beginning of a layer.
LEMMA CountsFromZero ==
    ASSUME NEW y, y.started = {}, y.processed = 0, y.trig = "none", NEW q
    PROVE  Counted(y, {}, q)
<1>1. y.started \ {} = {} /\ 0 # NumServers
  BY ConfigAssumption, SMTT(30), SMTT(40)
<1>2. 1 .. 0 = {} /\ 0 \in Nat
  BY SMTT(30), SMTT(40)
<1>3. Numbers([i \in {} |-> i], 0, {})
  BY <1>2 DEF Numbers
<1>4. QED
  BY <1>1, <1>2, <1>3 DEF Counted, Counts

\* Then the synchronizer is reset and the messages of the round before go out.
LEMMA StepRoundStartReset ==
    ASSUME TrellisInv, NEW s \in Servers, RoundStartReset(s)
    PROVE  TrellisInv'
<1> DEFINE y == Reset(sync[s], srv[s].pathLayer)
           o == ShuffleMessages(s, "Path", srv[s].round, srv[s].layer,
                                srv[s].paths[srv[s].pathLayer - 1])
<1>1. /\ UNCHANGED <<round, phase, link, hand, mu, srv, job>> /\ rpc[s] = "reset"
      /\ Unlocked(sync[s]) /\ rpc' = [rpc EXCEPT ![s] = "send"]
      /\ sync' = [sync EXCEPT ![s] = y] /\ out' = [out EXCEPT ![s] = o]
  BY DEF RoundStartReset, coordVars
<1>2. phase = "start" /\ Running /\ Local(s)
  BY <1>1, RoundRuns
<1>3. IsPath(round) /\ ~Placed(s) /\ Resting(s) /\ At(s) = -1
  BY <1>1, <1>2 DEF Local, Placed, At
<1>4. /\ srv[s].layer = round /\ srv[s].pathLayer = round /\ srv[s].complete = FALSE
      /\ srv[s].receiptLayer = ReceiptLayer(round) /\ round \in Layers
      /\ srv[s].routers[round] # Nil
  <2>1. srv[s].complete \in BOOLEAN
    BY Before DEF Shape
  <2>2. QED
    BY <1>1, <1>3, <2>1 DEF Resting
<1>5. round \in Int /\ Place(round, round) = 0 /\ Top(round) \in Nat
  <2>1. round \in Int
    BY Before, ViewTypes DEF TrellisInv
  <2>2. Place(round, round) = 0
    BY <1>3, <2>1, SMTT(30), SMTT(40) DEF Place
  <2>3. Top(round) \in Nat
    BY <1>2, RoundLayers DEF TrellisInv, Types, ControlTypes, Running
  <2>4. QED
    BY <2>1, <2>2, <2>3
<1>6. y \in Syncs /\ y.layer = round /\ y.started = {} /\ y.processed = 0 /\ y.trig = "none"
  <2>1. sync[s] \in Syncs /\ sync[s].trig = "none"
    BY <1>1, <1>3, Before DEF Resting, Unlocked
  <2>2. srv[s].pathLayer \in Int
    BY <1>4, <1>5
  <2>3. /\ y \in Syncs /\ y.layer = srv[s].pathLayer /\ y.started = {} /\ y.processed = 0
        /\ y.trig = sync[s].trig
    BY <2>1, <2>2, ResetSync, SMTT(30), SMTT(40)
  <2> HIDE DEF y
  <2>4. QED
    BY <1>4, <2>1, <2>3
<1>7. Batches(o) /\ Layer(round, o, 0)
  BY <1>4, <1>5, Shuffled
<1> HIDE DEF y, o
<1>8. /\ Types' /\ Holds' /\ \A t \in Servers \ {s} : SameView(t) /\ out'[t] = out[t]
      /\ Working(s)' = Working(s) /\ rpc'[s] = "send" /\ mu'[s] = "start" /\ sync'[s] = y
      /\ srv'[s] = srv[s] /\ out'[s] = o
  <2>1. mu[s] = "start" /\ Shape(srv[s])
    BY <1>1, Before
  <2>2. Moves(s, "send", "start", y, srv[s], job[s], o)
    BY <1>1, <2>1, Before, OnlyThat DEF Moves
  <2>3. "send" \in Calls /\ "start" \in Holders
    BY DEF Calls, Holders
  <2>4. Fits("send", "start", y, srv[s], job[s], o)
    BY <1>1, <1>6, <1>7, <2>1, <2>3 DEF Fits
  <2>5. QED
    BY <2>2, <2>4, OneServer, SMTT(30), SMTT(40)
<1>9. Placed(s)' /\ At(s)' = 0 /\ At(s)' \in Int /\ Emitted(s)' = 1 /\ Emitted(s) = 0
  <2>1. Placed(s)'
    BY <1>8 DEF Placed
  <2>2. At(s)' = 0
    BY <1>1, <1>4, <1>5, <1>8, <2>1 DEF At, Pos
  <2>3. ~Asking(s) /\ ~Asking(s)'
    BY <1>3, <1>8 DEF Asking, Resting
  <2>4. Emitted(s)' = 1 /\ Emitted(s) = 0
    BY <1>1, <1>3, <1>5, <2>2, <2>3, SMTT(30), SMTT(40) DEF Emitted
  <2>5. QED
    BY <2>1, <2>2, <2>4, SMTT(30), SMTT(40)
<1>10. InRound(s)'
  <2>1. Counting(s)'
    <3>1. Working(s)' = {}
      BY <1>3, <1>8 DEF Resting
    <3>2. QED
      BY <1>6, <1>8, <3>1, CountsFromZero DEF Counting
  <2>2. 0 <= Top(round) + 1 /\ 0 >= 0
    BY <1>5, SMTT(30), SMTT(40)
  <2>3. QED
    BY <1>1, <1>3, <1>4, <1>6, <1>8, <1>9, <2>1, <2>2 DEF InRound
<1>11. Local(s)'
  BY <1>1, <1>2, <1>3, <1>8, <1>9, <1>10 DEF Local
<1>12. \A t \in Servers : Taken(s, t)' = Taken(s, t)
  <2>1. Pos(sync[s].layer)' = 0 /\ ~(0 < 0)
    <3>1. sync'[s].layer = round
      BY <1>6, <1>8
    <3>2. QED
      BY <1>1, <1>5, <3>1, SMTT(30), SMTT(40) DEF Pos
  <2>2. QED
    BY <1>3, <1>6, <1>8, <1>9, <2>1 DEF Taken
<1>13. At(s)' >= At(s) /\ \A t \in Servers \ {s} : At(s)' <= At(t) + 1
  <2>1. \A t \in Servers : At(t) >= -1 /\ At(t) \in Int
    BY <1>2, NotBefore, ViewTypes DEF TrellisInv
  <2>2. QED
    BY <1>3, <1>9, <2>1, SMTT(30), SMTT(40)
<1>14. Layer(round, out'[s], Emitted(s)) /\ Emitted(s)' = Emitted(s) + 1
  <2>1. 1 = 0 + 1
    BY SMTT(30), SMTT(40)
  <2>2. QED
    BY <1>7, <1>8, <1>9, <2>1
<1>15. QED
  BY <1>1, <1>2, <1>8, <1>9, <1>11, <1>12, <1>13, <1>14, StepOut

\* Steps of a server that stays in its layer and takes no batch.
LEMMA StepWithinLayer ==
    ASSUME TrellisInv, NEW s \in Servers, phase = "start", Placed(s), out' = out,
           NEW a, NEW m, NEW y, NEW q, NEW j, Moves(s, a, m, y, q, j, out[s]),
           Fits(a, m, y, q, j, out[s]), Stays(s, a, m, y, q, j)
    PROVE  TrellisInv'
<1>1. Local(s)
  BY DEF TrellisInv, Running
<1>2. UNCHANGED <<round, phase, link>>
  BY DEF Moves
<1>3. /\ Types' /\ Holds' /\ \A t \in Servers \ {s} : SameView(t)
      /\ Working(s)' = Working(s) /\ rpc'[s] = a /\ mu'[s] = m /\ sync'[s] = y /\ srv'[s] = q
      /\ job'[s] = j
  BY OneServer, SMTT(30), SMTT(40)
<1>4. rpc[s] \notin {"setup", "setupGroups"} /\ (rpc[s] \in {"reset", "send"} => IsPath(round))
  BY <1>1 DEF Local
<1>5. Placed(s)' /\ a \notin {"setup", "setupGroups"} /\ (a \in {"reset", "send"} => IsPath(round))
  BY <1>2, <1>3, <1>4 DEF Placed, Stays
<1>6. Counting(s)'
  BY <1>2, <1>3 DEF Counting, Pos, Stays
<1>7. /\ Local(s)' /\ At(s)' = At(s) /\ Emitted(s)' = Emitted(s)
      /\ \A t \in Servers : Taken(s, t)' = Taken(s, t)
  BY <1>1, <1>2, <1>3, <1>5, <1>6, WithinLayer DEF Stays
<1>8. QED
  BY <1>2, <1>3, <1>7, StepLocal

\* The path messages are sent: Server.mu is free again.
LEMMA StepRoundStartSent ==
    ASSUME TrellisInv, NEW s \in Servers, RoundStartSent(s)
    PROVE  TrellisInv'
<1> DEFINE q == [srv[s] EXCEPT !.paths[srv[s].pathLayer - 1] = Nil]
<1>1. /\ UNCHANGED <<round, phase, link, hand, out, sync, job>> /\ rpc[s] = "send"
      /\ rpc' = [rpc EXCEPT ![s] = "wait"] /\ mu' = [mu EXCEPT ![s] = "free"]
      /\ srv' = [srv EXCEPT ![s] = q]
  BY DEF RoundStartSent, coordVars, linkVars
<1>2. phase = "start" /\ Local(s) /\ Placed(s) /\ mu[s] = "start" /\ Shape(srv[s])
  BY <1>1, RoundRuns, Before DEF Placed
<1>3. Keeps(srv[s], q)
  <2>1. /\ DOMAIN q = Fields /\ q.layer = srv[s].layer /\ q.path = srv[s].path
        /\ q.pathLayer = srv[s].pathLayer /\ q.receiptLayer = srv[s].receiptLayer
        /\ q.complete = srv[s].complete /\ q.routers = srv[s].routers /\ q.tokens = srv[s].tokens
    BY <1>2 DEF Shape, Fields
  <2>2. QED
    BY <1>2, <2>1, OtherFields
<1> HIDE DEF q
<1>4. Moves(s, "wait", "free", sync[s], q, job[s], out[s])
  BY <1>1, Before, OnlyThat DEF Moves
<1>5. "wait" \in Calls /\ "free" \in Holders /\ sync[s] \in Syncs
  BY Before DEF Calls, Holders
<1>6. Counted(sync[s], Working(s), Pos(sync[s].layer))
  BY <1>2 DEF Local, InRound, Counting
<1>7. Fits("wait", "free", sync[s], q, job[s], out[s])
  BY <1>1, <1>2, <1>3, <1>5, <1>6, Before DEF Fits, Keeps
<1>8. Stays(s, "wait", "free", sync[s], q, job[s])
  BY <1>1, <1>2, <1>3, <1>5, <1>6 DEF Stays
<1>9. QED
  BY <1>1, <1>2, <1>3, <1>4, <1>7, <1>8, StepWithinLayer, SMTT(30), SMTT(40)

\* RoundStart of a broadcast round: Trigger runs in the call.
LEMMA StepRoundStartLightning ==
    ASSUME TrellisInv, NEW s \in Servers, RoundStartLightning(s)
    PROVE  TrellisInv'
<1> DEFINE q == [srv[s] EXCEPT !.started = TRUE]
           y == Spawn(sync[s])
<1>1. /\ UNCHANGED <<round, phase, link, hand, out, mu, job>> /\ rpc[s] = "start" /\ ~srv[s].path
      /\ rpc' = [rpc EXCEPT ![s] = "trigger"] /\ sync' = [sync EXCEPT ![s] = y]
      /\ srv' = [srv EXCEPT ![s] = q]
  BY DEF RoundStartLightning, coordVars, linkVars
<1>2. phase = "start" /\ Local(s) /\ Shape(srv[s]) /\ sync[s] \in Syncs
  BY <1>1, RoundRuns, Before
<1>3. ~IsPath(round) /\ Placed(s) /\ InRound(s)
  BY <1>1, <1>2 DEF Local, Placed
<1>4. Keeps(srv[s], q)
  <2>1. /\ DOMAIN q = Fields /\ q.layer = srv[s].layer /\ q.path = srv[s].path
        /\ q.pathLayer = srv[s].pathLayer /\ q.receiptLayer = srv[s].receiptLayer
        /\ q.complete = srv[s].complete /\ q.routers = srv[s].routers /\ q.tokens = srv[s].tokens
    BY <1>2 DEF Shape, Fields
  <2>2. QED
    BY <1>2, <2>1, OtherFields
<1>5. /\ y \in Syncs /\ y.layer = sync[s].layer /\ y.next = sync[s].next /\ y.trig = "spawned"
      /\ y.started = sync[s].started /\ y.processed = sync[s].processed
  <2>1. sync[s].layer \in Int
    BY <1>2, SMTT(30), SMTT(40) DEF Syncs
  <2>2. QED
    BY <1>2, <2>1, TriggerSteps, SMTT(30), SMTT(40)
<1>6. sync[s].trig = "none" /\ Pos(sync[s].layer) < 0
  <2>1. sync[s].trig = "none" /\ Pos(sync[s].layer) = -1
    BY <1>1, <1>3 DEF InRound, At
  <2>2. QED
    BY <2>1, SMTT(30), SMTT(40)
<1>7. Counted(y, Working(s), Pos(sync[s].layer))
  <2>1. Counted(sync[s], Working(s), Pos(sync[s].layer))
    BY <1>3 DEF InRound, Counting
  <2>2. QED
    BY <1>5, <1>6, <2>1 DEF Counted
<1> HIDE DEF q, y
<1>8. Moves(s, "trigger", mu[s], y, q, job[s], out[s])
  BY <1>1, Before, OnlyThat DEF Moves
<1>9. /\ "trigger" \in Calls /\ mu[s] \in Holders /\ mu[s] # "start" /\ mu[s] # "setup"
      /\ (mu[s] = "next" => job[s] = [kind |-> job[s].kind, layer |-> job[s].layer])
  BY <1>1, Before DEF Calls
<1>10. Fits("trigger", mu[s], y, q, job[s], out[s])
  BY <1>1, <1>2, <1>3, <1>4, <1>5, <1>6, <1>7, <1>9, Before DEF Fits, Keeps
<1>11. Stays(s, "trigger", mu[s], y, q, job[s])
  BY <1>1, <1>2, <1>3, <1>4, <1>5, <1>6, <1>7, <1>9 DEF Stays
<1>12. QED
  BY <1>1, <1>2, <1>3, <1>8, <1>10, <1>11, StepWithinLayer, SMTT(30), SMTT(40)

\* RoundStart returns, in a broadcast round after GetMessages.
LEMMA StepRoundComplete ==
    ASSUME TrellisInv, NEW s \in Servers, RoundComplete(s) \/ RoundStartReturn(s)
    PROVE  TrellisInv'
<1>1. PICK a \in {"done", "groups"} :
        /\ UNCHANGED <<round, phase, link, hand, out, mu, job, srv, sync>>
        /\ rpc' = [rpc EXCEPT ![s] = a] /\ rpc[s] \in {"wait", "groups"}
        /\ rpc[s] = "wait" => srv[s].complete
  BY DEF RoundComplete, RoundStartReturn, coordVars, linkVars
<1>2. phase = "start" /\ Local(s) /\ Placed(s) /\ Shape(srv[s]) /\ sync[s] \in Syncs
  BY <1>1, RoundRuns, Before DEF Placed
<1>3. InRound(s) /\ srv[s].complete
  BY <1>1, <1>2 DEF Local, InRound
<1>4. Moves(s, a, mu[s], sync[s], srv[s], job[s], out[s])
  BY <1>1, Before, OnlyThat DEF Moves
<1>5. /\ a \in Calls /\ mu[s] \in Holders /\ mu[s] # "start" /\ mu[s] # "setup"
      /\ (mu[s] = "next" => job[s] = [kind |-> job[s].kind, layer |-> job[s].layer])
  BY <1>1, Before DEF Calls
<1>6. Counted(sync[s], Working(s), Pos(sync[s].layer)) /\ Keeps(srv[s], srv[s])
  BY <1>2, <1>3, KeepsSame DEF InRound, Counting
<1>7. Fits(a, mu[s], sync[s], srv[s], job[s], out[s])
  BY <1>1, <1>2, <1>3, <1>5, <1>6, Before DEF Fits, Keeps
<1>8. Stays(s, a, mu[s], sync[s], srv[s], job[s])
  BY <1>1, <1>2, <1>3, <1>5, <1>6 DEF Stays
<1>9. QED
  BY <1>1, <1>2, <1>3, <1>4, <1>7, <1>8, StepWithinLayer, SMTT(30), SMTT(40)

\* The spawned trigger gets the lock of its server.
LEMMA StepTriggerLock ==
    ASSUME TrellisInv, NEW s \in Servers, TriggerLock(s)
    PROVE  TrellisInv'
<1> DEFINE y == Lock(sync[s])
<1>1. /\ UNCHANGED <<round, phase, link, hand, out, mu, job, srv, rpc>>
      /\ sync[s].trig = "spawned" /\ sync' = [sync EXCEPT ![s] = y]
  BY DEF TriggerLock, coordVars, linkVars
<1>2. phase = "start" /\ Local(s) /\ Shape(srv[s]) /\ sync[s] \in Syncs
  BY <1>1, RoundRuns, Before
<1>3. Placed(s) /\ InRound(s)
  BY <1>1, <1>2 DEF Local, Resting
<1>4. /\ y \in Syncs /\ y.layer = sync[s].layer /\ y.next = sync[s].next /\ y.trig = "locked"
      /\ y.started = sync[s].started /\ y.processed = sync[s].processed
  <2>1. sync[s].layer \in Int
    BY <1>2, SMTT(30), SMTT(40) DEF Syncs
  <2>2. QED
    BY <1>2, <2>1, TriggerSteps, SMTT(30), SMTT(40)
<1>5. Counted(y, Working(s), Pos(sync[s].layer))
  <2>1. Counted(sync[s], Working(s), Pos(sync[s].layer))
    BY <1>3 DEF InRound, Counting
  <2>2. QED
    BY <1>1, <1>4, <2>1 DEF Counted
<1> HIDE DEF y
<1>6. Moves(s, rpc[s], mu[s], y, srv[s], job[s], out[s])
  BY <1>1, Before, OnlyThat DEF Moves
<1>7. /\ rpc[s] \in Calls /\ mu[s] \in Holders
      /\ (mu[s] = "next" => job[s] = [kind |-> job[s].kind, layer |-> job[s].layer])
      /\ (mu[s] = "start" <=> rpc[s] \in {"reset", "send"})
      /\ (mu[s] = "setup" <=> rpc[s] = "setupGroups")
  BY Before
<1>8. /\ (rpc[s] \in {"groups", "done"} => srv[s].complete) /\ rpc[s] # "start"
      /\ (rpc[s] = "send" => IsPath(round)) /\ Keeps(srv[s], srv[s])
  BY <1>1, <1>2, <1>3, KeepsSame DEF Local, InRound
<1>9. Fits(rpc[s], mu[s], y, srv[s], job[s], out[s])
  BY <1>1, <1>2, <1>3, <1>4, <1>5, <1>7, <1>8, Before DEF Fits, Keeps
<1>10. Stays(s, rpc[s], mu[s], y, srv[s], job[s])
  BY <1>1, <1>2, <1>3, <1>4, <1>5, <1>7, <1>8 DEF Stays
<1>11. QED
  BY <1>1, <1>2, <1>3, <1>6, <1>9, <1>10, StepWithinLayer, SMTT(30), SMTT(40)

\* Trigger has returned from OnThreshold: the synchronizer is in the next layer.
LEMMA StepTriggerCommit ==
    ASSUME TrellisInv, NEW s \in Servers, TriggerCommit(s)
    PROVE  TrellisInv'
<1> DEFINE y == NewSynchronizer(sync[s].next)
           a == IF rpc[s] = "trigger" THEN "wait" ELSE rpc[s]
<1>1. /\ UNCHANGED <<round, phase, link, hand, out, mu, job, srv>> /\ sync[s].trig = "called"
      /\ sync' = [sync EXCEPT ![s] = y] /\ rpc' = [rpc EXCEPT ![s] = a]
  BY DEF TriggerCommit, Commit, coordVars, linkVars
<1>2. Shape(srv[s]) /\ sync[s] \in Syncs /\ sync[s].next \in Int /\ sync[s].layer \in Int
  <2>1. Shape(srv[s]) /\ sync[s] \in Syncs
    BY Before
  <2>2. QED
    BY <2>1, SMTT(30), SMTT(40) DEF Syncs
<1>3. /\ y \in Syncs /\ y.layer = sync[s].next /\ y.started = {} /\ y.processed = 0
      /\ y.trig = "none"
  BY <1>2, NewSync
<1>4. a \in Calls /\ (a \in {"reset", "send"} <=> rpc[s] \in {"reset", "send"})
      /\ (a = "setupGroups" <=> rpc[s] = "setupGroups") /\ a # "trigger"
      /\ (rpc[s] # "trigger" => a = rpc[s]) /\ (rpc[s] = "trigger" => a = "wait")
  BY Before DEF Calls
<1> HIDE DEF y, a
<1>5. /\ Types' /\ Holds' /\ \A t \in Servers \ {s} : SameView(t)
      /\ Working(s)' = Working(s) /\ rpc'[s] = a /\ mu'[s] = mu[s] /\ sync'[s] = y
      /\ srv'[s] = srv[s] /\ job'[s] = job[s]
  <2>1. Moves(s, a, mu[s], y, srv[s], job[s], out[s])
    BY <1>1, Before, OnlyThat DEF Moves
  <2>2. /\ mu[s] \in Holders /\ Batches(out[s])
        /\ (mu[s] = "next" => job[s] = [kind |-> job[s].kind, layer |-> job[s].layer])
        /\ (mu[s] = "start" <=> a \in {"reset", "send"}) /\ (mu[s] = "setup" <=> a = "setupGroups")
    BY <1>4, Before
  <2>3. Fits(a, mu[s], y, srv[s], job[s], out[s])
    BY <1>1, <1>2, <1>3, <1>4, <2>2 DEF Fits
  <2>4. QED
    BY <2>1, <2>3, OneServer, SMTT(30), SMTT(40)
<1>6. CASE phase # "start"
  <2>1. Still(s)
    BY <1>6 DEF TrellisInv, Quiet
  <2>2. rpc[s] # "trigger" /\ ~Fresh(s)
    <3>1. NewSynchronizer(0).trig = "none"
      BY DEF NewSynchronizer
    <3>2. QED
      BY <1>1, <1>6, <2>1, <3>1 DEF Still, Fresh
  <2>3. Still(s)'
    BY <1>1, <1>3, <1>4, <1>5, <1>6, <2>1, <2>2 DEF Still
  <2>4. QED
    BY <1>1, <1>5, <1>6, <2>3, StepStill
<1>7. CASE phase = "start" /\ ~Placed(s)
  <2>1. Local(s) /\ Resting(s) /\ IsPath(round) /\ rpc[s] \in {"start", "reset"}
    BY <1>7 DEF TrellisInv, Running, Local, Placed
  <2>2. ~Placed(s)' /\ At(s)' = At(s)
    BY <1>1, <1>4, <1>5, <1>7, <2>1 DEF Placed, At
  <2>3. Emitted(s)' = Emitted(s) /\ \A t \in Servers : Taken(s, t)' = Taken(s, t)
    BY <1>5, <1>7, <2>2, <1>1 DEF Emitted, Asking, Taken
  <2>4. Resting(s)'
    BY <1>1, <1>3, <1>4, <1>5, <2>1 DEF Resting
  <2>5. Local(s)'
    BY <1>1, <1>4, <1>5, <2>1, <2>2, <2>4 DEF Local
  <2>6. QED
    BY <1>1, <1>5, <1>7, <2>2, <2>3, <2>5, StepLocal
<1>8. CASE phase = "start" /\ Placed(s)
  <2>1. Local(s) /\ InRound(s)
    BY <1>8 DEF TrellisInv, Running, Local
  <2>2. Placed(s)' /\ At(s)' = At(s) /\ Emitted(s)' = Emitted(s)
    <3>1. Placed(s)'
      BY <1>1, <1>4, <1>5, <1>8 DEF Placed
    <3>2. At(s)' = At(s)
      BY <1>1, <1>5, <1>8, <3>1 DEF At, Pos
    <3>3. QED
      BY <1>1, <1>5, <3>1, <3>2 DEF Emitted, Asking
  <2>3. /\ sync[s].next = srv[s].layer /\ Pos(sync[s].layer) = At(s) - 1 /\ Working(s) = {}
        /\ Pos(srv[s].layer) = At(s) /\ (Pos(sync[s].layer) < 0 \/ sync[s].started = Servers)
    BY <1>1, <1>8, <2>1 DEF InRound, Counting, Counted, At
  <2>4. At(s) \in Int /\ Pos(sync[s].layer)' = At(s)
    <3>1. At(s) \in Int
      BY ViewTypes DEF TrellisInv
    <3>2. sync'[s].layer = srv[s].layer
      BY <1>3, <1>5, <2>3
    <3>3. Pos(sync[s].layer)' = Pos(srv[s].layer)
      BY <1>1, <3>2 DEF Pos
    <3>4. QED
      BY <2>3, <3>1, <3>3
  <2>5. \A t \in Servers : Taken(s, t)' = Taken(s, t)
    <3> DEFINE u == IF At(s) < 0 THEN 0 ELSE At(s)
               v == IF At(s) - 1 < 0 THEN 0 ELSE At(s) - 1 + 1
    <3>1. \A t \in Servers : Taken(s, t)' = u
      BY <1>3, <1>5, <2>2, <2>4 DEF Taken
    <3>2. \A t \in Servers : Taken(s, t) = v
      BY <1>8, <2>3 DEF Taken
    <3>3. u = v
      BY <2>4, SMTT(30), SMTT(40)
    <3> HIDE DEF u, v
    <3>4. QED
      BY <3>1, <3>2, <3>3
  <2>6. Counting(s)'
    BY <1>3, <1>5, <2>3, CountsFromZero DEF Counting
  <2>7. InRound(s)'
    BY <1>1, <1>3, <1>4, <1>5, <2>1, <2>2, <2>3, <2>6 DEF InRound
  <2>8. Local(s)'
    BY <1>1, <1>4, <1>5, <2>1, <2>2, <2>7 DEF Local
  <2>9. QED
    BY <1>1, <1>5, <1>8, <2>2, <2>5, <2>8, StepLocal
<1>9. QED
  BY <1>6, <1>7, <1>8

\* Server.OnThreshold moves on to the next layer, and allocates it unless it was the last.
LEMMA NextLayerMade ==
    ASSUME NEW r, Shape(r), NEW l \in Layers, r.routers[l] # Nil,
           AllocatesNext(r, l) => NextLayer(r, l) \in Layers
    PROVE  /\ Shape(OnThreshold(r, l)) /\ OnThreshold(r, l).layer = NextLayer(r, l)
           /\ OnThreshold(r, l).path = r.path /\ OnThreshold(r, l).receiptLayer = r.receiptLayer
           /\ OnThreshold(r, l).complete = r.complete
           /\ AllocatesNext(r, l) => OnThreshold(r, l).routers[NextLayer(r, l)] # Nil
<1> DEFINE n == NextLayer(r, l)
           a == IF l = r.pathLayer THEN r
                ELSE IF AllKeysAccountedFor(r, l) THEN ResetUsage(r, l)
                ELSE Fail(r, "MissingMessages")
           p == [a EXCEPT !.layer = n, !.parsers[n] = 0, !.routers[n] = NoBuffers]
           q == [a EXCEPT !.layer = n]
<1>1. OnThreshold(r, l) = IF AllocatesNext(r, l) THEN p ELSE q
  BY DEF OnThreshold
<1>2. Keeps(r, ResetUsage(r, l))
  <2> DEFINE u == ResetUsage(r, l)
  <2>1. /\ DOMAIN u = Fields /\ u.layer = r.layer /\ u.path = r.path /\ u.pathLayer = r.pathLayer
        /\ u.receiptLayer = r.receiptLayer /\ u.complete = r.complete
        /\ u.routers = r.routers /\ u.tokens = r.tokens
    BY DEF Shape, Fields, ResetUsage
  <2>2. QED
    BY <2>1, OtherFields
<1>3. Keeps(r, a)
  BY <1>2, KeepsSame, FailKeeps
<1>4. n \in Int
  <2>1. l \in Int
    BY SMTT(30), SMTT(40) DEF Layers
  <2>2. QED
    BY <2>1, SMTT(30), SMTT(40) DEF NextLayer
<1> HIDE DEF a, n
<1>5. Shape(a) /\ a.path = r.path /\ a.receiptLayer = r.receiptLayer /\ a.complete = r.complete
  BY <1>3 DEF Keeps
<1>6. /\ Shape(q) /\ q.layer = n /\ q.path = a.path /\ q.receiptLayer = a.receiptLayer
      /\ q.complete = a.complete
  <2>1. /\ DOMAIN q = Fields /\ q.layer = n /\ q.path = a.path /\ q.pathLayer = a.pathLayer
        /\ q.receiptLayer = a.receiptLayer /\ q.complete = a.complete
        /\ q.routers = a.routers /\ q.tokens = a.tokens
    BY <1>5 DEF Shape, Fields
  <2> HIDE DEF q
  <2>2. QED
    BY <1>4, <1>5, <2>1 DEF Shape
<1>7. ASSUME n \in Layers
      PROVE  /\ Shape(p) /\ p.layer = n /\ p.path = a.path /\ p.receiptLayer = a.receiptLayer
             /\ p.complete = a.complete /\ p.routers[n] # Nil
  <2>1. /\ DOMAIN p = Fields /\ p.layer = n /\ p.path = a.path /\ p.pathLayer = a.pathLayer
        /\ p.receiptLayer = a.receiptLayer /\ p.complete = a.complete
        /\ p.routers = [a.routers EXCEPT ![n] = NoBuffers] /\ p.tokens = a.tokens
    BY <1>5 DEF Shape, Fields
  <2> HIDE DEF p
  <2>2. p.routers[n] # Nil /\ p.routers \in [Layers -> [Servers -> SUBSET Clients] \cup {Nil}]
    BY <1>5, <1>7, <2>1, Buffers DEF Shape
  <2>3. QED
    BY <1>4, <1>5, <2>1, <2>2 DEF Shape
<1> HIDE DEF p, q
<1>8. QED
  BY <1>1, <1>5, <1>6, <1>7 DEF n

\* The places of a layer and of the next one, and what the layer ends with.
LEMMA NextPlace ==
    ASSUME round \in 0 .. LastRound, round > 0, NEW r, Shape(r), r.path <=> IsPath(round),
           r.receiptLayer = IF IsPath(round) THEN ReceiptLayer(round) ELSE -1,
           NEW l \in Layers, Pos(l) <= Top(round),
           NEW q, q.path = r.path, q.receiptLayer = r.receiptLayer
    PROVE  /\ NextLayer(r, l) \in Int /\ Pos(NextLayer(r, l)) = Pos(l) + 1 /\ NextLayer(r, l) # l
           /\ AllocatesNext(r, l) <=> Pos(l) < Top(round)
           /\ AllocatesNext(r, l) => NextLayer(r, l) \in Layers
           /\ JobKind(q, l) \in {"receipt", "trustees"} => Pos(l) = Top(round)
           /\ JobKind(q, l) \in {"shuffle", "tokens"} => Pos(l) < Top(round)
           /\ JobKind(q, l) \in {"receipt", "shuffle", "tokens", "trustees"}
<1> DEFINE n == NextLayer(r, l)
           k == JobKind(q, l)
<1>1. l \in Int /\ 0 <= l /\ l <= NumLayers - 1 /\ l <= LastLayer
  BY ConfigAssumption, SMTT(30), SMTT(40) DEF Layers, LastLayer
<1>2. /\ NumLayers \in Nat /\ LastLayer = NumLayers - 1 /\ round \in Nat
      /\ IsPath(round) => ReceiptLayer(round) \in Nat /\ Top(round) = round - ReceiptLayer(round)
      /\ ~IsPath(round) => Top(round) = NumLayers - 2
  BY RoundLayers
<1>3. CASE IsPath(round)
  <2>1. /\ n = l - 1 /\ Pos(l) = round - l /\ Pos(n) = round - n
        /\ (AllocatesNext(r, l) <=> l # ReceiptLayer(round))
        /\ k = IF l = ReceiptLayer(round) THEN "receipt"
               ELSE IF l # LastLayer THEN "shuffle" ELSE "tokens"
    BY <1>3 DEF NextLayer, AllocatesNext, JobKind, Pos, Place
  <2> HIDE DEF n, k
  <2>2. /\ n \in Int /\ Pos(n) = Pos(l) + 1 /\ n # l
        /\ (l # ReceiptLayer(round) <=> Pos(l) < Top(round))
        /\ (l # ReceiptLayer(round) => n \in 0 .. NumLayers - 1)
        /\ (l = ReceiptLayer(round) <=> Pos(l) = Top(round))
    BY <1>1, <1>2, <1>3, <2>1, SMTT(30), SMTT(40)
  <2>3. QED
    BY <2>1, <2>2 DEF n, k, Layers
<1>4. CASE ~IsPath(round)
  <2>1. /\ n = l + 1 /\ Pos(l) = l - 1 /\ Pos(n) = n - 1 /\ r.receiptLayer = -1
        /\ (AllocatesNext(r, l) <=> l # LastLayer)
        /\ k = IF l = -1 THEN "receipt" ELSE IF l # LastLayer THEN "shuffle" ELSE "trustees"
    BY <1>4 DEF NextLayer, AllocatesNext, JobKind, Pos, Place
  <2> HIDE DEF n, k
  <2>2. /\ n \in Int /\ Pos(n) = Pos(l) + 1 /\ n # l /\ l # -1
        /\ (l # LastLayer <=> Pos(l) < Top(round))
        /\ (l # LastLayer => n \in 0 .. NumLayers - 1)
        /\ (l = LastLayer <=> Pos(l) = Top(round))
    BY <1>1, <1>2, <1>4, <2>1, SMTT(30), SMTT(40)
  <2>3. QED
    BY <2>1, <2>2 DEF n, k, Layers
<1>5. QED
  BY <1>3, <1>4

\* What the goroutine of OnThreshold sends: a layer, or nothing of a layer.
LEMMA Sends ==
    ASSUME NEW s \in Servers, NEW q, NEW l, NEW n \in Int, NEW r,
           JobKind(q, l) \in {"receipt", "shuffle", "tokens", "trustees"}
    PROVE  /\ Batches(Outgoing(s, q, l, n))
           /\ IF JobKind(q, l) = "shuffle" THEN Layer(r, Outgoing(s, q, l, n), Place(r, n))
              ELSE NoLayers(Outgoing(s, q, l, n))
<1>1. CASE JobKind(q, l) = "receipt"
  <2>1. Outgoing(s, q, l, n) = <<>>
    BY <1>1, SMTT(30), SMTT(40) DEF Outgoing
  <2>2. IsSeq(<<>>)
    <3>1. <<>> \in Seq({})
      BY SMTT(30), SMTT(40)
    <3>2. QED
      BY <3>1, SeqOfElements
  <2>3. \A i \in 1 .. Len(<<>>) : FALSE
    BY SMTT(30), SMTT(40)
  <2>4. QED
    BY <1>1, <2>1, <2>2, <2>3, SMTT(30), SMTT(40) DEF Batches, NoLayers
<1>2. CASE JobKind(q, l) = "shuffle"
  <2>1. Outgoing(s, q, l, n) =
          ShuffleMessages(s, IF q.path THEN "Reverse" ELSE "Forward", q.round, n, q.routers[l])
    BY <1>2, SMTT(30), SMTT(40) DEF Outgoing
  <2>2. (IF q.path THEN "Reverse" ELSE "Forward") \in {"Path", "Reverse", "Forward"}
    OBVIOUS
  <2>3. QED
    BY <1>2, <2>1, <2>2, Shuffled
<1>3. CASE JobKind(q, l) = "tokens"
  <2>1. Outgoing(s, q, l, n) = GroupShuffleMessages(s, "Token", q.round, n, q.tokens)
    BY <1>3, SMTT(30), SMTT(40) DEF Outgoing
  <2>2. QED
    BY <1>3, <2>1, GroupShuffled, SMTT(30), SMTT(40)
<1>4. CASE JobKind(q, l) = "trustees"
  <2>1. Outgoing(s, q, l, n) = GroupShuffleMessages(s, "Signature", q.round, n, q.final)
    BY <1>4, SMTT(30), SMTT(40) DEF Outgoing
  <2>2. QED
    BY <1>4, <2>1, GroupShuffled, SMTT(30), SMTT(40)
<1>5. QED
  BY <1>1, <1>2, <1>3, <1>4

\* A server whose Trigger has the locks is in a layer of the round, all of whose batches
\* it has taken, and no other server is behind it.
LEMMA WholeLayer ==
    ASSUME TrellisInv, NEW s \in Servers, sync[s].trig = "locked", MuFree(s)
    PROVE  /\ phase = "start" /\ Running /\ Local(s) /\ Placed(s) /\ InRound(s)
           /\ sync[s].layer = srv[s].layer /\ At(s) = Pos(srv[s].layer) /\ At(s) \in Int
           /\ At(s) <= Top(round) /\ Emitted(s) = At(s) + 1 /\ ~srv[s].complete
           /\ At(s) >= -1 /\ \A t \in Servers : At(s) <= At(t)
<1>1. phase = "start" /\ Running /\ Local(s)
  BY RoundRuns
<1>2. Placed(s) /\ InRound(s)
  BY <1>1 DEF Local, Resting
<1>3. sync[s].layer = srv[s].layer /\ At(s) = Pos(srv[s].layer) /\ At(s) = Pos(sync[s].layer)
  BY <1>2 DEF InRound, At
<1>4. At(s) \in Int /\ At(s) >= -1
  BY <1>1, ViewTypes, NotBefore DEF TrellisInv
<1>5. Top(round) \in Nat
  BY <1>1, RoundLayers DEF TrellisInv, Types, ControlTypes, Running
<1>6. At(s) >= 0 => \A t \in Servers : Taken(s, t) = At(s) + 1
  <2>1. ~(Pos(sync[s].layer) < 0) => sync[s].started = Servers
    BY <1>2 DEF InRound, Counting, Counted
  <2>2. At(s) >= 0 => ~(Pos(sync[s].layer) < 0)
    BY <1>3, <1>4, SMTT(30), SMTT(40)
  <2>3. QED
    BY <1>2, <1>3, <2>1, <2>2 DEF Taken
<1>7. ASSUME NEW t \in Servers
      PROVE  Taken(s, t) <= Emitted(t) /\ Emitted(t) <= At(t) + 1 /\ At(t) \in Int /\ Emitted(t) \in Int
             /\ At(t) >= -1
  BY <1>1, ViewTypes, NotBefore DEF TrellisInv, Running, Queue, Line
<1>8. ~Asking(s)
  BY DEF MuFree, Asking
<1>9. At(s) <= Top(round)
  <2>1. ASSUME At(s) > Top(round) PROVE FALSE
    <3>1. Emitted(s) = At(s)
      BY <2>1 DEF Emitted
    <3>2. At(s) >= 0
      BY <1>4, <1>5, <2>1, SMTT(30), SMTT(40)
    <3>3. At(s) + 1 <= At(s)
      BY <1>6, <1>7, <3>1, <3>2
    <3>4. QED
      BY <1>4, <3>3, SMTT(30), SMTT(40)
  <2>2. QED
    BY <1>4, <1>5, <2>1, SMTT(30), SMTT(40)
<1>10. Emitted(s) = At(s) + 1
  <2>1. ~(At(s) > Top(round))
    BY <1>4, <1>5, <1>9, SMTT(30), SMTT(40)
  <2>2. QED
    BY <1>8, <2>1 DEF Emitted
<1>11. ~srv[s].complete
  <2>1. At(s) # Top(round) + 1
    BY <1>4, <1>5, <1>9, SMTT(30), SMTT(40)
  <2>2. QED
    BY <1>2, <2>1 DEF InRound
<1>12. \A t \in Servers : At(s) <= At(t)
  <2>1. ASSUME NEW t \in Servers PROVE At(s) <= At(t)
    <3>1. CASE At(s) >= 0
      BY <1>4, <1>6, <1>7, <3>1, SMTT(30), SMTT(40)
    <3>2. CASE ~(At(s) >= 0)
      BY <1>4, <1>7, <3>2, SMTT(30), SMTT(40)
    <3>3. QED
      BY <3>1, <3>2
  <2>2. QED
    BY <2>1
<1>13. QED
  BY <1>1, <1>2, <1>3, <1>4, <1>9, <1>10, <1>11, <1>12

\* Server.OnThreshold: the server goes on to the next layer.
LEMMA StepTriggerCall ==
    ASSUME TrellisInv, NEW s \in Servers, TriggerCall(s)
    PROVE  TrellisInv'
<1> DEFINE l == sync[s].layer
           n == NextLayer(srv[s], l)
           q == OnThreshold(srv[s], l)
           y == Called(sync[s], n)
           k == JobKind(q, l)
           j == [kind |-> k, layer |-> l]
           o == Outgoing(s, q, l, n)
<1>1. /\ UNCHANGED <<round, phase, link, hand, rpc>> /\ sync[s].trig = "locked" /\ MuFree(s)
      /\ mu' = [mu EXCEPT ![s] = "next"] /\ srv' = [srv EXCEPT ![s] = q]
      /\ sync' = [sync EXCEPT ![s] = y] /\ job' = [job EXCEPT ![s] = j]
      /\ out' = [out EXCEPT ![s] = o]
  BY DEF TriggerCall, coordVars
<1>2. /\ phase = "start" /\ Running /\ Local(s) /\ Placed(s) /\ InRound(s) /\ l = srv[s].layer
      /\ At(s) = Pos(l) /\ At(s) \in Int /\ At(s) <= Top(round) /\ Emitted(s) = At(s) + 1
      /\ ~srv[s].complete /\ At(s) >= -1 /\ \A t \in Servers : At(s) <= At(t)
  BY <1>1, WholeLayer
<1>3. /\ Shape(srv[s]) /\ sync[s] \in Syncs /\ round \in 0 .. LastRound /\ round > 0
      /\ (srv[s].path <=> IsPath(round)) /\ l \in Layers /\ srv[s].routers[l] # Nil
      /\ srv[s].receiptLayer = IF IsPath(round) THEN ReceiptLayer(round) ELSE -1
  BY <1>2, Before DEF Running, Local, InRound, TrellisInv, Types, ControlTypes
<1>4. Top(round) \in Nat
  BY <1>3, RoundLayers
<1>5. /\ n \in Int /\ Pos(n) = Pos(l) + 1 /\ n # l
      /\ (AllocatesNext(srv[s], l) <=> Pos(l) < Top(round))
      /\ (AllocatesNext(srv[s], l) => n \in Layers)
  <2>1. srv[s].path = srv[s].path /\ srv[s].receiptLayer = srv[s].receiptLayer
    BY SMTT(30), SMTT(40)
  <2>2. QED
    BY <1>2, <1>3, <2>1, NextPlace
<1>6. /\ Shape(q) /\ q.layer = n /\ q.path = srv[s].path /\ q.receiptLayer = srv[s].receiptLayer
      /\ q.complete = srv[s].complete
      /\ AllocatesNext(srv[s], l) => q.routers[n] # Nil
  BY <1>3, <1>5, NextLayerMade
<1>7. /\ k \in {"receipt", "trustees"} => Pos(l) = Top(round)
      /\ k \in {"shuffle", "tokens"} => Pos(l) < Top(round)
      /\ k \in {"receipt", "shuffle", "tokens", "trustees"}
  <2> HIDE DEF q
  <2>1. QED
    BY <1>2, <1>3, <1>6, NextPlace
<1>8. Batches(o) /\ IF k = "shuffle" THEN Layer(round, o, Pos(n)) ELSE NoLayers(o)
  <2> HIDE DEF q, n
  <2>1. QED
    <3>1. n \in Int /\ JobKind(q, l) \in {"receipt", "shuffle", "tokens", "trustees"}
      BY <1>5, <1>7
    <3>2. Batches(o) /\ IF k = "shuffle" THEN Layer(round, o, Place(round, n)) ELSE NoLayers(o)
      BY <3>1, Sends, SMTT(30), SMTT(40)
    <3>3. QED
      BY <3>2 DEF Pos
<1>9. /\ y \in Syncs /\ y.layer = l /\ y.started = sync[s].started
      /\ y.processed = sync[s].processed /\ y.trig = "called" /\ y.next = n
  <2> HIDE DEF n
  <2>1. QED
    BY <1>3, <1>5, TriggerSteps
<1>10. j.kind = k /\ j.layer = l
  BY SMTT(30), SMTT(40)
<1> HIDE DEF n, q, y, k, o, j
<1>11. /\ Types' /\ Holds' /\ \A t \in Servers \ {s} : SameView(t) /\ out'[t] = out[t]
       /\ Working(s)' = Working(s) /\ rpc'[s] = rpc[s] /\ mu'[s] = "next" /\ sync'[s] = y
       /\ srv'[s] = q /\ job'[s] = j /\ out'[s] = o
  <2>1. Moves(s, rpc[s], "next", y, q, j, o)
    BY <1>1, Before, OnlyThat DEF Moves
  <2>2. /\ rpc[s] \in Calls /\ "next" \in Holders /\ mu[s] = "free"
        /\ rpc[s] \notin {"reset", "send"} /\ rpc[s] # "setupGroups"
    BY <1>1, Before DEF Holders, MuFree
  <2>3. j = [kind |-> j.kind, layer |-> j.layer]
    BY <1>10 DEF j
  <2>4. Fits(rpc[s], "next", y, q, j, o)
    BY <1>1, <1>6, <1>8, <1>9, <2>2, <2>3 DEF Fits
  <2>5. QED
    BY <2>1, <2>4, OneServer, SMTT(30), SMTT(40)
<1>12. Placed(s)' /\ At(s)' = At(s) + 1
  BY <1>1, <1>2, <1>5, <1>6, <1>11 DEF Placed, At, Pos
<1>13. Emitted(s)' = IF k = "shuffle" THEN Emitted(s) + 1 ELSE Emitted(s)
  <2>1. Asking(s)' <=> k = "tokens"
    BY <1>10, <1>11 DEF Asking
  <2>2. At(s)' > Top(round) <=> k \in {"receipt", "trustees"}
    BY <1>2, <1>4, <1>7, <1>12, SMTT(30), SMTT(40)
  <2>3. CASE k = "shuffle"
    BY <1>1, <1>2, <1>12, <2>1, <2>2, <2>3 DEF Emitted
  <2>4. CASE k # "shuffle"
    BY <1>1, <1>2, <1>7, <1>12, <2>1, <2>2, <2>4 DEF Emitted
  <2>5. QED
    BY <2>3, <2>4
<1>14. Counting(s)'
  <2>1. Counted(sync[s], Working(s), Pos(l))
    BY <1>2 DEF InRound, Counting
  <2>2. Counted(y, Working(s), Pos(l))
    BY <1>1, <1>9, <2>1 DEF Counted
  <2>3. QED
    BY <1>1, <1>9, <1>11, <2>2 DEF Counting, Pos
<1>15. InRound(s)'
  <2>1. /\ At(s)' <= Top(round) + 1 /\ At(s)' >= (IF IsPath(round) THEN 0 ELSE -1)
        /\ Pos(l) = At(s)' - 1 /\ (At(s)' <= Top(round) => Pos(l) < Top(round))
        /\ (k \in {"receipt", "trustees"} => At(s)' = Top(round) + 1)
        /\ (k = "tokens" => At(s)' <= Top(round))
    BY <1>2, <1>4, <1>7, <1>12, SMTT(30), SMTT(40)
  <2>2. At(s)' <= Top(round) => q.layer \in Layers /\ q.routers[q.layer] # Nil
    BY <1>5, <1>6, <2>1
  <2>3. rpc[s] \notin {"groups", "done"} /\ rpc[s] # "start"
    BY <1>1, <1>2 DEF InRound
  <2>4. Pos(sync[s].layer)' = Pos(l)
    <3>1. sync'[s].layer = l
      BY <1>9, <1>11
    <3>2. QED
      BY <1>1, <3>1 DEF Pos
  <2>5. sync'[s].trig = "called" /\ sync'[s].next = srv'[s].layer
    BY <1>6, <1>9, <1>11
  <2>6. /\ srv'[s].receiptLayer = IF IsPath(round) THEN ReceiptLayer(round) ELSE -1
        /\ ~srv'[s].complete
    BY <1>2, <1>3, <1>6, <1>11
  <2>7. At(s)' <= Top(round) => srv'[s].layer \in Layers /\ srv'[s].routers[srv'[s].layer] # Nil
    BY <1>11, <2>2
  <2>8. job'[s].kind = k /\ job'[s].layer # srv'[s].layer
    BY <1>5, <1>6, <1>10, <1>11
  <2>9. rpc'[s] \notin {"groups", "done"} /\ rpc'[s] # "start" /\ round' = round
    BY <1>1, <2>3
  <2>10. QED
    BY <1>14, <2>1, <2>4, <2>5, <2>6, <2>7, <2>8, <2>9 DEF InRound
<1>16. Local(s)'
  BY <1>1, <1>2, <1>6, <1>11, <1>12, <1>15 DEF Local
<1>17. \A t \in Servers : Taken(s, t)' = Taken(s, t)
  BY <1>1, <1>2, <1>9, <1>11, <1>12 DEF Taken, Pos
<1>18. /\ At(s)' \in Int /\ At(s)' >= At(s) /\ \A t \in Servers \ {s} : At(s)' <= At(t) + 1
  <2>1. \A t \in Servers : At(t) \in Int
    BY ViewTypes DEF TrellisInv
  <2>2. QED
    BY <1>2, <1>12, <2>1, SMTT(30), SMTT(40)
<1>19. \/ (NoLayers(out'[s]) /\ Emitted(s)' = Emitted(s))
       \/ (Layer(round, out'[s], Emitted(s)) /\ Emitted(s)' = Emitted(s) + 1)
  <2>1. Pos(n) = Emitted(s)
    BY <1>2, <1>5
  <2>2. QED
    BY <1>8, <1>11, <1>13, <2>1
<1>20. QED
  BY <1>1, <1>2, <1>11, <1>16, <1>17, <1>18, <1>19, StepOut

\* A server that stays in its layer keeps its place.
LEMMA AtKept ==
    ASSUME NEW s \in Servers, Placed(s), Placed(s)', round' = round, srv'[s].layer = srv[s].layer
    PROVE  At(s)' = At(s) /\ At(s) = Pos(srv[s].layer)
<1>1. Pos(srv[s].layer)' = Pos(srv[s].layer)
  BY DEF Pos
<1>2. QED
  BY <1>1 DEF At

\* The anytrust groups have answered: the receipts go out.
LEMMA StepCheckpointDone ==
    ASSUME TrellisInv, NEW s \in Servers, CheckpointDone(s)
    PROVE  TrellisInv'
<1> DEFINE q == PackDecrypted(srv[s])
           j == [job[s] EXCEPT !.kind = "shuffle"]
           o == ShuffleMessages(s, "Reverse", q.round, q.layer, q.routers[LastLayer])
<1>1. /\ UNCHANGED <<round, phase, link, hand, rpc, mu, sync>> /\ mu[s] = "next"
      /\ job[s].kind = "tokens" /\ srv' = [srv EXCEPT ![s] = q]
      /\ job' = [job EXCEPT ![s] = j] /\ out' = [out EXCEPT ![s] = o]
  BY DEF CheckpointDone, coordVars
<1>2. phase = "start" /\ Running /\ Local(s)
  BY <1>1, RoundRuns
<1>3. Placed(s) /\ InRound(s)
  BY <1>1, <1>2 DEF Local, Resting
<1>4. /\ Shape(srv[s]) /\ sync[s] \in Syncs /\ rpc[s] \in Calls
      /\ job[s] = [kind |-> job[s].kind, layer |-> job[s].layer]
      /\ rpc[s] \notin {"reset", "send"} /\ rpc[s] # "setupGroups"
  BY <1>1, Before
<1>5. Keeps(srv[s], q) /\ Shape(q) /\ q.layer = srv[s].layer /\ q.layer \in Int
  <2>1. Keeps(srv[s], q)
    BY <1>4, PackDecryptedKeeps
  <2>2. Shape(q) /\ q.layer = srv[s].layer
    BY <2>1 DEF Keeps
  <2>3. QED
    BY <2>1, <2>2, SMTT(30), SMTT(40) DEF Shape
<1>6. j = [kind |-> "shuffle", layer |-> job[s].layer] /\ j.kind = "shuffle" /\ j.layer = job[s].layer
  BY <1>4, SMTT(30), SMTT(40)
<1> HIDE DEF q, j
<1>7. Batches(o) /\ Layer(round, o, Pos(srv[s].layer))
  BY <1>5, Shuffled DEF Pos
<1> HIDE DEF o
<1>8. /\ Types' /\ Holds' /\ \A t \in Servers \ {s} : SameView(t) /\ out'[t] = out[t]
      /\ Working(s)' = Working(s) /\ rpc'[s] = rpc[s] /\ mu'[s] = "next" /\ sync'[s] = sync[s]
      /\ srv'[s] = q /\ job'[s] = j /\ out'[s] = o
  <2>1. Moves(s, rpc[s], "next", sync[s], q, j, o)
    BY <1>1, Before, OnlyThat DEF Moves
  <2>2. "next" \in Holders /\ j = [kind |-> j.kind, layer |-> j.layer]
    BY <1>6 DEF Holders
  <2>3. Fits(rpc[s], "next", sync[s], q, j, o)
    BY <1>1, <1>4, <1>5, <1>7, <2>2 DEF Fits
  <2>4. QED
    BY <2>1, <2>3, OneServer, SMTT(30), SMTT(40)
<1>9. Placed(s)' /\ At(s)' = At(s) /\ At(s) = Pos(srv[s].layer)
  <2>1. Placed(s)' /\ round' = round
    BY <1>1, <1>3 DEF Placed
  <2>2. srv'[s].layer = srv[s].layer
    BY <1>5, <1>8
  <2>3. QED
    BY <1>3, <2>1, <2>2, AtKept
<1>10. At(s) \in Int /\ Top(round) \in Nat /\ At(s) <= Top(round)
  BY <1>1, <1>2, <1>3, ViewTypes, RoundLayers
  DEF TrellisInv, Types, ControlTypes, Running, InRound
<1>11. Emitted(s) = At(s) /\ Emitted(s)' = At(s) + 1
  <2>1. Asking(s) /\ ~Asking(s)'
    BY <1>1, <1>6, <1>8 DEF Asking
  <2>2. ~(At(s) > Top(round))
    BY <1>10, SMTT(30), SMTT(40)
  <2>3. QED
    BY <1>1, <1>9, <2>1, <2>2 DEF Emitted
<1>12. Counting(s)'
  BY <1>1, <1>3, <1>8 DEF InRound, Counting, Pos
<1>13. InRound(s)'
  <2>1. /\ q.receiptLayer = srv[s].receiptLayer /\ q.complete = srv[s].complete
        /\ \A l \in Layers : srv[s].routers[l] # Nil => q.routers[l] # Nil
    BY <1>5 DEF Keeps
  <2>2. /\ srv'[s].layer = srv[s].layer /\ srv'[s].receiptLayer = srv[s].receiptLayer
        /\ srv'[s].complete = srv[s].complete
        /\ \A l \in Layers : srv[s].routers[l] # Nil => srv'[s].routers[l] # Nil
    BY <1>5, <1>8, <2>1
  <2>3. job'[s].kind = "shuffle" /\ job'[s].layer = job[s].layer
    BY <1>6, <1>8
  <2>4. \A x : Pos(x)' = Pos(x)
    BY <1>1 DEF Pos
  <2>5. rpc'[s] = rpc[s] /\ mu'[s] = mu[s] /\ sync'[s] = sync[s] /\ round' = round
    BY <1>1
  <2>6. QED
    BY <1>1, <1>3, <1>9, <1>12, <2>2, <2>3, <2>4, <2>5 DEF InRound
<1>14. Local(s)'
  <2>1. q.path = srv[s].path
    BY <1>5 DEF Keeps
  <2>2. QED
    BY <1>1, <1>2, <1>8, <1>9, <1>13, <2>1 DEF Local
<1>15. \A t \in Servers : Taken(s, t)' = Taken(s, t)
  BY <1>1, <1>3, <1>8, <1>9 DEF Taken, Pos
<1>16. At(s)' \in Int /\ At(s)' >= At(s) /\ \A t \in Servers \ {s} : At(s)' <= At(t) + 1
  <2>1. At(s) >= At(s)
    BY <1>10, SMTT(30), SMTT(40)
  <2>2. QED
    BY <1>2, <1>9, <1>10, <2>1 DEF Running
<1>17. QED
  BY <1>1, <1>2, <1>7, <1>8, <1>9, <1>11, <1>14, <1>15, <1>16, StepOut

\* The goroutine of OnThreshold ends: the layer behind is freed.
LEMMA StepLayerSent ==
    ASSUME TrellisInv, NEW s \in Servers, LayerSent(s)
    PROVE  TrellisInv'
<1> DEFINE l == job[s].layer
           f == Free(srv[s], l)
           c == srv[s].complete \/ job[s].kind \in {"receipt", "trustees"}
           q == [f EXCEPT !.complete = c]
<1>1. /\ UNCHANGED <<round, phase, link, hand, rpc, out, sync>> /\ mu[s] = "next"
      /\ job[s].kind # "tokens" /\ mu' = [mu EXCEPT ![s] = "free"]
      /\ job' = [job EXCEPT ![s] = Nil]
      /\ srv' = [srv EXCEPT ![s] = q]
  BY DEF LayerSent, coordVars
<1>2. phase = "start" /\ Running /\ Local(s)
  BY <1>1, RoundRuns
<1>3. Placed(s) /\ InRound(s)
  BY <1>1, <1>2 DEF Local, Resting
<1>4. /\ Shape(srv[s]) /\ sync[s] \in Syncs /\ rpc[s] \in Calls /\ Batches(out[s])
      /\ rpc[s] \notin {"reset", "send"} /\ rpc[s] # "setupGroups"
  BY <1>1, Before
<1>5. /\ DOMAIN f = Fields /\ f.layer = srv[s].layer /\ f.path = srv[s].path
      /\ f.pathLayer = srv[s].pathLayer /\ f.receiptLayer = srv[s].receiptLayer
      /\ f.complete = srv[s].complete /\ f.tokens = srv[s].tokens
      /\ f.routers = [srv[s].routers EXCEPT ![l] = Nil]
  BY <1>4 DEF Shape, Fields, Free
<1> HIDE DEF f
<1>7. /\ DOMAIN q = Fields /\ q.layer = f.layer /\ q.path = f.path /\ q.pathLayer = f.pathLayer
      /\ q.receiptLayer = f.receiptLayer /\ q.complete = c /\ q.tokens = f.tokens
      /\ q.routers = f.routers
  BY <1>5 DEF Fields
<1> HIDE DEF q
<1>8. /\ f.routers \in [Layers -> [Servers -> SUBSET Clients] \cup {Nil}]
      /\ \A m \in Layers : m # l => f.routers[m] = srv[s].routers[m]
  BY <1>4, <1>5 DEF Shape
<1>9. Shape(q)
  <2>1. c \in BOOLEAN
    BY SMTT(30), SMTT(40)
  <2>2. QED
    BY <1>4, <1>5, <1>7, <1>8, <2>1 DEF Shape
<1>10. /\ Types' /\ Holds' /\ \A t \in Servers \ {s} : SameView(t)
       /\ Working(s)' = Working(s) /\ rpc'[s] = rpc[s] /\ mu'[s] = "free" /\ sync'[s] = sync[s]
       /\ srv'[s] = q
  <2>1. Moves(s, rpc[s], "free", sync[s], q, Nil, out[s])
    BY <1>1, Before, OnlyThat DEF Moves
  <2>2. "free" \in Holders
    BY DEF Holders
  <2>3. Fits(rpc[s], "free", sync[s], q, Nil, out[s])
    BY <1>1, <1>4, <1>9, <2>2 DEF Fits
  <2>4. QED
    BY <2>1, <2>3, OneServer, SMTT(30), SMTT(40)
<1>11. Placed(s)' /\ At(s)' = At(s)
  <2>1. Placed(s)' /\ round' = round
    BY <1>1, <1>3 DEF Placed
  <2>2. srv'[s].layer = srv[s].layer
    BY <1>5, <1>7, <1>10
  <2>3. QED
    BY <1>3, <2>1, <2>2, AtKept
<1>12. Emitted(s)' = Emitted(s)
  <2>1. ~Asking(s) /\ ~Asking(s)'
    BY <1>1, <1>10 DEF Asking
  <2>2. QED
    BY <1>1, <1>11, <2>1 DEF Emitted
<1>13. Counting(s)'
  BY <1>1, <1>3, <1>10 DEF InRound, Counting, Pos
<1>14. InRound(s)'
  <2>1. /\ srv[s].layer # l /\ (c => At(s) = Top(round) + 1)
        /\ (rpc[s] = "start" => At(s) = -1)
    BY <1>1, <1>3 DEF InRound
  <2>2. At(s) = -1 => At(s) # Top(round) + 1
    <3>1. Top(round) \in Nat
      BY <1>2, RoundLayers DEF TrellisInv, Types, ControlTypes, Running
    <3>2. QED
      BY <3>1, SMTT(30), SMTT(40)
  <2>3. srv[s].complete => c
    BY SMTT(30), SMTT(40)
  <2> HIDE DEF c
  <2>4. /\ srv'[s].layer = srv[s].layer /\ srv'[s].receiptLayer = srv[s].receiptLayer
        /\ srv'[s].complete = c /\ srv'[s].routers = f.routers
    BY <1>5, <1>7, <1>10
  <2>5. At(s) <= Top(round) => srv[s].layer \in Layers /\ f.routers[srv[s].layer] # Nil
    BY <1>3, <1>8, <2>1 DEF InRound
  <2>6. \A x : Pos(x)' = Pos(x)
    BY <1>1 DEF Pos
  <2>7. mu'[s] = "free" /\ rpc'[s] = rpc[s] /\ sync'[s] = sync[s] /\ round' = round
    BY <1>1, <1>10
  <2>8. QED
    BY <1>3, <1>11, <1>13, <2>1, <2>2, <2>3, <2>4, <2>5, <2>6, <2>7 DEF InRound
<1>15. Local(s)'
  BY <1>1, <1>2, <1>5, <1>7, <1>10, <1>11, <1>14 DEF Local
<1>16. \A t \in Servers : Taken(s, t)' = Taken(s, t)
  BY <1>1, <1>3, <1>10, <1>11 DEF Taken, Pos
<1>17. QED
  BY <1>1, <1>2, <1>10, <1>11, <1>12, <1>15, <1>16, StepLocal

\* Steps of the coordinator change no server.
LEMMA Coordinated ==
    ASSUME TrellisInv, UNCHANGED <<mu, sync, srv, job, out, link, hand>>,
           round' \in 0 .. LastRound, phase' \in {"setup", "clients", "start", "check", "end"},
           NEW a \in {"setup", "start", "done"},
           rpc' = [s \in Servers |-> a] \/ (rpc' = rpc /\ a = "done"),
           \A s \in Servers : rpc[s] = "done"
    PROVE  /\ Types' /\ Holds' /\ \A s \in Servers : rpc'[s] = a /\ Working(s)' = Working(s)
<1>1. DOMAIN rpc' = Servers /\ \A s \in Servers : rpc'[s] = a
  BY DEF TrellisInv, Types, ControlTypes
<1>2. a \in Calls /\ a \notin {"reset", "send"} /\ a # "setupGroups"
  BY DEF Calls
<1>3. ControlTypes' /\ ServerTypes' /\ LinkTypes' /\ HandTypes'
  <2>1. ControlTypes'
    BY <1>1, <1>2 DEF TrellisInv, Types, ControlTypes
  <2>2. ServerTypes'
    BY DEF TrellisInv, Types, ServerTypes
  <2>3. LinkTypes' /\ HandTypes'
    BY DEF TrellisInv, Types, LinkTypes, HandTypes
  <2>4. QED
    BY <2>1, <2>2, <2>3
<1>4. Holds'
  BY <1>1, <1>2 DEF TrellisInv, Holds
<1>5. \A s \in Servers : Working(s)' = Working(s)
  BY DEF Working
<1>6. QED
  BY <1>1, <1>3, <1>4, <1>5 DEF Types

\* The coordinator has the clients start.
LEMMA StepClientStart ==
    ASSUME TrellisInv, ClientStart
    PROVE  TrellisInv'
<1>1. /\ UNCHANGED <<round, mu, sync, srv, job, out, link, hand, rpc>> /\ phase = "setup"
      /\ phase' = "clients" /\ \A s \in Servers : rpc[s] = "done"
  BY DEF ClientStart, Returned, linkVars
<1>2. Quiet /\ round \in 0 .. LastRound
  BY <1>1 DEF TrellisInv, Types, ControlTypes
<1>3. Types' /\ Holds' /\ \A s \in Servers : rpc'[s] = "done" /\ Working(s)' = Working(s)
  BY <1>1, <1>2, Coordinated
<1>4. ASSUME NEW s \in Servers PROVE Still(s)'
  <2>1. Still(s) /\ Fresh(s)
    BY <1>1, <1>2 DEF Quiet, Still
  <2>2. Fresh(s)'
    BY <1>1, <2>1 DEF Fresh
  <2>3. QED
    BY <1>1, <1>3, <2>1, <2>2 DEF Still
<1>5. Quiet'
  BY <1>1, <1>2, <1>4 DEF Quiet
<1>6. QED
  BY <1>1, <1>3, <1>5 DEF TrellisInv

\* A round begins with servers that have sent and taken nothing of it.
LEMMA Begins ==
    ASSUME round' \in Nat \ {0}, Types', \A s, d \in Servers : NoLayers(out'[s]) /\ NoLayers(link'[s][d]),
           \A s \in Servers : Local(s)' /\ mu'[s] # "next" /\ At(s)' = -1,
           \A d, s \in Servers : Taken(d, s)' = 0, Top(round') \in Nat
    PROVE  Running'
<1>1. \A s \in Servers : Emitted(s)' = 0
  <2>1. ~(-1 > Top(round')) /\ -1 + 1 = 0
    BY SMTT(30), SMTT(40)
  <2>2. QED
    BY <2>1 DEF Emitted, Asking
<1>2. \A s, d \in Servers : Queue(s, d)'
  <2>1. 0 <= 0
    BY SMTT(30), SMTT(40)
  <2>2. QED
    BY <1>1, <2>1, LineNone DEF Queue
<1>3. -1 <= -1 + 1 /\ round' > 0
  BY SMTT(30), SMTT(40)
<1>4. QED
  BY <1>2, <1>3 DEF Running

\* SendRoundStart of a broadcast round.
LEMMA StepSendRoundStart ==
    ASSUME TrellisInv, SendRoundStart
    PROVE  TrellisInv'
<1>1. /\ UNCHANGED <<round, mu, sync, srv, job, out, link, hand>> /\ phase = "clients"
      /\ phase' = (IF round = 0 THEN "check" ELSE "start")
      /\ rpc' = (IF round = 0 THEN rpc ELSE [s \in Servers |-> "start"])
  BY DEF SendRoundStart, linkVars
<1>2. Quiet /\ round \in 0 .. LastRound
  BY <1>1 DEF TrellisInv, Types, ControlTypes
<1>3. \A s \in Servers : Still(s) /\ Fresh(s) /\ rpc[s] = "done"
  BY <1>1, <1>2 DEF Quiet, Still
<1>4. CASE round = 0
  <2>1. Types' /\ Holds' /\ \A s \in Servers : rpc'[s] = "done" /\ Working(s)' = Working(s)
    BY <1>1, <1>2, <1>3, <1>4, Coordinated
  <2>2. IsPath(round) /\ 0 <= round
    BY <1>4, ConfigAssumption, SMTT(30), SMTT(40) DEF IsPath
  <2>3. ASSUME NEW s \in Servers PROVE Still(s)'
    <3>1. srv[s].path /\ sync[s].layer = 0 /\ sync[s].trig = "none"
      BY <1>3, <2>2 DEF Fresh
    <3>2. QED
      BY <1>1, <1>3, <1>4, <2>1, <2>2, <3>1 DEF Still
  <2>4. Quiet'
    BY <1>1, <1>2, <1>4, <2>3 DEF Quiet
  <2>5. QED
    BY <1>1, <1>4, <2>1, <2>4 DEF TrellisInv
<1>5. CASE round # 0
  <2>1. Types' /\ Holds' /\ \A s \in Servers : rpc'[s] = "start" /\ Working(s)' = Working(s)
    BY <1>1, <1>2, <1>3, <1>5, Coordinated
  <2>2. ~IsPath(round) /\ round \in Nat \ {0} /\ round > 0
    <3>1. ~IsPath(round)
      BY <1>1, <1>2, <1>5 DEF Quiet
    <3>2. QED
      BY <1>2, <1>5, <3>1, SMTT(30), SMTT(40)
  <2>3. Top(round) \in Nat
    BY <1>2, <2>2, RoundLayers
  <2>4. ASSUME NEW s \in Servers
        PROVE  /\ Local(s)' /\ mu'[s] # "next" /\ At(s)' = -1
               /\ \A t \in Servers : Taken(s, t)' = 0
    <3>1. /\ ~srv[s].path /\ ~srv[s].complete /\ srv[s].layer = 0 /\ srv[s].receiptLayer = -1
          /\ srv[s].layer \in Layers /\ srv[s].routers[srv[s].layer] # Nil
          /\ sync[s] = NewSynchronizer(0) /\ Working(s) = {} /\ mu[s] # "next"
      BY <1>3, <2>2 DEF Fresh, Still
    <3>2. /\ sync[s].layer = 0 /\ sync[s].started = {} /\ sync[s].processed = 0
          /\ sync[s].trig = "none"
      BY <3>1, NewSync, SMTT(30), SMTT(40)
    <3>3. Pos(0)' = -1 /\ -1 < 0
      BY <1>1, <2>2, SMTT(30), SMTT(40) DEF Pos, Place
    <3>4. Placed(s)' /\ At(s)' = -1
      BY <1>1, <2>2, <3>1, <3>3 DEF Placed, At
    <3>5. \A t \in Servers : Taken(s, t)' = 0
      BY <1>1, <3>2, <3>3 DEF Taken
    <3>6. Counting(s)'
      BY <1>1, <2>1, <3>1, <3>2, CountsFromZero DEF Counting
    <3>7. -1 <= Top(round) + 1 /\ -1 >= -1
      BY <2>3, SMTT(30), SMTT(40)
    <3>8. InRound(s)'
      BY <1>1, <2>1, <2>2, <3>1, <3>2, <3>4, <3>6, <3>7 DEF InRound
    <3>9. Local(s)'
      BY <1>1, <2>1, <2>2, <3>1, <3>4, <3>8 DEF Local
    <3>10. QED
      BY <1>1, <3>1, <3>4, <3>5, <3>9
  <2>5. \A s, d \in Servers : NoLayers(out'[s]) /\ NoLayers(link'[s][d])
    BY <1>1, <1>2 DEF Quiet
  <2>6. Top(round') \in Nat
    BY <1>1, <2>3
  <2>7. Running'
    BY <1>1, <2>1, <2>2, <2>4, <2>5, <2>6, Begins
  <2>8. QED
    BY <1>1, <1>5, <2>1, <2>7 DEF TrellisInv
<1>6. QED
  BY <1>4, <1>5

\* The end of a round: every server has sent and taken all its layers.
LEMMA AllTaken ==
    ASSUME TrellisInv, phase = "start", \A s \in Servers : rpc[s] = "done", NEW d \in Servers
    PROVE  /\ Emitted(d) = Top(round) + 1 /\ \A s \in Servers : Taken(d, s) = Top(round) + 1
           /\ Working(d) = {} /\ sync[d].trig \in {"none", "called"} /\ mu[d] # "next"
           /\ Pos(sync[d].layer) >= 0 /\ (sync[d].trig = "called" => Pos(sync[d].next) >= 0)
           /\ (srv[d].path <=> IsPath(round)) /\ Top(round) \in Nat
<1>1. Running /\ Types
  BY DEF TrellisInv
<1>2. Top(round) \in Nat
  BY <1>1, RoundLayers DEF Types, ControlTypes, Running
<1>3. \A s \in Servers : Placed(s) /\ InRound(s) /\ At(s) = Top(round) + 1 /\ mu[s] # "next"
  BY <1>1 DEF Running, Local, Placed, InRound
<1>4. \A s \in Servers : Emitted(s) = Top(round) + 1
  <2>1. Top(round) + 1 > Top(round)
    BY <1>2, SMTT(30), SMTT(40)
  <2>2. QED
    BY <1>3, <2>1 DEF Emitted
<1>5. \A s \in Servers : Taken(d, s) <= Top(round) + 1
  BY <1>1, <1>4 DEF Running, Queue, Line
<1>6. sync[d] \in Syncs /\ (srv[d].path <=> IsPath(round))
  BY <1>1 DEF Types, ControlTypes, Running, Local
<1>7. sync[d].started \subseteq Servers /\ sync[d].trig \in {"none", "spawned", "locked", "called"}
  BY <1>6, SMTT(30), SMTT(40) DEF Syncs
<1>8. Counted(sync[d], Working(d), Pos(sync[d].layer)) /\ Pos(srv[d].layer) = Top(round) + 1
  BY <1>3 DEF InRound, Counting, At
<1>9. CASE sync[d].trig = "called"
  <2>1. Pos(sync[d].layer) = At(d) - 1 /\ At(d) = Top(round) + 1 /\ sync[d].next = srv[d].layer
    BY <1>3, <1>9 DEF InRound
  <2>2. ~(Pos(sync[d].layer) < 0) /\ Pos(sync[d].layer) >= 0 /\ Pos(sync[d].layer) = Top(round)
        /\ Top(round) + 1 >= 0
    BY <1>2, <2>1, SMTT(30), SMTT(40)
  <2>3. Working(d) = {} /\ sync[d].started = Servers
    BY <1>8, <1>9, <2>2 DEF Counted
  <2>4. \A s \in Servers : Taken(d, s) = Top(round) + 1
    BY <1>3, <2>2, <2>3 DEF Taken
  <2>5. QED
    BY <1>2, <1>3, <1>4, <1>6, <1>8, <1>9, <2>1, <2>2, <2>3, <2>4
<1>10. CASE sync[d].trig # "called"
  <2>1. Pos(sync[d].layer) = Top(round) + 1
    BY <1>3, <1>8, <1>10 DEF InRound
  <2>2. ~(Pos(sync[d].layer) < 0) /\ Pos(sync[d].layer) >= 0
        /\ ~(Top(round) + 1 + 1 <= Top(round) + 1)
    BY <1>2, <2>1, SMTT(30), SMTT(40)
  <2>3. \A s \in Servers : s \notin sync[d].started
    BY <1>3, <1>5, <2>1, <2>2 DEF Taken
  <2>4. sync[d].started = {}
    BY <1>7, <2>3
  <2>5. Working(d) = {} /\ sync[d].trig = "none"
    BY <1>8, <2>2, <2>4 DEF Counted
  <2>6. \A s \in Servers : Taken(d, s) = Top(round) + 1
    BY <1>3, <2>1, <2>2, <2>3 DEF Taken
  <2>7. QED
    BY <1>2, <1>3, <1>4, <1>6, <1>10, <2>2, <2>5, <2>6
<1>11. QED
  BY <1>9, <1>10

\* A link all of whose layers are taken has no batch of a layer.
LEMMA LineEmpty ==
    ASSUME NEW r \in Int, NEW w, Batches(w), NEW o, NEW d, NEW m \in Int, Line(r, w, o, d, m, m)
    PROVE  /\ NoLayers(w)
           /\ \A i \in 1 .. Len(o) : o[i].dest = d => ~OfLayer(o[i])
<1>1. \A i \in 1 .. Len(w) : Place(r, w[i].layer) \in Int
  BY PlaceType DEF Batches, Proper
<1>2. ASSUME NEW i \in 1 .. Len(w) PROVE ~OfLayer(w[i])
  <2>1. OfLayer(w[i]) => m <= Place(r, w[i].layer) /\ Place(r, w[i].layer) < m
    BY DEF Line
  <2>2. QED
    BY <1>1, <2>1, SMTT(30), SMTT(40)
<1>3. \A i \in 1 .. Len(o) : o[i].dest = d => ~OfLayer(o[i])
  <2>1. ~(m < m)
    BY SMTT(30), SMTT(40)
  <2>2. QED
    BY <2>1 DEF Line
<1>4. QED
  BY <1>2, <1>3 DEF NoLayers

\* RoundStart has returned at every server: the round ends with all batches taken.
LEMMA StepRoundStartReturned ==
    ASSUME TrellisInv, RoundStartReturned
    PROVE  TrellisInv'
<1>1. /\ UNCHANGED <<round, mu, sync, srv, job, out, link, hand, rpc>> /\ phase = "start"
      /\ phase' = "check" /\ \A s \in Servers : rpc[s] = "done"
  BY DEF RoundStartReturned, Returned, linkVars
<1>2. Running /\ Types /\ round \in 0 .. LastRound
  BY <1>1 DEF TrellisInv, Types, ControlTypes
<1>3. Types' /\ Holds' /\ \A s \in Servers : rpc'[s] = "done" /\ Working(s)' = Working(s)
  BY <1>1, <1>2, Coordinated
<1>4. \A d \in Servers :
        /\ Emitted(d) = Top(round) + 1 /\ \A s \in Servers : Taken(d, s) = Top(round) + 1
        /\ Working(d) = {} /\ sync[d].trig \in {"none", "called"} /\ mu[d] # "next"
        /\ Pos(sync[d].layer) >= 0 /\ (sync[d].trig = "called" => Pos(sync[d].next) >= 0)
        /\ (srv[d].path <=> IsPath(round)) /\ Top(round) \in Nat
  BY <1>1, AllTaken
<1>5. ASSUME NEW s \in Servers, NEW d \in Servers
      PROVE  NoLayers(link[s][d]) /\ \A i \in 1 .. Len(out[s]) : out[s][i].dest = d => ~OfLayer(out[s][i])
  <2>1. Line(round, link[s][d], out[s], d, Top(round) + 1, Top(round) + 1)
    BY <1>2, <1>4 DEF Running, Queue
  <2>2. round \in Int /\ Batches(link[s][d])
    BY <1>2, ViewTypes DEF Types, LinkTypes
  <2>3. Top(round) + 1 \in Int
    BY <1>4, SMTT(30), SMTT(40)
  <2>4. QED
    BY <2>1, <2>2, <2>3, LineEmpty
<1>6. \A s \in Servers : NoLayers(out[s])
  BY <1>2, <1>5 DEF NoLayers, Types, LinkTypes, Batches, Proper
<1>7. ASSUME NEW s \in Servers PROVE Still(s)'
  <2>1. IsPath(round) => sync[s].layer <= round /\ (sync[s].trig = "called" => sync[s].next <= round)
    <3>1. round \in Int /\ sync[s] \in Syncs
      BY <1>2, ViewTypes
    <3>2. sync[s].layer \in Int /\ sync[s].next \in Int
      BY <3>1, SMTT(30), SMTT(40) DEF Syncs
    <3>3. \A l : IsPath(round) => Pos(l) = round - l
      BY DEF Pos, Place
    <3>4. QED
      BY <1>4, <3>1, <3>2, <3>3, SMTT(30), SMTT(40)
  <2>2. QED
    BY <1>1, <1>3, <1>4, <2>1 DEF Still
<1>8. Quiet'
  BY <1>1, <1>5, <1>6, <1>7 DEF Quiet
<1>9. QED
  BY <1>1, <1>3, <1>8 DEF TrellisInv

\* The coordinator ends the run, or begins the next round.
LEMMA StepCheckRound ==
    ASSUME TrellisInv, CheckRound
    PROVE  TrellisInv'
<1>1. UNCHANGED <<mu, sync, srv, job, out, link, hand>> /\ phase = "check"
  BY DEF CheckRound, linkVars
<1>2. Quiet /\ round \in 0 .. LastRound
  BY <1>1 DEF TrellisInv, Types, ControlTypes
<1>3. \A s \in Servers : Still(s) /\ rpc[s] = "done"
  BY <1>1, <1>2 DEF Quiet, Still
<1>4. CASE Stops
  <2>1. phase' = "end" /\ UNCHANGED <<round, rpc>>
    BY <1>4 DEF CheckRound
  <2>2. Types' /\ Holds' /\ \A s \in Servers : rpc'[s] = "done" /\ Working(s)' = Working(s)
    BY <1>1, <1>2, <1>3, <2>1, Coordinated
  <2>3. \A s \in Servers : Still(s)'
    BY <1>1, <1>3, <2>1, <2>2 DEF Still
  <2>4. Quiet'
    BY <1>1, <1>2, <2>1, <2>3 DEF Quiet
  <2>5. QED
    BY <2>1, <2>2, <2>4 DEF TrellisInv
<1>5. CASE ~Stops
  <2>1. /\ round' = round + 1 /\ phase' = (IF IsPath(round') THEN "start" ELSE "setup")
        /\ rpc' = [s \in Servers |-> phase']
    BY <1>5 DEF CheckRound
  <2>2. /\ round \in Nat /\ round' \in 0 .. LastRound /\ round' \in Nat \ {0} /\ round' > 0
        /\ \A l \in Int : l <= round => l < round'
    <3>1. round # LastRound
      BY <1>5 DEF Stops
    <3>2. LastRound \in Int
      BY ConfigAssumption, SMTT(30), SMTT(40) DEF LastRound
    <3>3. QED
      BY <1>2, <2>1, <3>1, <3>2, SMTT(30), SMTT(40)
  <2>3. /\ Types' /\ Holds' /\ \A s \in Servers : rpc'[s] = phase' /\ Working(s)' = Working(s)
        /\ phase' \in {"start", "setup"}
    BY <1>1, <1>2, <1>3, <2>1, <2>2, Coordinated
  <2>4. CASE ~IsPath(round')
    <3>1. phase' = "setup"
      BY <2>1, <2>4
    <3>2. \A s \in Servers : Still(s)'
      BY <1>1, <1>3, <2>3, <3>1 DEF Still
    <3>3. Quiet'
      BY <1>1, <1>2, <2>4, <3>1, <3>2 DEF Quiet
    <3>4. QED
      BY <2>3, <3>1, <3>3 DEF TrellisInv
  <2>5. CASE IsPath(round')
    <3>1. phase' = "start" /\ IsPath(round)
      <4>1. IsPath(round)
        BY <2>1, <2>2, <2>5, ConfigAssumption, SMTT(30), SMTT(40) DEF IsPath
      <4>2. QED
        BY <2>1, <2>5, <4>1
    <3>2. Top(round') \in Nat
      BY <2>2, RoundLayers
    <3>3. ASSUME NEW s \in Servers
          PROVE  /\ Local(s)' /\ mu'[s] # "next" /\ At(s)' = -1
                 /\ \A t \in Servers : Taken(s, t)' = 0
      <4>1. /\ srv[s].path /\ sync[s].layer <= round /\ Working(s) = {} /\ mu[s] # "next"
            /\ (sync[s].trig = "called" => sync[s].next <= round)
            /\ sync[s].trig \in {"none", "called"}
        BY <1>1, <1>3, <3>1 DEF Still
      <4>2. sync[s].layer \in Int /\ sync[s].next \in Int
        <5>1. sync[s] \in Syncs
          BY Before
        <5>2. QED
          BY <5>1, SMTT(30), SMTT(40) DEF Syncs
      <4>3. ~Placed(s)'
        BY <2>3, <2>5, <3>1 DEF Placed
      <4>4. Resting(s)'
        BY <1>1, <2>2, <2>3, <3>1, <4>1, <4>2 DEF Resting
      <4>5. Local(s)'
        BY <1>1, <2>3, <2>5, <3>1, <4>1, <4>3, <4>4 DEF Local
      <4>6. QED
        BY <1>1, <4>1, <4>3, <4>5 DEF At, Taken
    <3>4. \A s, d \in Servers : NoLayers(out'[s]) /\ NoLayers(link'[s][d])
      BY <1>1, <1>2 DEF Quiet
    <3>5. Running'
      BY <2>2, <2>3, <3>2, <3>3, <3>4, Begins
    <3>6. QED
      BY <2>3, <3>1, <3>5 DEF TrellisInv
  <2>6. QED
    BY <2>4, <2>5
<1>6. QED
  BY <1>4, <1>5

-----------------------------------------------------------------------------
(* The last batch of a layer.                                              *)

\* Batches of all servers are those counted when NumServers are; AllCounted below shows it.
AllCount == \A S \in SUBSET Servers : Counts(NumServers, S) => S = Servers

\* One batch more is one more.
LEMMA CountsMore ==
    ASSUME NEW n, NEW S, NEW x, Counts(n, S), x \notin S
    PROVE  Counts(n + 1, S \cup {x})
<1>1. n \in Nat
  BY DEF Counts
<1>2. PICK f : Numbers(f, n, S)
  BY DEF Counts
<1> DEFINE g == [i \in 1 .. n + 1 |-> IF i = n + 1 THEN x ELSE f[i]]
<1>3. /\ \A i \in 1 .. n : i \in 1 .. n + 1 /\ i # n + 1
      /\ \A i \in 1 .. n + 1 : i \in 1 .. n \/ i = n + 1
      /\ n + 1 \in 1 .. n + 1 /\ n + 1 \in Nat
  BY <1>1, SMTT(30), SMTT(40)
<1>4. g[n + 1] = x /\ \A i \in 1 .. n : g[i] = f[i] /\ f[i] \in S
  BY <1>2, <1>3 DEF Numbers
<1>5. g \in [1 .. n + 1 -> S \cup {x}]
  BY <1>2, <1>3 DEF Numbers
<1> HIDE DEF g
<1>6. \A i, j \in 1 .. n + 1 : g[i] = g[j] => i = j
  BY <1>2, <1>3, <1>4 DEF Numbers
<1>7. \A y \in S \cup {x} : \E i \in 1 .. n + 1 : g[i] = y
  BY <1>2, <1>3, <1>4 DEF Numbers
<1>8. QED
  BY <1>3, <1>5, <1>6, <1>7 DEF Numbers, Counts

\* Done counts a batch; the last one ends the layer.
LEMMA DoneCounts ==
    ASSUME AllCount, NEW y \in Syncs, NEW w, NEW q, Counted(y, w, q), NEW s \in w
    PROVE  /\ Done(y) \in Syncs /\ Counted(Done(y), w \ {s}, q) /\ y.trig = "none"
           /\ Done(y).layer = y.layer /\ Done(y).next = y.next /\ Done(y).started = y.started
           /\ Done(y).trig # "called"
<1> DEFINE p == y.processed + 1
           z == Done(y)
           c == y.started \ (w \ {s})
<1>1. /\ w \subseteq y.started /\ Counts(y.processed, y.started \ w) /\ y.trig = "none"
      /\ ~(q < 0) /\ y.started \subseteq Servers /\ y.processed \in Nat
  <2>1. w \subseteq y.started /\ Counts(y.processed, y.started \ w) /\ y.trig = "none"
        /\ ~(q < 0)
    BY DEF Counted
  <2>2. QED
    BY <2>1, SMTT(30), SMTT(40) DEF Syncs
<1>2. /\ z \in Syncs /\ z.layer = y.layer /\ z.next = y.next /\ z.started = y.started
      /\ z.processed = p /\ z.trig = IF p = NumServers THEN "spawned" ELSE "none"
  <2> DEFINE g == IF p = NumServers THEN "spawned" ELSE "none"
  <2>1. z = [y EXCEPT !.processed = p, !.trig = g]
    BY <1>1 DEF Done
  <2>2. p \in Nat /\ g \in {"none", "spawned"}
    BY <1>1, SMTT(30), SMTT(40)
  <2> HIDE DEF p, g, z
  <2>3. /\ z \in Syncs /\ z.layer = y.layer /\ z.next = y.next /\ z.started = y.started
        /\ z.processed = p /\ z.trig = g
    BY <2>1, <2>2 DEF Syncs
  <2>4. QED
    BY <2>3 DEF g
<1>3. c = (y.started \ w) \cup {s} /\ s \notin y.started \ w
  BY <1>1
<1>4. Counts(p, c)
  <2>1. Counts(y.processed + 1, (y.started \ w) \cup {s})
    BY <1>1, <1>3, CountsMore
  <2> HIDE DEF c
  <2>2. QED
    BY <1>3, <2>1
<1>5. w \ {s} \subseteq y.started
  BY <1>1
<1>6. ASSUME p = NumServers PROVE w \ {s} = {} /\ y.started = Servers
  <2>1. c \in SUBSET Servers
    BY <1>1
  <2>2. c = Servers
    <3> HIDE DEF c, p
    <3>1. QED
      BY <1>4, <1>6, <2>1 DEF AllCount
  <2>3. QED
    BY <1>1, <2>2
<1>7. Counted(z, w \ {s}, q)
  <2> HIDE DEF z, p
  <2>1. QED
    BY <1>1, <1>2, <1>4, <1>5, <1>6 DEF Counted
<1>8. QED
  BY <1>1, <1>2, <1>7

\* Done leaves the place of the server; its last call spawns the trigger.
LEMMA StepBatchDone ==
    ASSUME AllCount, TrellisInv, NEW d \in Servers, NEW s \in Servers, BatchDone(d, s)
    PROVE  TrellisInv'
<1> DEFINE b == hand[d][s].batch
<1>1. /\ UNCHANGED <<round, phase, rpc, mu, job, out, link, srv>> /\ b # NoBatch
      /\ hand' = [hand EXCEPT ![d][s].batch = NoBatch]
      /\ \/ b.group = Nil /\ sync' = [sync EXCEPT ![d] = Done(sync[d])]
         \/ b.type \in {"Signature", "Token"} /\ sync' = sync
  BY DEF BatchDone, coordVars, linkVars
<1>2. ControlTypes /\ ServerTypes /\ LinkTypes /\ HandTypes /\ Types /\ Holds
  BY DEF TrellisInv, Types
<1>3. /\ hand[d][s] = [batch |-> b, jobs |-> hand[d][s].jobs] /\ Proper(b)
      /\ DOMAIN hand = Servers /\ DOMAIN hand[d] = Servers
  BY <1>1, <1>2 DEF HandTypes
<1>4. hand' = [hand EXCEPT ![d][s] = [batch |-> NoBatch, jobs |-> hand[d][s].jobs]]
  <2>1. [hand[d][s] EXCEPT !.batch = NoBatch] = [batch |-> NoBatch, jobs |-> hand[d][s].jobs]
    BY <1>3, SMTT(30), SMTT(40)
  <2>2. QED
    BY <1>1, <2>1
<1>5. /\ HandTypes' /\ \A t \in Servers \ {d} : Working(t)' = Working(t)
      /\ Working(d)' = Working(d) \ {s}
  BY <1>2, <1>4, NoBatchOfLayer, Handed
<1>6. s \in Working(d) <=> OfLayer(b)
  BY DEF Working
<1>7. CASE ~OfLayer(b)
  <2>1. sync' = sync
    BY <1>1, <1>3, <1>7, ConfigAssumption DEF Proper
  <2>2. \A t \in Servers : Working(t)' = Working(t)
    BY <1>5, <1>6, <1>7
  <2>3. DOMAIN srv' = Servers /\ \A t \in Servers : Keeps(srv[t], srv'[t])
    BY <1>1, <1>2, KeepsSame DEF ServerTypes
  <2>4. QED
    BY <1>1, <1>5, <2>1, <2>2, <2>3, StepServer
<1>8. CASE OfLayer(b)
  <2> DEFINE y == Done(sync[d])
  <2>1. sync' = [sync EXCEPT ![d] = y] /\ s \in Working(d)
    BY <1>1, <1>6, <1>8 DEF OfLayer
  <2>2. phase = "start" /\ Running /\ Local(d)
    BY <2>1, RoundRuns
  <2>3. Placed(d) /\ InRound(d)
    BY <2>1, <2>2 DEF Local, Resting
  <2>4. sync[d] \in Syncs /\ DOMAIN sync = Servers /\ Counted(sync[d], Working(d), Pos(sync[d].layer))
    BY <1>2, <2>3 DEF ControlTypes, InRound, Counting
  <2>5. /\ y \in Syncs /\ Counted(y, Working(d) \ {s}, Pos(sync[d].layer)) /\ sync[d].trig = "none"
        /\ y.layer = sync[d].layer /\ y.next = sync[d].next /\ y.started = sync[d].started
        /\ y.trig # "called"
    BY <2>1, <2>4, DoneCounts
  <2> HIDE DEF y
  <2>6. sync'[d] = y /\ DOMAIN sync' = Servers /\ \A t \in Servers \ {d} : sync'[t] = sync[t]
    BY <2>1, <2>4
  <2>7. Types' /\ Holds'
    <3>1. ControlTypes'
      BY <1>1, <1>2, <2>5, <2>6 DEF ControlTypes
    <3>2. ServerTypes' /\ LinkTypes'
      BY <1>1, <1>2 DEF ServerTypes, LinkTypes
    <3>3. QED
      BY <1>1, <1>2, <1>5, <3>1, <3>2 DEF Types, Holds
  <2>8. \A t \in Servers : Keeps(srv[t], srv'[t])
    BY <1>1, <1>2, KeepsSame DEF ServerTypes
  <2>9. \A t \in Servers \ {d} : SameView(t)
    BY <1>1, <1>5, <2>6, <2>8 DEF SameView
  <2>10. Counting(d)'
    BY <1>1, <1>5, <2>5, <2>6 DEF Counting, Pos
  <2>11. /\ rpc[d] \notin {"setup", "setupGroups"} /\ (rpc[d] \in {"reset", "send"} => IsPath(round))
         /\ (rpc[d] \in {"groups", "done"} => srv[d].complete) /\ rpc[d] # "start"
         /\ Placed(d)'
    <3>1. rpc[d] # "start"
      <4>1. ASSUME rpc[d] = "start" PROVE FALSE
        <5>1. Pos(sync[d].layer) = -1
          BY <2>3, <2>5, <4>1 DEF InRound, At
        <5>2. -1 < 0
          BY SMTT(30), SMTT(40)
        <5>3. QED
          BY <2>1, <2>4, <5>1, <5>2 DEF Counted
      <4>2. QED
        BY <4>1
    <3>2. QED
      BY <1>1, <2>2, <2>3, <3>1 DEF Local, InRound, Placed
  <2>12. /\ Local(d)' /\ At(d)' = At(d) /\ Emitted(d)' = Emitted(d)
         /\ \A t \in Servers : Taken(d, t)' = Taken(d, t)
    BY <1>1, <2>2, <2>3, <2>5, <2>6, <2>8, <2>10, <2>11, WithinLayer
  <2>13. QED
    BY <1>1, <2>2, <2>7, <2>9, <2>12, StepLocal
<1>9. QED
  BY <1>7, <1>8

-----------------------------------------------------------------------------
(* The theorems.                                                           *)

\* The servers start with nothing sent and nothing counted.
LEMMA TrellisInit == Init => TrellisInv
<1> SUFFICES ASSUME Init PROVE TrellisInv
  BY SMTT(30), SMTT(40)
<1>1. /\ round = 0 /\ phase = "setup" /\ rpc = [s \in Servers |-> "setup"]
      /\ srv = [s \in Servers |-> NewServer] /\ mu = [s \in Servers |-> "free"]
      /\ sync = [s \in Servers |-> NewSynchronizer(0)] /\ job = [s \in Servers |-> Nil]
      /\ out = [s \in Servers |-> <<>>] /\ link = [s \in Servers |-> [d \in Servers |-> <<>>]]
      /\ hand = [d \in Servers |-> [s \in Servers |-> [batch |-> NoBatch, jobs |-> {}]]]
  BY DEF Init, Idle
<1>2. round \in 0 .. LastRound
  BY <1>1, ConfigAssumption, SMTT(30), SMTT(40) DEF LastRound
<1>3. Shape(NewServer)
  <2> DEFINE q == NewServer
  <2>1. /\ DOMAIN q = Fields /\ q.layer = 0 /\ q.path = FALSE /\ q.pathLayer = 0
        /\ q.receiptLayer = 0 /\ q.complete = FALSE /\ q.routers = [l \in Layers |-> Nil]
        /\ q.tokens = [g \in Groups |-> {}]
    BY DEF NewServer, NoGroupBuffers, Fields
  <2>2. 0 \in Int
    BY SMTT(30), SMTT(40)
  <2>3. /\ [l \in Layers |-> Nil] \in [Layers -> [Servers -> SUBSET Clients] \cup {Nil}]
        /\ [g \in Groups |-> {}] \in [Groups -> SUBSET Clients]
    OBVIOUS
  <2> HIDE DEF q
  <2>4. Shape(q)
    BY <2>1, <2>2, <2>3 DEF Shape
  <2>5. QED
    BY <2>4 DEF q
<1>4. NewSynchronizer(0) \in Syncs /\ NewSynchronizer(0).trig = "none"
  BY SMTT(30), SMTT(40) DEF NewSynchronizer, Syncs
<1>5. Batches(<<>>) /\ NoLayers(<<>>)
  <2>1. <<>> \in Seq({}) /\ \A i \in 1 .. Len(<<>>) : FALSE
    BY SMTT(30), SMTT(40)
  <2>2. QED
    BY <2>1, SeqOfElements DEF Batches, NoLayers
<1>6. ControlTypes
  BY <1>1, <1>2, <1>4 DEF ControlTypes, Calls, Holders
<1>7. ServerTypes
  BY <1>1, <1>3 DEF ServerTypes
<1>8. LinkTypes
  BY <1>1, <1>5 DEF LinkTypes
<1>9. HandTypes /\ \A d \in Servers : Working(d) = {}
  <2>1. \A d, s \in Servers : hand[d][s] = [batch |-> NoBatch, jobs |-> {}]
    BY <1>1
  <2>2. ASSUME NEW d \in Servers, NEW s \in Servers
        PROVE  hand[d][s].batch = NoBatch /\ hand[d][s].jobs = {}
    <3>1. hand[d][s] = [batch |-> NoBatch, jobs |-> {}]
      BY <2>1
    <3>2. QED
      BY <3>1, SMTT(30), SMTT(40)
  <2>3. QED
    BY <1>1, <2>1, <2>2, NoBatchOfLayer DEF HandTypes, Working
<1>10. Holds
  BY <1>1 DEF Holds
<1>11. \A s \in Servers : Still(s)
  BY <1>1, <1>4, <1>9 DEF Still
<1>12. Quiet
  BY <1>1, <1>5, <1>11 DEF Quiet
<1>13. QED
  BY <1>1, <1>6, <1>7, <1>8, <1>9, <1>10, <1>12 DEF TrellisInv, Types

\* TrellisInv keeps the servers that have begun the round in step.
LEMMA TrellisImplies == TrellisInv => LockStep
<1> SUFFICES ASSUME TrellisInv, phase = "start",
                    NEW s \in Servers, rpc[s] \notin {"start", "reset"},
                    NEW t \in Servers, rpc[t] \notin {"start", "reset"}
             PROVE  srv[s].layer - srv[t].layer <= 1
  BY DEF LockStep
<1>1. At(s) = Pos(srv[s].layer) /\ At(t) = Pos(srv[t].layer)
  BY DEF At, Placed
<1>2. At(s) <= At(t) + 1 /\ At(t) <= At(s) + 1
  BY DEF TrellisInv, Running
<1>3. round \in Int /\ Shape(srv[s]) /\ Shape(srv[t])
  BY ViewTypes DEF TrellisInv
<1>4. srv[s].layer \in Int /\ srv[t].layer \in Int
  BY <1>3, SMTT(30), SMTT(40) DEF Shape
<1>5. QED
  BY <1>1, <1>2, <1>3, <1>4, SMTT(30), SMTT(40) DEF Pos, Place

FST == INSTANCE FiniteSetTheorems

\* A layer has the batches of all servers when it has counted NumServers of them.
LEMMA AllCounted == AllCount
<1> SUFFICES ASSUME NEW S \in SUBSET Servers, Counts(NumServers, S) PROVE S = Servers
  BY DEF AllCount
<1>1. FST!ExistsBijection(1 .. NumServers, S)
  BY DEF Counts, Numbers, FST!ExistsBijection, FST!Bijection, FST!Injection,
               FST!Surjection, FST!IsInjective
<1>2. FST!Cardinality(S) = NumServers
  BY <1>1, FST!FS_CountingElements DEF Counts
<1>3. NumServers - 1 \in Int /\ 0 \in Int /\ ~(0 > NumServers - 1) /\ NumServers - 1 - 0 + 1 = NumServers
  BY ConfigAssumption, SMTT(30), SMTT(40)
<1>4. FST!IsFiniteSet(Servers) /\ FST!Cardinality(Servers) = NumServers
  BY <1>3, FST!FS_Interval DEF Servers
<1>5. QED
  BY <1>2, <1>4, FST!FS_Subset

\* Every step of the coordinator, of a server or of a handler keeps TrellisInv.
LEMMA TrellisNext == TrellisInv /\ [Next]_vars => TrellisInv'
<1> SUFFICES ASSUME TrellisInv, [Next]_vars PROVE TrellisInv'
  BY SMTT(30), SMTT(40)
<1>1. CASE CoordinatorStep
  BY <1>1, StepClientStart, StepSendRoundStart, StepRoundStartReturned, StepCheckRound
  DEF CoordinatorStep
<1>2. CASE \E c \in Clients : SubmitMessage(c)
  BY <1>2, StepSubmitMessage
<1>3. ASSUME NEW s \in Servers, ServerStep(s) PROVE TrellisInv'
  BY <1>3, StepRoundSetupPath, StepRoundSetupLightning, StepSetupDone, StepRoundStartPath,
     StepRoundStartReset, StepRoundStartSent, StepRoundStartLightning, StepRoundComplete,
     StepTriggerLock, StepTriggerCall, StepTriggerCommit, StepSendNext, StepCheckpointDone,
     StepLayerSent DEF ServerStep
<1>4. ASSUME NEW s \in Servers, NEW g \in GroupsOf(s), GroupStep(s, g) PROVE TrellisInv'
  BY <1>4, StepGroups
<1>5. ASSUME NEW d \in Servers, NEW s \in Servers, HandlerStep(d, s) PROVE TrellisInv'
  BY <1>5, StepTakeBatch, StepTakeGroupBatch, AllCounted, StepBatchDone, StepProcessMessage
  DEF HandlerStep
<1>6. CASE UNCHANGED vars
  <2>1. UNCHANGED <<round, phase, rpc, mu, sync, job, out, link, srv, hand>>
    BY <1>6 DEF vars, coordVars, linkVars
  <2>2. QED
    BY <2>1, StepNothing
<1>7. QED
  BY <1>1, <1>2, <1>3, <1>4, <1>5, <1>6 DEF Next, Terminated

\* TrellisInv holds of every state of the network.
LEMMA TrellisInvariant == Spec => []TrellisInv
<1>1. QED
  BY TrellisInit, TrellisNext, PTL DEF Spec

\* While a round runs no server is two layers from another, for any number of servers,
\* layers, clients, groups, rounds and link capacities and whatever the orders in which the
\* servers send: SyncOnce, Done, Trigger and OnThreshold keep the network in step although
\* each server only counts the batches it gets.
THEOREM ServersInStep == Spec => []LockStep
<1>1. QED
  BY TrellisInvariant, TrellisImplies, PTL

\* A server mixes a layer only when the batches of all servers have been processed; layer 0
\* of a broadcast round, at place -1, has the messages of the clients instead.
WholeLayers ==
    [][\A s \in Servers :
         TriggerCall(s) => /\ Working(s) = {}
                           /\ Pos(sync[s].layer) >= 0 => sync[s].started = Servers]_vars

\* Trigger and OnThreshold never run on a part of a layer.
THEOREM NoPartOfALayer == Spec => WholeLayers
<1> DEFINE A == \A s \in Servers :
                   TriggerCall(s) => /\ Working(s) = {}
                                     /\ Pos(sync[s].layer) >= 0 => sync[s].started = Servers
<1>1. TrellisInv => [A]_vars
  <2> SUFFICES ASSUME TrellisInv, NEW s \in Servers, TriggerCall(s)
               PROVE  /\ Working(s) = {}
                      /\ Pos(sync[s].layer) >= 0 => sync[s].started = Servers
    OBVIOUS
  <2>1. sync[s].trig = "locked" /\ MuFree(s)
    BY DEF TriggerCall
  <2>2. Counted(sync[s], Working(s), Pos(sync[s].layer)) /\ sync[s].layer = srv[s].layer
    BY <2>1, WholeLayer DEF InRound, Counting
  <2>3. Pos(sync[s].layer) \in Int
    BY ViewTypes DEF TrellisInv
  <2>4. Pos(sync[s].layer) >= 0 => ~(Pos(sync[s].layer) < 0)
    BY <2>3, SMTT(30), SMTT(40)
  <2>5. QED
    BY <2>1, <2>2, <2>4 DEF Counted
<1>2. QED
  BY <1>1, TrellisInvariant, PTL DEF WholeLayers

\* A server takes one batch of a sender in a layer.
OneBatchEach ==
    [][\A d, s \in Servers : TakeBatch(d, s) => s \notin sync[d].started]_vars

\* SyncOnce never meets a sender that has already started the layer, the error of
\* WorkerPoolProcessStream that ends a server.
THEOREM NoBatchTwice == Spec => OneBatchEach
<1> DEFINE A == \A d, s \in Servers : TakeBatch(d, s) => s \notin sync[d].started
<1>1. TrellisInv => [A]_vars
  <2> SUFFICES ASSUME TrellisInv, NEW d \in Servers, NEW s \in Servers, TakeBatch(d, s)
               PROVE  s \notin sync[d].started
    OBVIOUS
  <2>1. /\ link[s][d] # <<>> /\ Head(link[s][d]).group = Nil
        /\ InLayer(sync[d], Head(link[s][d]).layer)
    BY DEF TakeBatch, Offered
  <2>2. QED
    BY <2>1, FirstOfSender
<1>2. QED
  BY <1>1, TrellisInvariant, PTL DEF OneBatchEach

\* The part of RoundQuiescent that is about the layers: when all servers have reported a
\* round complete no server mixes or holds its mutex, and no batch of a layer is on its
\* way or being processed.
LayersQuiescent ==
    phase = "check" =>
        \A s \in Servers :
            /\ mu[s] = "free" /\ sync[s].trig \in {"none", "called"}
            /\ Working(s) = {} /\ NoLayers(out[s])
            /\ \A d \in Servers : NoLayers(link[s][d])

\* A server reports a round complete after its own last layer; all reports together say
\* that no server has anything of the layers left to do.
THEOREM RoundsEndQuiescent == Spec => []LayersQuiescent
<1>1. TrellisInv => LayersQuiescent
  <2> SUFFICES ASSUME TrellisInv, phase = "check", NEW s \in Servers
               PROVE  /\ mu[s] = "free" /\ sync[s].trig \in {"none", "called"}
                      /\ Working(s) = {} /\ NoLayers(out[s])
                      /\ \A d \in Servers : NoLayers(link[s][d])
    BY DEF LayersQuiescent
  <2>1. Quiet /\ Still(s) /\ rpc[s] = "done" /\ mu[s] \in Holders
    BY DEF TrellisInv, Quiet, Still, Types, ControlTypes
  <2>2. mu[s] # "start" /\ mu[s] # "setup" /\ mu[s] # "next"
    BY <2>1 DEF TrellisInv, Holds, Still
  <2>3. QED
    BY <2>1, <2>2 DEF Quiet, Still, Holders
<1>2. QED
  BY <1>1, TrellisInvariant, PTL
=============================================================================
