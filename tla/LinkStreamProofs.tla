-------------------------- MODULE LinkStreamProofs --------------------------
(***************************************************************************)
(* For any connections, batches, capacities and threads: frames and        *)
(* batches stay whole, also while connections break.                       *)
(*                                                                         *)
(* The units on a connection are consecutive, and the first of them is at  *)
(* the place its reader expects; the messages of the batch in work that    *)
(* were read are in line behind those the pool was given.                  *)
(***************************************************************************)
EXTENDS LinkStream, SequenceLemmas, TLAPS

-----------------------------------------------------------------------------
(* What a connection holds, as places.                                     *)

Units == [kind : {"header", "message", "signature"}, conn : Conns, batch : Nat, nr : Nat]

\* The places of the units of a connection, and the one behind them.
Places(c) == {p \in [batch : Nat, unit : Nat] :
                p.batch \in 1 .. Len(Batches[c]) /\ p.unit <= Batches[c][p.batch] + 1}
Over(c) == [batch |-> Len(Batches[c]) + 1, unit |-> 0]

\* The place of a unit.
PlaceOf(c, u) ==
    [batch |-> u.batch, unit |-> IF u.kind = "header" THEN 0
                                 ELSE IF u.kind = "message" THEN u.nr
                                 ELSE Batches[c][u.batch] + 1]

\* The place of unit i of the connection w, u being written behind its last one.
At(c, w, u, i) == IF i <= Len(w) THEN PlaceOf(c, w[i]) ELSE u

\* The connection w holds consecutive units, and u is what comes next.
Flow(c, w, u) ==
    /\ w \in Seq(Units) /\ u \in Places(c) \cup {Over(c)}
    /\ \A i \in 1 .. Len(w) :
        /\ At(c, w, u, i) \in Places(c) /\ w[i] = AsArray(c, At(c, w, u, i))
        /\ At(c, w, u, i + 1) = After(c, At(c, w, u, i))
        /\ \A n \in Nat :
            i + n <= Len(w) + 1 /\ At(c, w, u, i).unit + n <= Batches[c][At(c, w, u, i).batch] + 1 =>
                At(c, w, u, i + n) = [batch |-> At(c, w, u, i).batch, unit |-> At(c, w, u, i).unit + n]

-----------------------------------------------------------------------------
(* The inductive invariant.                                                *)

Types ==
    /\ unsent \in [Conns -> [batch : Nat, unit : Nat]] /\ wire \in [Conns -> Seq(Units)]
    /\ closed \subseteq Conns /\ handler \in [Conns -> {"header", "stream", "hand", "failed"}]
    /\ batch \in [Conns -> Units \cup {None}] /\ inHand \in [Conns -> Units \cup {None}]
    /\ reader \in [Conns -> {"none", "read", "push", "ended"}] /\ todo \in [Conns -> Nat]
    /\ chunk \in [Conns -> Seq(Units)] /\ buff \in [Conns -> Seq(Units)]
    /\ err \in [Conns -> BOOLEAN] /\ wg \in [Conns -> Nat] /\ done \in [Conns -> Nat]
    /\ jobs \in Seq(Units) /\ processed \in Seq(Units)
    /\ thread \in [Threads -> Units \cup {None}] /\ panicked \in BOOLEAN

\* The batch in work and its size.
Now(c) == done[c] + 1
Size(c) == Batches[c][Now(c)]

\* The place of what is read next.
Expected(c) ==
    IF batch[c] = None THEN [batch |-> Now(c), unit |-> 0]
    ELSE IF reader[c] = "ended" THEN [batch |-> Now(c) + 1, unit |-> 0]
    ELSE [batch |-> Now(c), unit |-> Size(c) - todo[c] + 1]

\* Messages of the batch in work before those of Buff, and those that are with the pool.
Ahead(c) == Size(c) - todo[c] - Len(chunk[c]) - Len(buff[c])
Given(c) == IF handler[c] = "hand" THEN Ahead(c) - 1 ELSE Ahead(c)

\* A connection and the goroutines that work on it.
Lane(c) ==
    /\ Len(wire[c]) <= WireCap /\ Len(buff[c]) <= BuffCap /\ done[c] <= Len(Batches[c])
    /\ Flow(c, wire[c], unsent[c])
    /\ handler[c] # "failed" /\ ~err[c] => At(c, wire[c], unsent[c], 1) = Expected(c)
    /\ err[c] => c \in closed /\ (reader[c] = "ended" \/ handler[c] = "failed")
    /\ batch[c] = None <=> handler[c] \in {"header", "failed"}
    /\ batch[c] = None <=> reader[c] = "none"
    /\ batch[c] = None => chunk[c] = <<>> /\ buff[c] = <<>>
    /\ inHand[c] = None <=> handler[c] # "hand"
    /\ chunk[c] # <<>> <=> reader[c] = "push"
    /\ reader[c] = "ended" /\ ~err[c] => todo[c] = 0

\* The messages of the batch in work are in line.
Line(c) ==
    batch[c] # None =>
        /\ batch[c] = Header(c, Now(c)) /\ done[c] < Len(Batches[c])
        /\ todo[c] <= Size(c) /\ Given(c) \in Nat
        /\ \A i \in 1 .. Len(chunk[c]) :
              chunk[c][i] = Message(c, Now(c), Ahead(c) + Len(buff[c]) + i)
        /\ \A i \in 1 .. Len(buff[c]) : buff[c][i] = Message(c, Now(c), Ahead(c) + i)
        /\ handler[c] = "hand" => inHand[c] = Message(c, Now(c), Ahead(c))

\* The messages that are with the pool or processed.
Pooled == Elements(jobs) \cup {thread[t] : t \in Threads} \cup Elements(processed)

\* A message was given to the pool.
Handed(j) ==
    /\ j.conn \in Conns /\ j.batch \in 1 .. Len(Batches[j.conn])
    /\ j.nr \in 1 .. Batches[j.conn][j.batch] /\ j = Message(j.conn, j.batch, j.nr)
    /\ \/ j.batch <= done[j.conn]
       \/ batch[j.conn] # None /\ j.batch = Now(j.conn) /\ j.nr <= Given(j.conn)

\* Every message is at one place of the pool.
Once ==
    /\ Distinct(jobs) /\ Distinct(processed)
    /\ Elements(jobs) \cap Elements(processed) = {}
    /\ \A t \in Threads :
        thread[t] # None =>
            /\ thread[t] \notin Elements(jobs) \cup Elements(processed)
            /\ \A u \in Threads : thread[u] = thread[t] => u = t

\* What was given is in the pool, and what is done is processed.
NothingLost ==
    \A c \in Conns :
        handler[c] # "failed" =>
            /\ \A b \in 1 .. done[c] : \A k \in 1 .. Batches[c][b] :
                  Message(c, b, k) \in Elements(processed)
            /\ batch[c] # None =>
                  \A k \in 1 .. Given(c) : Message(c, Now(c), k) \in Pooled

\* The jobs on their way.
InFlight(c) == {j \in Elements(jobs) \cup {thread[t] : t \in Threads} \cup {inHand[d] : d \in Conns} :
                  j # None /\ j.conn = c}
\* The elements of a set can be numbered from 1 to n.
Counts(n, s) == n \in Nat /\ ExistsBijection(1 .. n, s)
Waiting == \A c \in Conns : Counts(wg[c], InFlight(c))

StreamIInv ==
    /\ Types /\ Len(jobs) <= JobsCap
    /\ \A c \in Conns : Lane(c) /\ Line(c)
    /\ \A j \in Pooled : j # None => Handed(j)
    /\ Once /\ NothingLost /\ Waiting

-----------------------------------------------------------------------------
(* Counting.                                                               *)

\* A leaf that names no prover is for SMT, tried again with more time when it fails.
USE SMTT(30), SMTT(40), SMTT(50)

\* Nothing counts as zero.
LEMMA CountsNothing ==
    ASSUME NEW s
    PROVE  /\ Counts(0, {}) /\ (Counts(0, s) => s = {})
<1>1. 1 .. 0 = {}
  OBVIOUS
<1>2. [i \in {} |-> i] \in Bijection({}, {})
  BY Zenon DEF Bijection, Injection, Surjection, IsInjective
<1>3. ASSUME Counts(0, s) PROVE s = {}
  BY <1>1, <1>3, Zenon DEF Counts, ExistsBijection, Bijection, Surjection
<1>4. QED
  BY <1>1, <1>2, <1>3, Zenon DEF Counts, ExistsBijection

\* One element more is one more.
LEMMA CountsMore ==
    ASSUME NEW n, NEW s, NEW x, Counts(n, s), x \notin s
    PROVE  Counts(n + 1, s \cup {x})
<1>1. n \in Nat
  BY Zenon DEF Counts
<1>2. PICK f \in [1 .. n -> s] :
        /\ \A i, j \in 1 .. n : f[i] = f[j] => i = j
        /\ \A y \in s : \E i \in 1 .. n : f[i] = y
  BY Zenon DEF Counts, ExistsBijection, Bijection, Injection, Surjection, IsInjective
<1> DEFINE g == [i \in 1 .. n + 1 |-> IF i = n + 1 THEN x ELSE f[i]]
<1>3. g \in [1 .. n + 1 -> s \cup {x}]
  BY <1>1
<1>4. /\ g[n + 1] = x /\ \A i \in 1 .. n : g[i] = f[i] /\ f[i] \in s
  BY <1>1
<1> HIDE DEF g
<1>5. ASSUME NEW i \in 1 .. n + 1, NEW j \in 1 .. n + 1, g[i] = g[j] PROVE i = j
  <2>1. (i = n + 1 \/ i \in 1 .. n) /\ (j = n + 1 \/ j \in 1 .. n)
    BY <1>1
  <2>2. QED
    BY <1>2, <1>4, <1>5, <2>1, Zenon
<1>6. ASSUME NEW y \in s \cup {x} PROVE \E i \in 1 .. n + 1 : g[i] = y
  <2>1. n + 1 \in 1 .. n + 1 /\ \A i \in 1 .. n : i \in 1 .. n + 1
    BY <1>1
  <2>2. QED
    BY <1>2, <1>4, <2>1, Zenon
<1>7. g \in Bijection(1 .. n + 1, s \cup {x})
  BY <1>3, <1>5, <1>6, Zenon DEF Bijection, Injection, Surjection, IsInjective
<1>8. QED
  BY <1>1, <1>7 DEF Counts, ExistsBijection

\* One element less is one less.
LEMMA CountsLess ==
    ASSUME NEW n, NEW s, NEW x \in s, Counts(n, s)
    PROVE  Counts(n - 1, s \ {x})
<1>1. n \in Nat
  BY Zenon DEF Counts
<1>2. PICK f \in [1 .. n -> s] :
        /\ \A i, j \in 1 .. n : f[i] = f[j] => i = j
        /\ \A y \in s : \E i \in 1 .. n : f[i] = y
  BY Zenon DEF Counts, ExistsBijection, Bijection, Injection, Surjection, IsInjective
<1>3. PICK m \in 1 .. n : f[m] = x
  BY <1>2, Zenon
<1> DEFINE g == [i \in 1 .. n - 1 |-> IF i = m THEN f[n] ELSE f[i]]
<1>4. n \in 1 .. n /\ n - 1 \in Nat /\ \A i \in 1 .. n - 1 : i \in 1 .. n /\ i # n
  BY <1>1, <1>3
<1>5. \A i \in 1 .. n - 1 : g[i] = IF i = m THEN f[n] ELSE f[i]
  BY Zenon
<1>6. g \in [1 .. n - 1 -> s \ {x}]
  BY <1>2, <1>3, <1>4, Zenon
<1> HIDE DEF g
<1>7. ASSUME NEW i \in 1 .. n - 1, NEW j \in 1 .. n - 1, g[i] = g[j] PROVE i = j
  BY <1>2, <1>4, <1>5, <1>7
<1>8. ASSUME NEW y \in s \ {x} PROVE \E i \in 1 .. n - 1 : g[i] = y
  <2>1. PICK i \in 1 .. n : f[i] = y
    BY <1>2, Zenon
  <2>2. i # m
    BY <1>3, <1>8, <2>1, Zenon
  <2>3. CASE i = n
    <3>1. m \in 1 .. n - 1 /\ g[m] = y
      BY <1>1, <1>5, <2>1, <2>2, <2>3
    <3>2. QED
      BY <3>1, Zenon
  <2>4. CASE i # n
    <3>1. i \in 1 .. n - 1 /\ g[i] = y
      BY <1>1, <1>5, <2>1, <2>2, <2>4
    <3>2. QED
      BY <3>1, Zenon
  <2>5. QED
    BY <2>3, <2>4, Zenon
<1>9. g \in Bijection(1 .. n - 1, s \ {x})
  BY <1>6, <1>7, <1>8, Zenon DEF Bijection, Injection, Surjection, IsInjective
<1>10. QED
  BY <1>4, <1>9, Zenon DEF Counts, ExistsBijection

-----------------------------------------------------------------------------
(* Consecutive units on a connection.                                      *)

\* The batches of a connection have sizes.
LEMMA Sizes ==
    ASSUME StreamAssumption, NEW c \in Conns
    PROVE  /\ Len(Batches[c]) \in Nat
           /\ \A b \in 1 .. Len(Batches[c]) : Batches[c][b] \in Nat
BY DEF StreamAssumption

\* A batch that is not done is one of the batches, and has a size.
LEMMA NowBatch ==
    ASSUME StreamAssumption, NEW c \in Conns, done[c] \in Nat, done[c] < Len(Batches[c])
    PROVE  Now(c) \in 1 .. Len(Batches[c]) /\ Size(c) \in Nat
<1> DEFINE n == done[c]
           m == Len(Batches[c])
<1>1. n \in Nat /\ m \in Nat /\ n < m /\ Now(c) = n + 1
  BY Sizes, Zenon DEF Now
<1> HIDE DEF n, m
<1>2. Now(c) \in 1 .. m
  BY <1>1
<1>3. Now(c) \in 1 .. Len(Batches[c])
  BY <1>2, Zenon DEF m
<1>4. QED
  BY <1>3, Sizes, Zenon DEF Size

\* What is at a place tells the place.
LEMMA PlaceOfUnit ==
    ASSUME StreamAssumption, NEW c \in Conns, NEW p \in Places(c)
    PROVE  /\ AsArray(c, p) \in Units /\ PlaceOf(c, AsArray(c, p)) = p
           /\ p.batch \in 1 .. Len(Batches[c]) /\ Batches[c][p.batch] \in Nat
           /\ p.unit \in 0 .. Batches[c][p.batch] + 1
           /\ p = [batch |-> p.batch, unit |-> p.unit]
           /\ p.unit = 0 => AsArray(c, p) = Header(c, p.batch)
           /\ p.unit \in 1 .. Batches[c][p.batch] => AsArray(c, p) = Message(c, p.batch, p.unit)
           /\ p.unit = Batches[c][p.batch] + 1 => AsArray(c, p) = Signature(c, p.batch)
           /\ p.unit <= Batches[c][p.batch] => After(c, p) = [batch |-> p.batch, unit |-> p.unit + 1]
           /\ p.unit = Batches[c][p.batch] + 1 => After(c, p) = [batch |-> p.batch + 1, unit |-> 0]
<1>1. /\ p.batch \in 1 .. Len(Batches[c]) /\ p.batch \in Nat /\ p.unit \in Nat
      /\ p.unit <= Batches[c][p.batch] + 1 /\ p = [batch |-> p.batch, unit |-> p.unit]
  BY Zenon DEF Places
<1>2. Batches[c][p.batch] \in Nat
  BY <1>1, Sizes, Zenon
<1>3. CASE p.unit = 0
  <2>1. AsArray(c, p) = Header(c, p.batch)
    BY <1>3 DEF AsArray
  <2>2. QED
    BY <1>1, <1>2, <1>3, <2>1 DEF Header, Units, PlaceOf, After
<1>4. CASE p.unit \in 1 .. Batches[c][p.batch]
  <2>1. AsArray(c, p) = Message(c, p.batch, p.unit)
    BY <1>1, <1>2, <1>4 DEF AsArray
  <2>2. QED
    BY <1>1, <1>2, <1>4, <2>1 DEF Message, Units, PlaceOf, After
<1>5. CASE p.unit = Batches[c][p.batch] + 1
  <2>1. AsArray(c, p) = Signature(c, p.batch)
    BY <1>1, <1>2, <1>5 DEF AsArray
  <2>2. QED
    BY <1>1, <1>2, <1>5, <2>1 DEF Signature, Units, PlaceOf, After
<1>6. QED
  BY <1>1, <1>2, <1>3, <1>4, <1>5

\* Behind a unit comes a unit, or nothing more.
LEMMA PlaceAfter ==
    ASSUME StreamAssumption, NEW c \in Conns, NEW p \in Places(c)
    PROVE  After(c, p) \in Places(c) \cup {Over(c)}
<1>1. /\ p.batch \in 1 .. Len(Batches[c]) /\ Batches[c][p.batch] \in Nat /\ Len(Batches[c]) \in Nat
      /\ p.unit \in 0 .. Batches[c][p.batch] + 1
      /\ p.unit <= Batches[c][p.batch] => After(c, p) = [batch |-> p.batch, unit |-> p.unit + 1]
      /\ p.unit = Batches[c][p.batch] + 1 => After(c, p) = [batch |-> p.batch + 1, unit |-> 0]
  BY PlaceOfUnit, Sizes, Zenon
<1>2. CASE p.unit <= Batches[c][p.batch]
  BY <1>1, <1>2 DEF Places
<1>3. CASE p.unit = Batches[c][p.batch] + 1 /\ p.batch + 1 \in 1 .. Len(Batches[c])
  <2>1. Batches[c][p.batch + 1] \in Nat
    BY <1>3, Sizes, Zenon
  <2>2. QED
    BY <1>1, <1>3, <2>1 DEF Places
<1>4. CASE p.unit = Batches[c][p.batch] + 1 /\ p.batch + 1 = Len(Batches[c]) + 1
  BY <1>1, <1>4, Zenon DEF Over
<1>5. QED
  BY <1>1, <1>2, <1>3, <1>4

\* One more unit is written.
LEMMA FlowAppend ==
    ASSUME StreamAssumption, NEW c \in Conns, NEW w, NEW u, Flow(c, w, u),
           u.batch <= Len(Batches[c])
    PROVE  /\ Flow(c, Append(w, AsArray(c, u)), After(c, u))
           /\ At(c, Append(w, AsArray(c, u)), After(c, u), 1) = At(c, w, u, 1)
<1> DEFINE v == Append(w, AsArray(c, u))
           x == After(c, u)
           old(i) == At(c, w, u, i)
           new(i) == At(c, v, x, i)
<1>1. u \in Places(c) /\ w \in Seq(Units) /\ Len(w) \in Nat
  BY Sizes DEF Flow, Over
<1>2. /\ AsArray(c, u) \in Units /\ PlaceOf(c, AsArray(c, u)) = u /\ x \in Places(c) \cup {Over(c)}
      /\ u.batch \in 1 .. Len(Batches[c]) /\ Batches[c][u.batch] \in Nat /\ u.unit \in Nat
      /\ u = [batch |-> u.batch, unit |-> u.unit]
      /\ u.unit <= Batches[c][u.batch] => x = [batch |-> u.batch, unit |-> u.unit + 1]
  BY <1>1, PlaceOfUnit, PlaceAfter
<1>3. /\ v \in Seq(Units) /\ Len(v) = Len(w) + 1 /\ v[Len(w) + 1] = AsArray(c, u)
      /\ \A i \in 1 .. Len(w) : v[i] = w[i]
  BY <1>1, <1>2, Longer
<1> HIDE DEF v, x
<1>4. /\ \A i \in 1 .. Len(w) + 1 : new(i) = old(i)
      /\ old(Len(w) + 1) = u /\ new(Len(w) + 2) = x
  BY <1>1, <1>2, <1>3 DEF At
<1>5. \A i \in 1 .. Len(w) :
        /\ old(i) \in Places(c) /\ w[i] = AsArray(c, old(i)) /\ old(i + 1) = After(c, old(i))
        /\ \A n \in Nat : i + n <= Len(w) + 1 /\ old(i).unit + n <= Batches[c][old(i).batch] + 1 =>
              old(i + n) = [batch |-> old(i).batch, unit |-> old(i).unit + n]
  BY Zenon DEF Flow
<1> HIDE DEF old, new
<1>6. ASSUME NEW i \in 1 .. Len(v)
      PROVE  /\ new(i) \in Places(c) /\ v[i] = AsArray(c, new(i)) /\ new(i + 1) = After(c, new(i))
  <2>1. CASE i \in 1 .. Len(w)
    BY <1>1, <1>3, <1>4, <1>5, <2>1
  <2>2. CASE i = Len(w) + 1
    BY <1>1, <1>3, <1>4, <2>2 DEF x
  <2>3. QED
    BY <1>1, <1>3, <2>1, <2>2
<1>7. ASSUME NEW i \in 1 .. Len(v), NEW n \in Nat, i + n <= Len(v) + 1,
             new(i).unit + n <= Batches[c][new(i).batch] + 1
      PROVE  new(i + n) = [batch |-> new(i).batch, unit |-> new(i).unit + n]
  <2>0. new(i) \in Places(c) /\ new(i).batch \in Nat /\ new(i).unit \in Nat
        /\ new(i) = [batch |-> new(i).batch, unit |-> new(i).unit]
    BY <1>6, Zenon DEF Places
  <2>1. CASE n = 0
    BY <2>0, <2>1
  <2>2. CASE i + n <= Len(w) + 1 /\ n # 0
    <3>1. i \in 1 .. Len(w) /\ i + n \in 1 .. Len(w) + 1 /\ i \in 1 .. Len(w) + 1
      BY <1>1, <1>3, <2>2
    <3>2. new(i) = old(i) /\ new(i + n) = old(i + n)
      BY <1>4, <3>1, Zenon
    <3>3. QED
      BY <1>5, <1>7, <2>2, <3>1, <3>2, Zenon
  <2>3. CASE i + n = Len(w) + 2 /\ i = Len(w) + 1
    <3>1. n = 1 /\ i \in 1 .. Len(w) + 1
      BY <1>1, <2>3
    <3>2. new(i) = u /\ new(i + n) = x
      BY <1>4, <2>3, <3>1, Zenon
    <3>3. u.unit <= Batches[c][u.batch]
      BY <1>2, <1>7, <3>1, <3>2
    <3>4. QED
      BY <1>2, <3>1, <3>2, <3>3, Zenon
  <2>4. CASE i + n = Len(w) + 2 /\ i \in 1 .. Len(w)
    <3>1. n - 1 \in Nat /\ i + (n - 1) = Len(w) + 1 /\ i \in 1 .. Len(w) + 1
      BY <1>1, <2>4
    <3>2. new(i) = old(i)
      BY <1>4, <3>1, Zenon
    <3>3. Batches[c][new(i).batch] \in Nat
      BY <2>0, PlaceOfUnit, Zenon
    <3>4. new(i).unit + (n - 1) <= Batches[c][new(i).batch]
      BY <1>7, <2>0, <3>3
    <3>a. new(i).unit + (n - 1) <= Batches[c][new(i).batch] + 1
      BY <2>0, <3>1, <3>3, <3>4
    <3> old(i).unit + (n - 1) <= Batches[c][old(i).batch] + 1
      BY <3>2, <3>a, Zenon
    <3>5. old(Len(w) + 1) = [batch |-> old(i).batch, unit |-> old(i).unit + (n - 1)]
      <4>1. \A m \in Nat :
              i + m <= Len(w) + 1 /\ old(i).unit + m <= Batches[c][old(i).batch] + 1 =>
                 old(i + m) = [batch |-> old(i).batch, unit |-> old(i).unit + m]
        BY <1>5, <2>4, Zenon
      <4>2. PICK m \in Nat : m = n - 1
        BY <3>1, Zenon
      <4>3. old(i + m) = [batch |-> old(i).batch, unit |-> old(i).unit + m]
        BY <1>1, <3>1, <4>1, <4>2
      <4>4. QED
        BY <3>1, <4>2, <4>3, Zenon
    <3>6. u.batch = new(i).batch /\ u.unit = new(i).unit + (n - 1)
      BY <1>4, <3>2, <3>5
    <3>7. u.unit <= Batches[c][u.batch]
      BY <3>4, <3>6, Zenon
    <3> u.unit + 1 = new(i).unit + n
      BY <2>0, <3>6
    <3>8. QED
      BY <1>2, <1>4, <2>4, <3>6, <3>7, Zenon
  <2>5. QED
    BY <1>1, <1>3, <1>7, <2>1, <2>2, <2>3, <2>4
<1>8. Flow(c, v, x)
  BY <1>2, <1>3, <1>6, <1>7, Zenon DEF Flow, new
<1>9. new(1) = old(1)
  BY <1>1, <1>4
<1>10. QED
  BY <1>8, <1>9, Zenon DEF v, x, old, new

\* v is w without its first k elements.
Remainder(v, w, k) ==
    /\ v \in Seq(Units) /\ k \in 0 .. Len(w) /\ Len(v) = Len(w) - k
    /\ \A i \in 1 .. Len(w) - k : v[i] = w[i + k]

\* The first units are read.
LEMMA FlowRest ==
    ASSUME StreamAssumption, NEW c \in Conns, NEW w, NEW u, Flow(c, w, u),
           NEW v, NEW k, Remainder(v, w, k)
    PROVE  Flow(c, v, u) /\ At(c, v, u, 1) = At(c, w, u, k + 1)
<1>0. /\ v \in Seq(Units) /\ k \in 0 .. Len(w) /\ Len(v) = Len(w) - k
      /\ \A i \in 1 .. Len(w) - k : v[i] = w[i + k]
  BY Zenon DEF Remainder
<1> USE <1>0
<1> DEFINE old(i) == At(c, w, u, i)
           new(i) == At(c, v, u, i)
<1>1. w \in Seq(Units) /\ Len(w) \in Nat /\ k \in Nat /\ u \in Places(c) \cup {Over(c)}
  BY DEF Flow
<1>2. ASSUME NEW i \in 1 .. Len(w) - k + 1 PROVE new(i) = old(i + k)
  <2>1. i \in Int /\ i >= 1
    BY <1>1
  <2>2. CASE i <= Len(w) - k
    <3>1. i <= Len(v) /\ i + k <= Len(w) /\ i \in 1 .. Len(w) - k
      BY <1>1, <2>1, <2>2
    <3>2. v[i] = w[i + k]
      BY <3>1, Zenon
    <3>3. QED
      BY <3>1, <3>2, Zenon DEF At
  <2>3. CASE ~(i <= Len(w) - k)
    <3>1. ~(i <= Len(v)) /\ ~(i + k <= Len(w))
      BY <1>1, <2>1, <2>3
    <3>2. QED
      BY <3>1, Zenon DEF At
  <2>4. QED
    BY <2>2, <2>3, Zenon
<1>3. \A i \in 1 .. Len(w) :
        /\ old(i) \in Places(c) /\ w[i] = AsArray(c, old(i)) /\ old(i + 1) = After(c, old(i))
        /\ \A n \in Nat : i + n <= Len(w) + 1 /\ old(i).unit + n <= Batches[c][old(i).batch] + 1 =>
              old(i + n) = [batch |-> old(i).batch, unit |-> old(i).unit + n]
  BY Zenon DEF Flow
<1> HIDE DEF old, new
<1>4. ASSUME NEW i \in 1 .. Len(v)
      PROVE  /\ new(i) \in Places(c) /\ v[i] = AsArray(c, new(i)) /\ new(i + 1) = After(c, new(i))
             /\ \A n \in Nat : i + n <= Len(v) + 1 /\ new(i).unit + n <= Batches[c][new(i).batch] + 1 =>
                   new(i + n) = [batch |-> new(i).batch, unit |-> new(i).unit + n]
  <2>1. i + k \in 1 .. Len(w) /\ i \in 1 .. Len(w) - k /\ i + 1 \in 1 .. Len(w) - k + 1 /\ i \in Nat
    BY <1>1
  <2>2. new(i) = old(i + k) /\ new(i + 1) = old(i + 1 + k) /\ v[i] = w[i + k]
    BY <1>1, <1>2, <2>1
  <2>3. i + 1 + k = i + k + 1
    BY <1>1, <2>1
  <2>4. ASSUME NEW n \in Nat, i + n <= Len(v) + 1,
               new(i).unit + n <= Batches[c][new(i).batch] + 1
        PROVE  new(i + n) = [batch |-> new(i).batch, unit |-> new(i).unit + n]
    <3>1. i + n \in 1 .. Len(w) - k + 1 /\ i + n + k = i + k + n /\ i + k + n <= Len(w) + 1
      BY <1>1, <2>1, <2>4
    <3>2. new(i + n) = old(i + k + n)
      BY <1>2, <3>1, Zenon
    <3>3. QED
      BY <1>3, <2>1, <2>2, <2>4, <3>1, <3>2, Zenon
  <2>5. QED
    BY <1>3, <2>1, <2>2, <2>3, <2>4, Zenon
<1>5. Flow(c, v, u)
  BY <1>1, <1>4, Zenon DEF Flow, new
<1>6. new(1) = old(k + 1)
  BY <1>1, <1>2
<1>7. QED
  BY <1>5, <1>6, Zenon DEF old, new

-----------------------------------------------------------------------------
(* What a step leaves alone.                                               *)

\* Nothing of a connection changes, but that its peer may close it.
Same(d) ==
    /\ wire'[d] = wire[d] /\ unsent'[d] = unsent[d] /\ (d \in closed => d \in closed')
    /\ handler'[d] = handler[d] /\ batch'[d] = batch[d] /\ inHand'[d] = inHand[d]
    /\ reader'[d] = reader[d] /\ todo'[d] = todo[d] /\ chunk'[d] = chunk[d] /\ buff'[d] = buff[d]
    /\ err'[d] = err[d] /\ done'[d] = done[d]

\* A connection that is left alone keeps its part of the invariant.
LEMMA LaneSame ==
    ASSUME NEW d \in Conns, Lane(d), Line(d), Same(d)
    PROVE  Lane(d)' /\ Line(d)' /\ Given(d)' = Given(d)
<1>1. /\ Now(d)' = Now(d) /\ Size(d)' = Size(d) /\ Expected(d)' = Expected(d)
      /\ Ahead(d)' = Ahead(d) /\ Given(d)' = Given(d)
  BY Zenon DEF Same, Now, Size, Expected, Ahead, Given
<1>2. Lane(d)'
  BY <1>1, Zenon DEF Same, Lane
<1>3. Line(d)'
  BY <1>1, Zenon DEF Same, Line
<1>4. QED
  BY <1>1, <1>2, <1>3, Zenon

\* No batch ends and the pool is given nothing.
Quiet ==
    \A d \in Conns :
        /\ done'[d] = done[d] /\ (handler'[d] # "failed" => handler[d] # "failed")
        /\ batch[d] # None => batch'[d] # None /\ Given(d)' = Given(d)
        /\ batch[d] = None /\ batch'[d] # None => Given(d)' = 0

\* What the pool was given stays given while no batch ends.
LEMMA HandedKept ==
    ASSUME Quiet, NEW j, Handed(j)
    PROVE  Handed(j)'
BY Zenon DEF Quiet, Handed, Now

\* Nothing is lost while no batch ends and the pool keeps what it has.
LEMMA NothingLostKept ==
    ASSUME Quiet, NothingLost, \A m \in Pooled : m # None => m \in Pooled',
           Elements(processed) \subseteq Elements(processed)'
    PROVE  NothingLost'
<1> SUFFICES ASSUME NEW c \in Conns, handler'[c] # "failed"
             PROVE  /\ \A b \in 1 .. done'[c] : \A k \in 1 .. Batches[c][b] :
                          Message(c, b, k) \in Elements(processed)'
                    /\ batch'[c] # None =>
                          \A k \in 1 .. Given(c)' : Message(c, Now(c)', k) \in Pooled'
  BY Zenon DEF NothingLost
<1>1. /\ handler[c] # "failed" /\ done'[c] = done[c] /\ Now(c)' = Now(c)
      /\ batch[c] # None => Given(c)' = Given(c)
      /\ batch[c] = None /\ batch'[c] # None => Given(c)' = 0
  BY Zenon DEF Quiet, Now
<1>2. \A b \in 1 .. done'[c] : \A k \in 1 .. Batches[c][b] : Message(c, b, k) \in Elements(processed)'
  BY <1>1, Zenon DEF NothingLost
<1>3. ASSUME batch'[c] # None, NEW k \in 1 .. Given(c)' PROVE Message(c, Now(c)', k) \in Pooled'
  <2>1. batch[c] # None
    BY <1>1, <1>3
  <2>2. Message(c, Now(c), k) \in Pooled
    BY <1>1, <1>3, <2>1, Zenon DEF NothingLost
  <2>3. Message(c, Now(c), k) # None
    BY Zenon DEF Message, None
  <2>4. QED
    BY <1>1, <2>2, <2>3, Zenon
<1>4. QED
  BY <1>2, <1>3, Zenon

\* Every message stays at one place of the pool when nothing in it moves.
LEMMA OnceKept ==
    ASSUME Once, jobs' = jobs, thread' = thread, processed' = processed
    PROVE  Once'
<1>1. Elements(jobs)' = Elements(jobs) /\ Elements(processed)' = Elements(processed)
  BY Zenon DEF Elements
<1>2. Distinct(jobs)' /\ Distinct(processed)'
  BY Zenon DEF Once, Distinct
<1>3. QED
  BY <1>1, <1>2, Zenon DEF Once

\* The pool keeps its part of the invariant when nothing in it moves.
LEMMA PoolKept ==
    ASSUME StreamIInv, Quiet, jobs' = jobs, thread' = thread, processed' = processed
    PROVE  /\ Len(jobs') <= JobsCap /\ (\A j \in Pooled' : j # None => Handed(j)') /\ Once'
           /\ NothingLost'
<1>1. Pooled' = Pooled /\ Elements(processed)' = Elements(processed)
  BY Zenon DEF Pooled, Elements
<1>2. NothingLost'
  BY <1>1, NothingLostKept, Zenon DEF StreamIInv
<1>3. \A j \in Pooled' : j # None => Handed(j)'
  BY <1>1, HandedKept, Zenon DEF StreamIInv
<1>4. Once'
  BY OnceKept, Zenon DEF StreamIInv
<1>5. QED
  BY <1>2, <1>3, <1>4, Zenon DEF StreamIInv

\* The WaitGroup counts the same jobs when none of them moves.
LEMMA WaitingKept ==
    ASSUME Waiting, jobs' = jobs, thread' = thread, inHand' = inHand, wg' = wg
    PROVE  Waiting'
<1>1. \A c \in Conns : InFlight(c)' = InFlight(c)
  BY Zenon DEF InFlight, Elements
<1>2. QED
  BY <1>1, Zenon DEF Waiting

\* A connection with nothing on it.
LEMMA FlowInit ==
    ASSUME StreamAssumption, NEW c \in Conns
    PROVE  /\ Flow(c, <<>>, [batch |-> 1, unit |-> 0])
           /\ At(c, <<>>, [batch |-> 1, unit |-> 0], 1) = [batch |-> 1, unit |-> 0]
<1>1. Len(Batches[c]) \in Nat /\ (1 \in 1 .. Len(Batches[c]) => Batches[c][1] \in Nat)
  BY Sizes, Zenon
<1>2. [batch |-> 1, unit |-> 0] \in Places(c) \cup {Over(c)}
  BY <1>1 DEF Places, Over
<1>3. <<>> \in Seq(Units) /\ Len(<<>>) = 0
  OBVIOUS
<1>4. QED
  BY <1>2, <1>3 DEF Flow, At

\* Nothing has been sent: every connection expects its first header.
LEMMA StreamInit == ASSUME StreamAssumption, Init PROVE StreamIInv
<1>1. Types
  <2>1. <<>> \in Seq(Units)
    OBVIOUS
  <2>2. /\ wire \in [Conns -> Seq(Units)] /\ chunk \in [Conns -> Seq(Units)]
        /\ buff \in [Conns -> Seq(Units)]
    BY <2>1, Zenon DEF Init, All
  <2>3. /\ jobs \in Seq(Units) /\ processed \in Seq(Units)
        /\ unsent \in [Conns -> [batch : Nat, unit : Nat]]
    BY <2>1, Zenon DEF Init, All
  <2>4. QED
    BY <2>2, <2>3, Zenon DEF Init, Types, All
<1>2. ASSUME NEW c \in Conns PROVE Lane(c) /\ Line(c)
  <2>1. /\ wire[c] = <<>> /\ unsent[c] = [batch |-> 1, unit |-> 0] /\ batch[c] = None
        /\ handler[c] = "header" /\ reader[c] = "none" /\ chunk[c] = <<>> /\ buff[c] = <<>>
        /\ err[c] = FALSE /\ inHand[c] = None /\ done[c] = 0
    BY Zenon DEF Init, All
  <2>2. Len(Batches[c]) \in Nat /\ WireCap \in Nat /\ BuffCap \in Nat
    BY DEF StreamAssumption
  <2>3. Expected(c) = [batch |-> 1, unit |-> 0]
    BY <2>1 DEF Expected, Now
  <2>4. QED
    BY <2>1, <2>2, <2>3, FlowInit DEF Lane, Line
<1>3. Elements(jobs) = {} /\ Elements(processed) = {} /\ \A t \in Threads : thread[t] = None
  BY DEF Init, Elements
<1>4. (\A j \in Pooled : j # None => Handed(j)) /\ Once /\ Len(jobs) <= JobsCap
  BY <1>3 DEF Pooled, Once, Distinct, Init, StreamAssumption
<1>5. NothingLost
  BY DEF NothingLost, Init, All
<1>6. ASSUME NEW c \in Conns PROVE Counts(wg[c], InFlight(c))
  <2>1. \A d \in Conns : inHand[d] = None
    BY Zenon DEF Init, All
  <2>2. InFlight(c) = {}
    BY <1>3, <2>1, Zenon DEF InFlight
  <2>3. wg[c] = 0
    BY Zenon DEF Init, All
  <2>4. QED
    BY <2>2, <2>3, CountsNothing, Zenon
<1>7. QED
  BY <1>1, <1>2, <1>4, <1>5, <1>6, Zenon DEF StreamIInv, Waiting

-----------------------------------------------------------------------------
(* The steps of a connection.                                              *)

\* A step that concerns one connection and leaves the pool alone.
LEMMA LaneStep ==
    ASSUME StreamIInv, Types', NEW c \in Conns, \A d \in Conns \ {c} : Same(d),
           Lane(c)', Line(c)', done'[c] = done[c],
           handler'[c] # "failed" => handler[c] # "failed",
           batch[c] # None => batch'[c] # None /\ Given(c)' = Given(c),
           batch[c] = None /\ batch'[c] # None => Given(c)' = 0,
           jobs' = jobs, thread' = thread, processed' = processed, Waiting'
    PROVE  StreamIInv'
<1>1. \A d \in Conns \ {c} : Lane(d)' /\ Line(d)' /\ Given(d)' = Given(d)
  BY LaneSame, Zenon DEF StreamIInv
<1>2. \A d \in Conns : Lane(d)' /\ Line(d)'
  BY <1>1, Zenon
<1>3. Quiet
  BY <1>1, Zenon DEF Quiet, Same
<1>4. QED
  BY <1>2, <1>3, PoolKept, Zenon DEF StreamIInv

\* send: the peer writes the unit that comes next.
LEMMA SendStep ==
    ASSUME StreamAssumption, StreamIInv, NEW c \in Conns, Send(c)
    PROVE  StreamIInv'
<1>1. Types /\ Lane(c) /\ Line(c) /\ Waiting
  BY Zenon DEF StreamIInv
<1>2. /\ wire' = [wire EXCEPT ![c] = Append(wire[c], AsArray(c, unsent[c]))]
      /\ unsent' = [unsent EXCEPT ![c] = After(c, unsent[c])]
      /\ unsent[c].batch <= Len(Batches[c]) /\ Len(wire[c]) < WireCap
      /\ closed' = closed /\ handler' = handler /\ batch' = batch /\ inHand' = inHand
      /\ reader' = reader /\ todo' = todo /\ chunk' = chunk /\ buff' = buff /\ err' = err
      /\ wg' = wg /\ jobs' = jobs /\ thread' = thread /\ processed' = processed /\ done' = done
      /\ panicked' = panicked
  BY Zenon DEF Send, stream, pool
<1>3. /\ Flow(c, Append(wire[c], AsArray(c, unsent[c])), After(c, unsent[c]))
      /\ At(c, Append(wire[c], AsArray(c, unsent[c])), After(c, unsent[c]), 1)
            = At(c, wire[c], unsent[c], 1)
  BY <1>1, <1>2, FlowAppend, Zenon DEF Lane
<1>4. wire'[c] = Append(wire[c], AsArray(c, unsent[c])) /\ unsent'[c] = After(c, unsent[c])
  BY <1>1, <1>2, Zenon DEF Types
<1>5. unsent[c] \in Places(c) /\ AsArray(c, unsent[c]) \in Units
  <2>1. unsent[c] \in Places(c)
    BY <1>1, <1>2, Sizes DEF Lane, Flow, Over
  <2>2. QED
    BY <2>1, PlaceOfUnit, Zenon
<1>6. wire'[c] \in Seq(Units) /\ Len(wire'[c]) <= WireCap /\ unsent'[c] \in [batch : Nat, unit : Nat]
  <2>1. wire[c] \in Seq(Units) /\ WireCap \in Nat
    BY <1>1, Zenon DEF Types, StreamAssumption
  <2>2. wire'[c] \in Seq(Units) /\ Len(wire'[c]) = Len(wire[c]) + 1 /\ Len(wire[c]) \in Nat
    BY <1>4, <1>5, <2>1, Longer
  <2>3. unsent'[c] \in Places(c) \cup {Over(c)} /\ Len(Batches[c]) \in Nat
    BY <1>4, <1>5, PlaceAfter, Sizes, Zenon
  <2>4. unsent'[c] \in [batch : Nat, unit : Nat]
    BY <2>3 DEF Places, Over
  <2>5. QED
    BY <1>2, <2>1, <2>2, <2>4
<1>7. Types'
  BY <1>1, <1>2, <1>4, <1>6, Zenon DEF Types
<1>8. Lane(c)'
  <2>1. Expected(c)' = Expected(c)
    BY <1>2, Zenon DEF Expected, Now, Size
  <2>2. QED
    BY <1>1, <1>2, <1>3, <1>4, <1>6, <2>1, Zenon DEF Lane
<1>9. Line(c)' /\ Given(c)' = Given(c)
  BY <1>1, <1>2, Zenon DEF Line, Given, Ahead, Size, Now
<1>10. \A d \in Conns \ {c} : Same(d)
  BY <1>1, <1>2, Zenon DEF Same, Types
<1>11. Waiting'
  BY <1>1, <1>2, WaitingKept, Zenon
<1>12. QED
  BY <1>2, <1>7, <1>8, <1>9, <1>10, <1>11, LaneStep, Zenon

\* The peer closes a connection; what is on it stays there.
LEMMA CloseStep ==
    ASSUME StreamIInv, NEW c \in Conns, Close(c)
    PROVE  StreamIInv'
<1>1. Types /\ Lane(c) /\ Line(c) /\ Waiting
  BY Zenon DEF StreamIInv
<1>2. /\ closed' = closed \cup {c}
      /\ unsent' = unsent /\ wire' = wire /\ handler' = handler /\ batch' = batch
      /\ inHand' = inHand /\ reader' = reader /\ todo' = todo /\ chunk' = chunk /\ buff' = buff
      /\ err' = err /\ wg' = wg /\ jobs' = jobs /\ thread' = thread /\ processed' = processed
      /\ done' = done /\ panicked' = panicked
  BY Zenon DEF Close, stream, pool
<1>3. Types'
  BY <1>1, <1>2, Zenon DEF Types
<1>4. \A d \in Conns : Same(d)
  BY <1>2, Zenon DEF Same
<1>5. Lane(c)' /\ Line(c)' /\ Given(c)' = Given(c)
  BY <1>1, <1>4, LaneSame, Zenon
<1>6. Waiting'
  BY <1>1, <1>2, WaitingKept, Zenon
<1>7. QED
  BY <1>2, <1>3, <1>4, <1>5, <1>6, LaneStep, Zenon

\* The error handler changes nothing but that the process stops.
LEMMA ErrorStep ==
    ASSUME StreamIInv, NEW c \in Conns, ErrorHandler(c)
    PROVE  StreamIInv'
<1>1. Types /\ Lane(c) /\ Line(c) /\ Waiting
  BY Zenon DEF StreamIInv
<1>2. /\ closed' = closed /\ panicked' = TRUE
      /\ unsent' = unsent /\ wire' = wire /\ handler' = handler /\ batch' = batch
      /\ inHand' = inHand /\ reader' = reader /\ todo' = todo /\ chunk' = chunk /\ buff' = buff
      /\ err' = err /\ wg' = wg /\ jobs' = jobs /\ thread' = thread /\ processed' = processed
      /\ done' = done
  BY Zenon DEF ErrorHandler, stream, pool, peer
<1>3. Types'
  BY <1>1, <1>2, Zenon DEF Types
<1>4. \A d \in Conns : Same(d)
  BY <1>2, Zenon DEF Same
<1>5. Lane(c)' /\ Line(c)' /\ Given(c)' = Given(c)
  BY <1>1, <1>4, LaneSame, Zenon
<1>6. Waiting'
  BY <1>1, <1>2, WaitingKept, Zenon
<1>7. QED
  BY <1>2, <1>3, <1>4, <1>5, <1>6, LaneStep, Zenon

\* The units in front of a connection are read: what is left and the place of the first of it.
LEMMA ReadTail ==
    ASSUME StreamAssumption, NEW c \in Conns, NEW w, NEW u, Flow(c, w, u), w # <<>>
    PROVE  /\ Tail(w) \in Seq(Units) /\ Len(Tail(w)) <= Len(w) /\ Flow(c, Tail(w), u)
           /\ At(c, w, u, 1) \in Places(c) /\ Head(w) = AsArray(c, At(c, w, u, 1))
           /\ At(c, Tail(w), u, 1) = After(c, At(c, w, u, 1))
<1>1. w \in Seq(Units)
  BY Zenon DEF Flow
<1>2. /\ Tail(w) \in Seq(Units) /\ Len(Tail(w)) = Len(w) - 1 /\ Len(w) \in Nat \ {0}
      /\ Head(w) = w[1] /\ \A i \in 1 .. Len(w) - 1 : Tail(w)[i] = w[i + 1]
  BY <1>1, Rest, Zenon
<1>3. 1 \in 0 .. Len(w) /\ 1 \in 1 .. Len(w) /\ 1 + 1 = 2
  BY <1>2
<1>4. Flow(c, Tail(w), u) /\ At(c, Tail(w), u, 1) = At(c, w, u, 1 + 1)
  <2> DEFINE v == Tail(w)
  <2>1. v \in Seq(Units) /\ Len(v) = Len(w) - 1 /\ \A i \in 1 .. Len(w) - 1 : v[i] = w[i + 1]
    BY <1>2, Zenon
  <2> HIDE DEF v
  <2>2. Flow(c, v, u) /\ At(c, v, u, 1) = At(c, w, u, 1 + 1)
    <3>1. Remainder(v, w, 1)
      BY <1>3, <2>1 DEF Remainder
    <3>2. QED
      BY <3>1, FlowRest, Zenon
  <2>3. QED
    BY <2>2, Zenon DEF v
<1>5. /\ At(c, w, u, 1) \in Places(c) /\ w[1] = AsArray(c, At(c, w, u, 1))
      /\ At(c, w, u, 1 + 1) = After(c, At(c, w, u, 1))
  BY <1>3, Zenon DEF Flow
<1>6. QED
  BY <1>2, <1>4, <1>5

\* ReadMetadata: the unit a handler reads between two batches is the next header.
LEMMA ReadMetadataStep ==
    ASSUME StreamAssumption, StreamIInv, NEW c \in Conns, ReadMetadata(c)
    PROVE  StreamIInv'
<1>1. Types /\ Lane(c) /\ Line(c) /\ Waiting
  BY Zenon DEF StreamIInv
<1>2. /\ handler[c] = "header" /\ wire[c] # <<>>
      /\ batch' = [batch EXCEPT ![c] = Head(wire[c])] /\ wire' = [wire EXCEPT ![c] = Tail(wire[c])]
      /\ handler' = [handler EXCEPT ![c] = "stream"] /\ reader' = [reader EXCEPT ![c] = "read"]
      /\ todo' = [todo EXCEPT ![c] = Head(wire[c]).nr] /\ err' = [err EXCEPT ![c] = FALSE]
      /\ unsent' = unsent /\ closed' = closed /\ chunk' = chunk /\ buff' = buff
      /\ inHand' = inHand /\ wg' = wg /\ jobs' = jobs /\ thread' = thread
      /\ processed' = processed /\ done' = done /\ panicked' = panicked
  BY Zenon DEF ReadMetadata, Set, peer, pool
<1>3. /\ batch[c] = None /\ chunk[c] = <<>> /\ buff[c] = <<>> /\ ~err[c] /\ inHand[c] = None
      /\ done[c] \in Nat /\ Flow(c, wire[c], unsent[c])
      /\ At(c, wire[c], unsent[c], 1) = [batch |-> Now(c), unit |-> 0]
  BY <1>1, <1>2, Zenon DEF Lane, Expected, Types
<1>4. /\ Tail(wire[c]) \in Seq(Units) /\ Len(Tail(wire[c])) <= Len(wire[c])
      /\ Flow(c, Tail(wire[c]), unsent[c])
      /\ [batch |-> Now(c), unit |-> 0] \in Places(c)
      /\ Head(wire[c]) = AsArray(c, [batch |-> Now(c), unit |-> 0])
      /\ At(c, Tail(wire[c]), unsent[c], 1) = After(c, [batch |-> Now(c), unit |-> 0])
  BY <1>2, <1>3, ReadTail, Zenon
<1>5. /\ Head(wire[c]) = Header(c, Now(c)) /\ Head(wire[c]) \in Units
      /\ Now(c) \in 1 .. Len(Batches[c]) /\ Batches[c][Now(c)] \in Nat
      /\ At(c, Tail(wire[c]), unsent[c], 1) = [batch |-> Now(c), unit |-> 1]
  <2> DEFINE p == [batch |-> Now(c), unit |-> 0]
  <2>1. p.batch = Now(c) /\ p.unit = 0
    BY Zenon
  <2> HIDE DEF p
  <2>2. /\ AsArray(c, p) \in Units /\ p.batch \in 1 .. Len(Batches[c]) /\ Batches[c][p.batch] \in Nat
        /\ AsArray(c, p) = Header(c, p.batch)
        /\ After(c, p) = [batch |-> p.batch, unit |-> p.unit + 1]
    <3>1. p \in Places(c)
      BY <1>4, Zenon DEF p
    <3>2. QED
      BY <2>1, <3>1, PlaceOfUnit
  <2>3. Head(wire[c]) = AsArray(c, p) /\ At(c, Tail(wire[c]), unsent[c], 1) = After(c, p)
    BY <1>4, Zenon DEF p
  <2>4. QED
    BY <2>1, <2>2, <2>3
<1>6. Head(wire[c]).nr = Batches[c][Now(c)] /\ Head(wire[c]) # None
  BY <1>5 DEF Header, None
<1>7. /\ batch'[c] = Header(c, Now(c)) /\ batch'[c] # None /\ wire'[c] = Tail(wire[c])
      /\ handler'[c] = "stream" /\ reader'[c] = "read" /\ todo'[c] = Batches[c][Now(c)]
      /\ err'[c] = FALSE /\ done'[c] = done[c] /\ Now(c)' = Now(c)
  BY <1>1, <1>2, <1>5, <1>6, Zenon DEF Types, Now
<1>8. Types'
  BY <1>1, <1>2, <1>4, <1>5, <1>6, Zenon DEF Types
<1>9. /\ Size(c)' = Batches[c][Now(c)] /\ Ahead(c)' = 0 /\ Given(c)' = 0
      /\ Expected(c)' = [batch |-> Now(c), unit |-> 1]
  BY <1>2, <1>3, <1>5, <1>7 DEF Size, Ahead, Given, Expected
<1>10. Lane(c)'
  <2>1. Len(wire'[c]) <= WireCap
    <3>1. Len(wire[c]) \in Nat /\ Len(Tail(wire[c])) \in Nat /\ WireCap \in Nat
      BY <1>1, <1>4 DEF Types, StreamAssumption
    <3>2. QED
      BY <1>1, <1>4, <1>7, <3>1 DEF Lane
  <2>2. QED
    BY <1>1, <1>2, <1>3, <1>4, <1>5, <1>7, <1>9, <2>1, Zenon DEF Lane
<1>11. Line(c)'
  BY <1>2, <1>3, <1>5, <1>7, <1>9 DEF Line, Now
<1>12. \A d \in Conns \ {c} : Same(d)
  BY <1>1, <1>2, Zenon DEF Same, Types
<1>13. Waiting'
  BY <1>1, <1>2, WaitingKept, Zenon
<1>14. QED
  BY <1>2, <1>3, <1>7, <1>8, <1>9, <1>10, <1>11, <1>12, <1>13, LaneStep, Zenon

\* ContinuousReader: a short read happens only on a closed connection.
LEMMA ReadFailsStep ==
    ASSUME StreamIInv, NEW c \in Conns, ReadFails(c)
    PROVE  StreamIInv'
<1>1. Types /\ Lane(c) /\ Line(c) /\ Waiting
  BY Zenon DEF StreamIInv
<1>2. /\ reader[c] = "read" /\ c \in closed
      /\ err' = [err EXCEPT ![c] = TRUE] /\ reader' = [reader EXCEPT ![c] = "ended"]
      /\ wire' = wire /\ handler' = handler /\ batch' = batch /\ todo' = todo
      /\ unsent' = unsent /\ closed' = closed /\ chunk' = chunk /\ buff' = buff
      /\ inHand' = inHand /\ wg' = wg /\ jobs' = jobs /\ thread' = thread
      /\ processed' = processed /\ done' = done /\ panicked' = panicked
  BY Zenon DEF ReadFails, Set, Ended, peer, pool
<1>3. err'[c] = TRUE /\ reader'[c] = "ended"
  BY <1>1, <1>2, Zenon DEF Types
<1>4. Types'
  BY <1>1, <1>2, Zenon DEF Types
<1>5. Line(c)' /\ Given(c)' = Given(c)
  BY <1>1, <1>2, Zenon DEF Line, Given, Ahead, Size, Now
<1>6. Lane(c)'
  BY <1>1, <1>2, <1>3, Zenon DEF Lane
<1>7. \A d \in Conns \ {c} : Same(d)
  BY <1>1, <1>2, Zenon DEF Same, Types
<1>8. Waiting'
  BY <1>1, <1>2, WaitingKept, Zenon
<1>9. QED
  BY <1>2, <1>4, <1>5, <1>6, <1>7, <1>8, LaneStep, Zenon

\* ContinuousReader: behind the last message comes the signature of the batch.
LEMMA ReadSignatureStep ==
    ASSUME StreamAssumption, StreamIInv, NEW c \in Conns, ReadSignature(c)
    PROVE  StreamIInv'
<1>1. Types /\ Lane(c) /\ Line(c) /\ Waiting
  BY Zenon DEF StreamIInv
<1>2. /\ reader[c] = "read" /\ todo[c] = 0
      /\ reader' = [reader EXCEPT ![c] = "ended"]
      /\ handler' = handler /\ batch' = batch /\ todo' = todo
      /\ unsent' = unsent /\ closed' = closed /\ chunk' = chunk /\ buff' = buff
      /\ inHand' = inHand /\ wg' = wg /\ jobs' = jobs /\ thread' = thread
      /\ processed' = processed /\ done' = done /\ panicked' = panicked
  BY Zenon DEF ReadSignature, Set, Ended, peer, pool
<1>3. /\ batch[c] # None /\ batch[c] = Header(c, Now(c)) /\ ~err[c] /\ handler[c] # "failed"
      /\ Flow(c, wire[c], unsent[c]) /\ done[c] \in Nat /\ done[c] < Len(Batches[c])
      /\ chunk[c] = <<>>
  BY <1>1, <1>2, Zenon DEF Lane, Line, Types
<1>4. Size(c) \in Nat /\ Now(c) \in 1 .. Len(Batches[c]) /\ Now(c) \in Nat
  <2>1. Size(c) \in Nat /\ Now(c) \in 1 .. Len(Batches[c])
    BY <1>3, NowBatch, Zenon
  <2>2. QED
    BY <2>1, Sizes
<1>5. At(c, wire[c], unsent[c], 1) = [batch |-> Now(c), unit |-> Size(c) + 1]
  <2>1. At(c, wire[c], unsent[c], 1) = [batch |-> Now(c), unit |-> Size(c) - todo[c] + 1]
    BY <1>1, <1>2, <1>3, Zenon DEF Lane, Expected
  <2>2. Size(c) - todo[c] + 1 = Size(c) + 1
    BY <1>2, <1>4
  <2>3. QED
    BY <2>1, <2>2, Zenon
<1>6. CASE /\ wire[c] # <<>> /\ wire' = [wire EXCEPT ![c] = Tail(wire[c])]
           /\ err' = [err EXCEPT ![c] = Head(wire[c]) # Signature(c, batch[c].batch)]
  <2> DEFINE p == [batch |-> Now(c), unit |-> Size(c) + 1]
  <2>1. p.batch = Now(c) /\ p.unit = Batches[c][p.batch] + 1
    BY Zenon DEF Size
  <2>2. /\ Tail(wire[c]) \in Seq(Units) /\ Len(Tail(wire[c])) <= Len(wire[c])
        /\ Flow(c, Tail(wire[c]), unsent[c]) /\ p \in Places(c) /\ Head(wire[c]) = AsArray(c, p)
        /\ At(c, Tail(wire[c]), unsent[c], 1) = After(c, p)
    BY <1>3, <1>5, <1>6, ReadTail, Zenon
  <2> HIDE DEF p
  <2>3. AsArray(c, p) = Signature(c, p.batch) /\ After(c, p) = [batch |-> p.batch + 1, unit |-> 0]
    BY <2>1, <2>2, PlaceOfUnit, Zenon
  <2>4. Head(wire[c]) = Signature(c, batch[c].batch)
    BY <1>3, <2>1, <2>2, <2>3 DEF Header
  <2>5. wire'[c] = Tail(wire[c]) /\ ~err'[c] /\ reader'[c] = "ended"
    BY <1>1, <1>2, <1>6, <2>4, Zenon DEF Types
  <2>6. Types'
    BY <1>1, <1>2, <1>6, <2>2, <2>4, Zenon DEF Types
  <2>7. Line(c)' /\ Given(c)' = Given(c) /\ Now(c)' = Now(c)
    BY <1>1, <1>2, Zenon DEF Line, Given, Ahead, Size, Now
  <2>8. Expected(c)' = [batch |-> Now(c) + 1, unit |-> 0]
    BY <1>2, <1>3, <2>5, <2>7, Zenon DEF Expected
  <2>9. Len(wire'[c]) <= WireCap
    <3>1. Len(wire[c]) \in Nat /\ Len(Tail(wire[c])) \in Nat /\ WireCap \in Nat
      BY <1>1, <2>2 DEF Types, StreamAssumption
    <3>2. QED
      BY <1>1, <2>2, <2>5, <3>1 DEF Lane
  <2>10. At(c, wire'[c], unsent'[c], 1) = Expected(c)'
    BY <1>2, <2>1, <2>2, <2>3, <2>5, <2>8, Zenon
  <2>11. Lane(c)'
    BY <1>1, <1>2, <1>3, <2>2, <2>5, <2>9, <2>10, Zenon DEF Lane
  <2>12. \A d \in Conns \ {c} : Same(d)
    BY <1>1, <1>2, <1>6, Zenon DEF Same, Types
  <2>13. Waiting'
    BY <1>1, <1>2, WaitingKept, Zenon
  <2>14. QED
    BY <1>2, <1>3, <2>6, <2>7, <2>11, <2>12, <2>13, LaneStep, Zenon
<1>7. CASE c \in closed /\ err' = [err EXCEPT ![c] = TRUE] /\ wire' = wire
  <2>1. err'[c] = TRUE /\ reader'[c] = "ended"
    BY <1>1, <1>2, <1>7, Zenon DEF Types
  <2>2. Types'
    BY <1>1, <1>2, <1>7, Zenon DEF Types
  <2>3. Line(c)' /\ Given(c)' = Given(c)
    BY <1>1, <1>2, Zenon DEF Line, Given, Ahead, Size, Now
  <2>4. Lane(c)'
    BY <1>1, <1>2, <1>7, <2>1, Zenon DEF Lane
  <2>5. \A d \in Conns \ {c} : Same(d)
    BY <1>1, <1>2, <1>7, Zenon DEF Same, Types
  <2>6. Waiting'
    BY <1>1, <1>2, WaitingKept, Zenon
  <2>7. QED
    BY <1>2, <1>3, <2>2, <2>3, <2>4, <2>5, <2>6, LaneStep, Zenon
<1>8. QED
  BY <1>6, <1>7, Zenon DEF ReadSignature, Set

\* Reading n units leaves the rest and yields messages x + 1 .. x + n of batch b.
Cut(c, w, u, b, x, n) ==
    \A v, s : v = SubSeq(w, n + 1, Len(w)) /\ s = SubSeq(w, 1, n) =>
        /\ v \in Seq(Units) /\ Len(v) <= Len(w) /\ Flow(c, v, u)
        /\ At(c, v, u, 1) = [batch |-> b, unit |-> x + n + 1]
        /\ s \in Seq(Units) /\ Len(s) = n
        /\ \A i \in 1 .. n : s[i] = Message(c, b, x + i)

\* The messages of a part are the next ones of the batch.
LEMMA ReadMessages ==
    ASSUME StreamAssumption, NEW c \in Conns, NEW w, NEW u, Flow(c, w, u),
           NEW b, NEW x \in Nat, NEW n \in 1 .. Len(w),
           At(c, w, u, 1) = [batch |-> b, unit |-> x + 1], x + n <= Batches[c][b]
    PROVE  Cut(c, w, u, b, x, n)
<1> DEFINE v == SubSeq(w, n + 1, Len(w))
           s == SubSeq(w, 1, n)
           p(i) == At(c, w, u, i)
<1>1. w \in Seq(Units) /\ Len(w) \in Nat /\ n \in Nat /\ 1 \in 1 .. Len(w) /\ n \in 0 .. Len(w)
  BY DEF Flow
<1>2. /\ v \in Seq(Units) /\ Len(v) = Len(w) - n
      /\ \A i \in 1 .. Len(w) - n : v[i] = w[i + n]
      /\ s \in Seq(Units) /\ Len(s) = n /\ \A i \in 1 .. n : s[i] = w[i]
  BY <1>1
<1>3. Flow(c, v, u) /\ At(c, v, u, 1) = p(n + 1)
  <2> HIDE DEF v
  <2>1. Remainder(v, w, n)
    BY <1>1, <1>2, Zenon DEF Remainder
  <2>2. QED
    BY <2>1, FlowRest, Zenon
<1>4. \A i \in 1 .. Len(w) : p(i) \in Places(c) /\ w[i] = AsArray(c, p(i))
  BY Zenon DEF Flow
<1>5. \A m \in Nat : 1 + m <= Len(w) + 1 /\ p(1).unit + m <= Batches[c][p(1).batch] + 1 =>
         p(1 + m) = [batch |-> p(1).batch, unit |-> p(1).unit + m]
  BY <1>1, Zenon DEF Flow
<1>6. p(1).batch = b /\ p(1).unit = x + 1
  OBVIOUS
<1> HIDE DEF v, s, p
<1>7. Batches[c][b] \in Nat
  BY <1>1, <1>4, <1>6, PlaceOfUnit, Zenon
<1>8. \A m \in 0 .. n : p(1 + m) = [batch |-> b, unit |-> x + 1 + m]
  <2> SUFFICES ASSUME NEW m \in 0 .. n PROVE p(1 + m) = [batch |-> b, unit |-> x + 1 + m]
    BY Zenon
  <2>1. m \in Nat /\ 1 + m <= Len(w) + 1 /\ m <= n
    BY <1>1
  <2>2. x + 1 + m <= Batches[c][b] + 1
    BY <1>1, <1>7, <2>1
  <2>3. QED
    BY <1>5, <1>6, <2>1, <2>2, Zenon
<1>9. p(n + 1) = [batch |-> b, unit |-> x + n + 1]
  <2>1. p(1 + n) = [batch |-> b, unit |-> x + 1 + n]
    BY <1>1, <1>8
  <2>2. 1 + n = n + 1 /\ x + 1 + n = x + n + 1
    BY <1>1
  <2>3. QED
    BY <2>1, <2>2, Zenon
<1>10. ASSUME NEW i \in 1 .. n PROVE s[i] = Message(c, b, x + i)
  <2>0. i - 1 \in 0 .. n /\ 1 + (i - 1) = i /\ x + 1 + (i - 1) = x + i /\ i \in 1 .. Len(w)
    BY <1>1
  <2>1. x + i \in 1 .. Batches[c][b]
    BY <1>1, <1>7
  <2>2. p(i) = [batch |-> b, unit |-> x + i]
    <3>1. p(1 + (i - 1)) = [batch |-> b, unit |-> x + 1 + (i - 1)]
      BY <1>8, <2>0, Zenon
    <3>2. QED
      BY <2>0, <3>1, Zenon
  <2>3. p(i) \in Places(c) /\ w[i] = AsArray(c, p(i)) /\ s[i] = w[i]
    BY <1>2, <1>4, <2>0, Zenon
  <2>4. p(i).batch = b /\ p(i).unit = x + i
    BY <2>2
  <2>5. AsArray(c, p(i)) = Message(c, p(i).batch, p(i).unit)
    BY <2>1, <2>3, <2>4, PlaceOfUnit, Zenon
  <2>6. QED
    BY <2>3, <2>4, <2>5, Zenon
<1>11. Len(v) <= Len(w)
  BY <1>1, <1>2
<1>12. QED
  BY <1>2, <1>3, <1>9, <1>10, <1>11, Zenon DEF v, s, Cut

\* ContinuousReader: a part of the batch is read from the messages that are next.
LEMMA ReadPartStep ==
    ASSUME StreamAssumption, StreamIInv, NEW c \in Conns, ReadPart(c)
    PROVE  StreamIInv'
<1> DEFINE n == Part(todo[c])
           v == SubSeq(wire[c], n + 1, Len(wire[c]))
           s == SubSeq(wire[c], 1, n)
           x == Size(c) - todo[c]
           y == todo[c] - n
<1>1. Types /\ Lane(c) /\ Line(c) /\ Waiting
  BY Zenon DEF StreamIInv
<1>2. /\ reader[c] = "read" /\ todo[c] > 0 /\ Len(wire[c]) >= n
      /\ chunk' = [chunk EXCEPT ![c] = s] /\ wire' = [wire EXCEPT ![c] = v]
      /\ todo' = [todo EXCEPT ![c] = IF todo[c] < n THEN 0 ELSE todo[c] - n]
      /\ reader' = [reader EXCEPT ![c] = "push"]
      /\ unsent' = unsent /\ closed' = closed /\ handler' = handler /\ batch' = batch
      /\ buff' = buff /\ err' = err /\ inHand' = inHand /\ wg' = wg /\ jobs' = jobs
      /\ thread' = thread /\ processed' = processed /\ done' = done /\ panicked' = panicked
  BY Zenon DEF ReadPart, Set, peer, pool
<1>3. /\ batch[c] # None /\ ~err[c] /\ handler[c] # "failed" /\ chunk[c] = <<>>
      /\ Flow(c, wire[c], unsent[c]) /\ done[c] \in Nat /\ done[c] < Len(Batches[c])
      /\ todo[c] \in Nat /\ todo[c] <= Size(c) /\ Len(chunk[c]) = 0
  BY <1>1, <1>2, Zenon DEF Lane, Line, Types
<1>4. Size(c) \in Nat /\ x \in Nat
  <2>2. Size(c) \in Nat
    BY <1>3, NowBatch, Zenon
  <2>3. QED
    BY <1>3, <2>2
<1>5. n \in 1 .. todo[c] /\ n \in Nat /\ ~(todo[c] < n) /\ y \in Nat /\ x + n = Size(c) - y
      /\ x + n <= Size(c)
  <2> DEFINE k == todo[c]
             z == Size(c)
  <2>1. k \in Nat /\ k > 0 /\ z \in Nat /\ k <= z /\ BaseBatchSize \in Nat \ {0}
        /\ n = (IF k < BaseBatchSize THEN k ELSE BaseBatchSize) /\ x = z - k /\ y = k - n
    BY <1>2, <1>3, <1>4, Zenon DEF Part, StreamAssumption
  <2> HIDE DEF n, x, y, k, z
  <2>2. n \in 1 .. k /\ n \in Nat /\ ~(k < n) /\ y \in Nat /\ x + n = z - y /\ x + n <= z
    BY <2>1
  <2>3. QED
    BY <2>2, Zenon DEF k, z
<1>6. n \in 1 .. Len(wire[c])
  BY <1>1, <1>2, <1>5 DEF Types
<1>7. At(c, wire[c], unsent[c], 1) = [batch |-> Now(c), unit |-> x + 1]
  BY <1>1, <1>2, <1>3, Zenon DEF Lane, Expected
<1> HIDE DEF n, x
<1>8. /\ v \in Seq(Units) /\ Len(v) <= Len(wire[c]) /\ Flow(c, v, unsent[c])
      /\ At(c, v, unsent[c], 1) = [batch |-> Now(c), unit |-> x + n + 1]
      /\ s \in Seq(Units) /\ Len(s) = n
      /\ \A i \in 1 .. n : s[i] = Message(c, Now(c), x + i)
  <2>1. x + n <= Batches[c][Now(c)]
    BY <1>5, Zenon DEF Size
  <2>2. QED
    <3>1. Cut(c, wire[c], unsent[c], Now(c), x, n)
      BY <1>3, <1>4, <1>6, <1>7, <2>1, ReadMessages, Zenon
    <3>2. QED
      BY <3>1, Zenon DEF Cut
<1> HIDE DEF v, s, y
<1>9. /\ todo' = [todo EXCEPT ![c] = y] /\ todo'[c] = y /\ chunk'[c] = s /\ wire'[c] = v
      /\ reader'[c] = "push"
  BY <1>1, <1>2, <1>5, Zenon DEF Types, y
<1>10. Types'
  BY <1>1, <1>2, <1>5, <1>8, <1>9, Zenon DEF Types
<1>11. /\ Now(c)' = Now(c) /\ Size(c)' = Size(c) /\ Ahead(c)' = Ahead(c) /\ Given(c)' = Given(c)
       /\ Ahead(c) + Len(buff[c]) = x
       /\ Expected(c)' = [batch |-> Now(c), unit |-> x + n + 1]
  <2>1. Now(c)' = Now(c) /\ Size(c)' = Size(c) /\ Len(buff[c]) \in Nat
    BY <1>1, <1>2 DEF Now, Size, Types
  <2>2. Ahead(c) = x - Len(buff[c])
    BY <1>3, <1>4, <2>1 DEF Ahead, x
  <2>3. Ahead(c)' = Size(c) - y - n - Len(buff[c])
    BY <1>2, <1>8, <1>9, <2>1, Zenon DEF Ahead
  <2>4. Ahead(c)' = Ahead(c)
    BY <1>4, <1>5, <2>1, <2>2, <2>3
  <2>5. Given(c)' = Given(c)
    BY <1>2, <2>4, Zenon DEF Given
  <2>6. Expected(c)' = [batch |-> Now(c), unit |-> Size(c) - y + 1]
    BY <1>2, <1>3, <1>9, <2>1, Zenon DEF Expected
  <2>7. QED
    BY <1>4, <1>5, <2>1, <2>2, <2>4, <2>5, <2>6
<1>12. Lane(c)'
  <2>1. Len(wire'[c]) <= WireCap
    <3>1. Len(wire[c]) \in Nat /\ Len(v) \in Nat /\ WireCap \in Nat
      BY <1>1, <1>8 DEF Types, StreamAssumption
    <3>2. QED
      BY <1>1, <1>8, <1>9, <3>1 DEF Lane
  <2>2. chunk'[c] # <<>>
    BY <1>5, <1>8, <1>9
  <2>3. QED
    BY <1>1, <1>2, <1>3, <1>8, <1>9, <1>11, <2>1, <2>2, Zenon DEF Lane
<1>13. Line(c)'
  <2>1. \A i \in 1 .. Len(chunk'[c]) : chunk'[c][i] = Message(c, Now(c)', Ahead(c)' + Len(buff'[c]) + i)
    BY <1>2, <1>8, <1>9, <1>11, Zenon
  <2>2. todo'[c] <= Size(c)'
    BY <1>3, <1>4, <1>5, <1>9, <1>11
  <2>3. QED
    BY <1>1, <1>2, <1>11, <2>1, <2>2, Zenon DEF Line
<1>14. \A d \in Conns \ {c} : Same(d)
  BY <1>1, <1>2, <1>9 DEF Same, Types
<1>15. Waiting'
  BY <1>1, <1>2, WaitingKept, Zenon
<1>16. QED
  BY <1>2, <1>3, <1>10, <1>11, <1>12, <1>13, <1>14, <1>15, LaneStep, Zenon


\* ContinuousReader: a message goes to the end of Buff.
LEMMA PushStep ==
    ASSUME StreamAssumption, StreamIInv, NEW c \in Conns, Push(c)
    PROVE  StreamIInv'
<1> DEFINE h == Head(chunk[c])
           r == Tail(chunk[c])
           f == Append(buff[c], h)
<1>1. Types /\ Lane(c) /\ Line(c) /\ Waiting
  BY Zenon DEF StreamIInv
<1>2. /\ reader[c] = "push" /\ Len(buff[c]) < BuffCap
      /\ buff' = [buff EXCEPT ![c] = f] /\ chunk' = [chunk EXCEPT ![c] = r]
      /\ reader' = [reader EXCEPT ![c] = IF Len(chunk[c]) = 1 THEN "read" ELSE "push"]
      /\ wire' = wire /\ todo' = todo /\ unsent' = unsent /\ closed' = closed
      /\ handler' = handler /\ batch' = batch /\ err' = err /\ inHand' = inHand /\ wg' = wg
      /\ jobs' = jobs /\ thread' = thread /\ processed' = processed /\ done' = done
      /\ panicked' = panicked
  BY Zenon DEF Push, Set, peer, pool
<1>3. /\ batch[c] # None /\ ~err[c] /\ handler[c] # "failed" /\ chunk[c] # <<>>
      /\ chunk[c] \in Seq(Units) /\ buff[c] \in Seq(Units) /\ done[c] \in Nat
      /\ done[c] < Len(Batches[c]) /\ todo[c] \in Nat
  BY <1>1, <1>2, Zenon DEF Lane, Line, Types
<1>4. /\ h \in Units /\ r \in Seq(Units) /\ Len(r) = Len(chunk[c]) - 1 /\ Len(chunk[c]) \in Nat \ {0}
      /\ h = chunk[c][1] /\ \A i \in 1 .. Len(chunk[c]) - 1 : r[i] = chunk[c][i + 1]
  BY <1>3, Rest, ZenonT(30)
<1> HIDE DEF h, r
<1>5. /\ f \in Seq(Units) /\ Len(f) = Len(buff[c]) + 1 /\ Len(buff[c]) \in Nat
      /\ f[Len(buff[c]) + 1] = h /\ \A i \in 1 .. Len(buff[c]) : f[i] = buff[c][i]
  <2>1. h \in Units /\ buff[c] \in Seq(Units)
    BY <1>3, <1>4, Zenon
  <2>2. QED
    BY <2>1, Longer
<1> HIDE DEF f
<1>6. /\ buff'[c] = f /\ chunk'[c] = r
      /\ reader'[c] = IF Len(chunk[c]) = 1 THEN "read" ELSE "push"
  BY <1>1, <1>2, Zenon DEF Types
<1>7. Types'
  BY <1>1, <1>2, <1>4, <1>5, Zenon DEF Types
<1>8. Size(c) \in Nat
  BY <1>3, NowBatch, Zenon
<1>9. /\ Now(c)' = Now(c) /\ Size(c)' = Size(c) /\ Ahead(c)' = Ahead(c) /\ Given(c)' = Given(c)
      /\ Expected(c)' = Expected(c) /\ Ahead(c) \in Int
  <2>1. Now(c)' = Now(c) /\ Size(c)' = Size(c)
    BY <1>2, Zenon DEF Now, Size
  <2>2. Ahead(c)' = Size(c) - todo[c] - Len(r) - Len(f)
    BY <1>2, <1>6, <2>1, Zenon DEF Ahead
  <2>3. Ahead(c)' = Ahead(c) /\ Ahead(c) \in Int
    <3> DEFINE s == Size(c) - todo[c]
               x == Len(chunk[c])
               y == Len(buff[c])
    <3>1. Ahead(c) = s - x - y /\ Ahead(c)' = s - Len(r) - Len(f)
      BY <2>2, Zenon DEF Ahead
    <3>2. s \in Int /\ x \in Int /\ y \in Int /\ Len(r) = x - 1 /\ Len(f) = y + 1
      BY <1>3, <1>4, <1>5, <1>8
    <3> HIDE DEF s, x, y
    <3>3. Ahead(c)' = s - (x - 1) - (y + 1)
      BY <3>1, <3>2, Zenon
    <3>4. QED
      BY <3>1, <3>2, <3>3
  <2>4. Given(c)' = Given(c)
    BY <1>2, <2>3, Zenon DEF Given
  <2>5. Expected(c)' = Expected(c)
    BY <1>2, <1>3, <1>6, <2>1 DEF Expected
  <2>6. QED
    BY <2>1, <2>3, <2>4, <2>5, Zenon
<1>10. Lane(c)'
  <2>1. Len(buff'[c]) <= BuffCap
    BY <1>2, <1>5, <1>6 DEF StreamAssumption
  <2>2. chunk'[c] # <<>> <=> reader'[c] = "push"
    <3>1. Len(r) = 0 <=> Len(chunk[c]) = 1
      BY <1>4
    <3>2. r = <<>> <=> Len(r) = 0
      <4>1. r \in Seq(Units)
        BY <1>4, Zenon
      <4>2. QED
        BY <4>1, NothingInIt, Zenon
    <3>3. QED
      BY <1>6, <3>1, <3>2, Zenon
  <2>3. reader'[c] \notin {"ended", "none"}
    BY <1>6, Zenon
  <2>4. QED
    BY <1>1, <1>2, <1>3, <1>9, <2>1, <2>2, <2>3, Zenon DEF Lane
<1>11. Line(c)'
  <2>1. /\ \A i \in 1 .. Len(chunk[c]) : chunk[c][i] = Message(c, Now(c), Ahead(c) + Len(buff[c]) + i)
        /\ \A i \in 1 .. Len(buff[c]) : buff[c][i] = Message(c, Now(c), Ahead(c) + i)
    BY <1>1, <1>3, Zenon DEF Line
  <2>2. ASSUME NEW i \in 1 .. Len(r) PROVE r[i] = Message(c, Now(c), Ahead(c) + Len(f) + i)
    <3>1. i \in 1 .. Len(chunk[c]) - 1 /\ i + 1 \in 1 .. Len(chunk[c])
      BY <1>4
    <3>2. Ahead(c) + Len(f) + i = Ahead(c) + Len(buff[c]) + (i + 1)
      <4> DEFINE y == Len(buff[c])
      <4>1. Ahead(c) \in Int /\ y \in Int /\ i \in Int /\ Len(f) = y + 1
        BY <1>5, <1>9
      <4> HIDE DEF y
      <4>2. Ahead(c) + Len(f) + i = Ahead(c) + y + (i + 1)
        BY <4>1
      <4>3. QED
        BY <4>2, Zenon DEF y
    <3>3. chunk[c][i + 1] = Message(c, Now(c), Ahead(c) + Len(buff[c]) + (i + 1))
      BY <2>1, <3>1, Zenon
    <3>4. QED
      BY <1>4, <3>1, <3>2, <3>3, Zenon
  <2>3. ASSUME NEW i \in 1 .. Len(f) PROVE f[i] = Message(c, Now(c), Ahead(c) + i)
    <3>1. CASE i \in 1 .. Len(buff[c])
      BY <1>5, <2>1, <3>1, Zenon
    <3>2. CASE i = Len(buff[c]) + 1
      <4>1. 1 \in 1 .. Len(chunk[c]) /\ Ahead(c) + Len(buff[c]) + 1 = Ahead(c) + i
        <5>1. 1 \in 1 .. Len(chunk[c])
          BY <1>4
        <5> DEFINE y == Len(buff[c])
        <5>2. Ahead(c) \in Int /\ y \in Int /\ i = y + 1
          BY <1>5, <1>9, <3>2
        <5> HIDE DEF y
        <5>3. Ahead(c) + y + 1 = Ahead(c) + i
          BY <5>2
        <5>4. QED
          BY <5>1, <5>3, Zenon DEF y
      <4>2. chunk[c][1] = Message(c, Now(c), Ahead(c) + Len(buff[c]) + 1)
        BY <2>1, <4>1, Zenon
      <4>3. QED
        BY <1>4, <1>5, <3>2, <4>1, <4>2, Zenon
    <3>3. QED
      BY <1>5, <3>1, <3>2
  <2>4. QED
    BY <1>1, <1>2, <1>6, <1>9, <2>2, <2>3, Zenon DEF Line
<1>12. \A d \in Conns \ {c} : Same(d)
  BY <1>1, <1>2, Zenon DEF Same, Types
<1>13. Waiting'
  BY <1>1, <1>2, WaitingKept, Zenon
<1>14. QED
  BY <1>2, <1>3, <1>7, <1>9, <1>10, <1>11, <1>12, <1>13, LaneStep, Zenon

\* A message in hand is the next one of its batch and not with the pool.
LEMMA NextInHand ==
    ASSUME StreamAssumption, StreamIInv, NEW c \in Conns, NEW k \in Int, batch[c] # None,
           Given(c) < k
    PROVE  Message(c, Now(c), k) \notin Pooled
<1> DEFINE m == Message(c, Now(c), k)
<1>1. m # None /\ m.conn = c /\ m.batch = Now(c) /\ m.nr = k
  BY Zenon DEF Message, None
<1>2. done[c] \in Nat /\ Given(c) \in Nat
  BY Zenon DEF StreamIInv, Types, Line
<1> HIDE DEF m
<1>3. ~Handed(m)
  BY <1>1, <1>2 DEF Handed, Now
<1>4. QED
  BY <1>1, <1>3, Zenon DEF StreamIInv, m

\* WorkerPoolProcessStream: the message taken from Buff is counted, and new to the pool.
LEMMA TakeMessageStep ==
    ASSUME StreamAssumption, StreamIInv, NEW c \in Conns, TakeMessage(c)
    PROVE  StreamIInv'
<1> DEFINE h == Head(buff[c])
           r == Tail(buff[c])
<1>1. Types /\ Lane(c) /\ Line(c) /\ Waiting
  BY Zenon DEF StreamIInv
<1>2. /\ handler[c] = "stream" /\ buff[c] # <<>>
      /\ inHand' = [inHand EXCEPT ![c] = h] /\ buff' = [buff EXCEPT ![c] = r]
      /\ wg' = [wg EXCEPT ![c] = wg[c] + 1] /\ handler' = [handler EXCEPT ![c] = "hand"]
      /\ reader' = reader /\ chunk' = chunk
      /\ wire' = wire /\ todo' = todo /\ unsent' = unsent /\ closed' = closed
      /\ batch' = batch /\ err' = err /\ jobs' = jobs /\ thread' = thread
      /\ processed' = processed /\ done' = done /\ panicked' = panicked
  BY Zenon DEF TakeMessage, Set, Counted, peer, pool
<1>3. /\ batch[c] # None /\ buff[c] \in Seq(Units) /\ chunk[c] \in Seq(Units) /\ done[c] \in Nat
      /\ done[c] < Len(Batches[c]) /\ todo[c] \in Nat /\ inHand[c] = None /\ Len(chunk[c]) \in Nat
      /\ wg[c] \in Nat /\ buff[c] # <<>>
  BY <1>1, <1>2 DEF Lane, Line, Types
<1>4. /\ h \in Units /\ r \in Seq(Units) /\ Len(r) = Len(buff[c]) - 1 /\ Len(buff[c]) \in Nat \ {0}
      /\ h = buff[c][1] /\ \A i \in 1 .. Len(buff[c]) - 1 : r[i] = buff[c][i + 1]
  BY <1>3, Rest, ZenonT(30)
<1> HIDE DEF h, r
<1>5. buff'[c] = r /\ inHand'[c] = h /\ handler'[c] = "hand" /\ wg'[c] = wg[c] + 1
  BY <1>1, <1>2, Zenon DEF Types
<1>6. Types'
  <2>1. wg' \in [Conns -> Nat]
    BY <1>1, <1>2, <1>3 DEF Types
  <2>2. inHand' \in [Conns -> Units \cup {None}] /\ buff' \in [Conns -> Seq(Units)]
    BY <1>1, <1>2, <1>4, Zenon DEF Types
  <2>3. QED
    BY <1>1, <1>2, <2>1, <2>2, Zenon DEF Types
<1>7. Size(c) \in Nat
  BY <1>3, NowBatch, Zenon
<1>8. /\ Now(c)' = Now(c) /\ Size(c)' = Size(c) /\ Ahead(c)' = Ahead(c) + 1 /\ Given(c)' = Given(c)
      /\ Expected(c)' = Expected(c) /\ Ahead(c) \in Int /\ Given(c) = Ahead(c)
  <2>1. Now(c)' = Now(c) /\ Size(c)' = Size(c) /\ Given(c) = Ahead(c)
    BY <1>2, Zenon DEF Now, Size, Given
  <2>2. Ahead(c)' = Size(c) - todo[c] - Len(chunk[c]) - Len(r)
    BY <1>2, <1>5, <2>1, Zenon DEF Ahead
  <2>3. Ahead(c)' = Ahead(c) + 1 /\ Ahead(c) \in Int
    <3> DEFINE s == Size(c) - todo[c] - Len(chunk[c])
               y == Len(buff[c])
    <3>1. Ahead(c) = s - y /\ Ahead(c)' = s - Len(r)
      BY <2>2, Zenon DEF Ahead
    <3>2. s \in Int /\ y \in Int /\ Len(r) = y - 1
      BY <1>3, <1>4, <1>7
    <3> HIDE DEF s, y
    <3>3. Ahead(c)' = s - (y - 1)
      BY <3>1, <3>2, Zenon
    <3>4. QED
      BY <3>1, <3>2, <3>3
  <2>4. Given(c)' = Ahead(c)
    BY <1>5, <2>3 DEF Given
  <2>5. Expected(c)' = Expected(c)
    BY <1>2, <2>1, Zenon DEF Expected
  <2>6. QED
    BY <2>1, <2>3, <2>4, <2>5, Zenon
<1>9. \A i \in 1 .. Len(buff[c]) : buff[c][i] = Message(c, Now(c), Ahead(c) + i)
  BY <1>1, <1>3, Zenon DEF Line
<1>10. h = Message(c, Now(c), Ahead(c) + 1) /\ h # None /\ h.conn = c
  <2>1. 1 \in 1 .. Len(buff[c])
    BY <1>4
  <2>2. h = Message(c, Now(c), Ahead(c) + 1)
    BY <1>4, <1>9, <2>1, Zenon
  <2>3. QED
    BY <2>2, Zenon DEF Message, None
<1>11. Lane(c)'
  <2>1. Len(buff'[c]) <= BuffCap
    <3>1. Len(buff[c]) <= BuffCap /\ BuffCap \in Nat
      BY <1>1, Zenon DEF Lane, StreamAssumption
    <3>2. QED
      BY <1>4, <1>5, <3>1
  <2>2. QED
    BY <1>1, <1>2, <1>3, <1>5, <1>8, <1>10, <2>1, Zenon DEF Lane
<1>12. Line(c)'
  <2>1. \A i \in 1 .. Len(chunk[c]) : chunk[c][i] = Message(c, Now(c), Ahead(c) + Len(buff[c]) + i)
    BY <1>1, <1>3, Zenon DEF Line
  <2>2. ASSUME NEW i \in 1 .. Len(r) PROVE r[i] = Message(c, Now(c), Ahead(c) + 1 + i)
    <3>0. i \in 1 .. Len(buff[c]) - 1 /\ i + 1 \in 1 .. Len(buff[c])
      BY <1>4
    <3>1. Ahead(c) + (i + 1) = Ahead(c) + 1 + i
      BY <1>8
    <3>2. buff[c][i + 1] = Message(c, Now(c), Ahead(c) + (i + 1))
      BY <1>9, <3>0, Zenon
    <3>3. QED
      BY <1>4, <3>0, <3>1, <3>2, Zenon
  <2>3. Ahead(c) + Len(buff[c]) = Ahead(c) + 1 + Len(r)
    BY <1>4, <1>8
  <2>4. \A i \in 1 .. Len(chunk[c]) : chunk[c][i] = Message(c, Now(c), Ahead(c) + 1 + Len(r) + i)
    BY <2>1, <2>3, Zenon
  <2>5. QED
    BY <1>1, <1>2, <1>5, <1>8, <1>10, <2>2, <2>4, Zenon DEF Line
<1>13. \A d \in Conns \ {c} : Same(d)
  BY <1>1, <1>2, Zenon DEF Same, Types
<1>14. Waiting'
  <2>1. ASSUME NEW d \in Conns, d # c, inHand[d] # None PROVE inHand[d].conn = d
    <3>1. handler[d] = "hand" /\ batch[d] # None
      BY <2>1, Zenon DEF StreamIInv, Lane
    <3>2. inHand[d] = Message(d, Now(d), Ahead(d))
      BY <3>1, Zenon DEF StreamIInv, Line
    <3>3. QED
      BY <3>2 DEF Message
  <2>2. h \notin Pooled
    BY <1>3, <1>8, <1>10, NextInHand
  <2>3. h \notin InFlight(c)
    BY <1>3, <1>10, <2>1, <2>2, Zenon DEF InFlight, Pooled
  <2>4. inHand'[c] = h /\ \A d \in Conns : d # c => inHand'[d] = inHand[d]
    BY <1>1, <1>2, Zenon DEF Types
  <2>5. InFlight(c)' = InFlight(c) \cup {h}
    BY <1>2, <1>3, <1>10, <2>4 DEF InFlight, Elements
  <2>6. ASSUME NEW d \in Conns, d # c PROVE InFlight(d)' = InFlight(d) /\ wg'[d] = wg[d]
    <3>1. InFlight(d)' = InFlight(d)
      BY <1>2, <1>3, <1>10, <2>4, <2>6 DEF InFlight, Elements
    <3>2. QED
      BY <1>1, <1>2, <2>6, <3>1, Zenon DEF Types
  <2>7. Counts(wg[c], InFlight(c))
    BY <1>1, Zenon DEF Waiting
  <2>8. Counts(wg'[c], InFlight(c)')
    BY <1>5, <2>3, <2>5, <2>7, CountsMore
  <2>9. QED
    BY <1>1, <2>6, <2>8, Zenon DEF Waiting
<1>15. QED
  BY <1>2, <1>3, <1>5, <1>6, <1>8, <1>11, <1>12, <1>13, <1>14, LaneStep, Zenon

-----------------------------------------------------------------------------
(* The steps of the pool.                                                  *)

\* The numbers of the batch in work.
LEMMA InWork ==
    ASSUME StreamAssumption, Types, NEW c \in Conns, Line(c), batch[c] # None
    PROVE  /\ Now(c) \in 1 .. Len(Batches[c]) /\ Size(c) \in Nat
           /\ Ahead(c) \in Int /\ Ahead(c) <= Size(c) /\ Given(c) \in Nat
<1>1. done[c] \in Nat /\ done[c] < Len(Batches[c]) /\ todo[c] \in Nat /\ Given(c) \in Nat
  BY Zenon DEF Types, Line
<1>2. Now(c) \in 1 .. Len(Batches[c])
  BY <1>1, NowBatch, Zenon
<1>3. Size(c) \in Nat
  BY <1>1, NowBatch, Zenon
<1> DEFINE s == Size(c)
           u == todo[c]
           x == Len(chunk[c])
           y == Len(buff[c])
<1>4. s \in Nat /\ u \in Nat /\ x \in Nat /\ y \in Nat /\ Ahead(c) = s - u - x - y
  BY <1>1, <1>3 DEF Types, Ahead
<1> HIDE DEF s, u, x, y
<1>5. Ahead(c) \in Int /\ Ahead(c) <= s
  BY <1>4
<1>6. QED
  BY <1>1, <1>2, <1>3, <1>5, Zenon DEF s

\* The message in hand goes to the pool, which has not had it.
LEMMA AddJobStep ==
    ASSUME StreamAssumption, StreamIInv, NEW c \in Conns, AddJob(c)
    PROVE  StreamIInv'
<1> DEFINE j == inHand[c]
<1>1. Types /\ Lane(c) /\ Line(c) /\ Waiting /\ Once /\ NothingLost
  BY Zenon DEF StreamIInv
<1>2. /\ handler[c] = "hand" /\ Len(jobs) < JobsCap /\ jobs' = Append(jobs, j)
      /\ inHand' = [inHand EXCEPT ![c] = None] /\ handler' = [handler EXCEPT ![c] = "stream"]
      /\ reader' = reader /\ chunk' = chunk /\ buff' = buff
      /\ wire' = wire /\ todo' = todo /\ unsent' = unsent /\ closed' = closed
      /\ batch' = batch /\ err' = err /\ wg' = wg /\ thread' = thread
      /\ processed' = processed /\ done' = done /\ panicked' = panicked
  BY Zenon DEF AddJob, Set, peer, stream
<1>3. /\ batch[c] # None /\ j = Message(c, Now(c), Ahead(c)) /\ Given(c) = Ahead(c) - 1
      /\ inHand'[c] = None /\ handler'[c] = "stream"
  BY <1>1, <1>2, Zenon DEF Lane, Line, Given, Types
<1>4. /\ Now(c) \in 1 .. Len(Batches[c]) /\ Size(c) \in Nat
      /\ Ahead(c) \in Int /\ Ahead(c) <= Size(c) /\ Given(c) \in Nat
  BY <1>1, <1>3, InWork, Zenon
<1>5. j # None /\ j.conn = c /\ j.batch = Now(c) /\ j.nr = Ahead(c) /\ j \in Units
  <2>1. j # None /\ j.conn = c /\ j.batch = Now(c) /\ j.nr = Ahead(c)
    BY <1>3 DEF Message, None
  <2>2. QED
    BY <1>1, <2>1, Zenon DEF Types
<1>6. j \notin Pooled
  BY <1>3, <1>4, NextInHand
<1> HIDE DEF j
<1>7. /\ jobs' \in Seq(Units) /\ Distinct(jobs') /\ Elements(jobs') = Elements(jobs) \cup {j}
      /\ Len(jobs') = Len(jobs) + 1 /\ Len(jobs) \in Nat
  BY <1>1, <1>2, <1>5, <1>6, DistinctAppend, Longer DEF Types, Once, Pooled
<1>8. Types'
  BY <1>1, <1>2, <1>7, Zenon DEF Types
<1>9. /\ Now(c)' = Now(c) /\ Size(c)' = Size(c) /\ Ahead(c)' = Ahead(c)
      /\ Given(c)' = Given(c) + 1 /\ Given(c)' = Ahead(c) /\ Expected(c)' = Expected(c)
  <2>1. Now(c)' = Now(c) /\ Size(c)' = Size(c)
    BY <1>2, Zenon DEF Now, Size
  <2>2. Ahead(c)' = Ahead(c) /\ Expected(c)' = Expected(c)
    BY <1>2, <2>1, Zenon DEF Ahead, Expected
  <2>3. Given(c)' = Ahead(c)
    BY <1>3, <2>2, Zenon DEF Given
  <2>4. QED
    BY <1>3, <1>4, <2>1, <2>2, <2>3
<1>10. Lane(c)' /\ Line(c)'
  <2>1. Lane(c)'
    BY <1>1, <1>2, <1>3, <1>9, Zenon DEF Lane
  <2>2. Given(c)' \in Nat
    BY <1>4, <1>9
  <2>3. QED
    BY <1>1, <1>2, <1>3, <1>9, <2>1, <2>2, Zenon DEF Line
<1>11. \A d \in Conns \ {c} : Same(d)
  BY <1>1, <1>2, Zenon DEF Same, Types
<1>12. \A d \in Conns \ {c} : Lane(d)' /\ Line(d)' /\ Given(d)' = Given(d)
  BY <1>11, LaneSame, Zenon DEF StreamIInv
<1>13. Pooled' = Pooled \cup {j} /\ Elements(processed)' = Elements(processed)
  BY <1>2, <1>7, Zenon DEF Pooled, Elements
<1>14. ASSUME NEW i \in Pooled', i # None PROVE Handed(i)'
  <2>1. CASE i = j
    <3>1. Ahead(c) \in 1 .. Size(c) /\ Ahead(c) <= Ahead(c)
      BY <1>3, <1>4
    <3>2. Ahead(c) \in 1 .. Batches[c][Now(c)]
      BY <3>1, Zenon DEF Size
    <3>3. batch'[c] # None /\ Given(c)' = Ahead(c) /\ Now(c)' = Now(c)
      BY <1>2, <1>3, <1>9, Zenon
    <3>4. QED
      BY <1>3, <1>4, <1>5, <2>1, <3>1, <3>2, <3>3 DEF Handed
  <2>2. CASE i \in Pooled
    <3>1. Handed(i)
      BY <1>14, <2>2, Zenon DEF StreamIInv
    <3>2. i.conn = c /\ i.nr <= Given(c) => i.nr <= Given(c)'
      <4>1. i.conn = c => i.nr \in Int
        BY <3>1 DEF Handed
      <4>2. QED
        BY <1>4, <1>9, <4>1
    <3>3. QED
      BY <1>2, <1>12, <3>1, <3>2, Zenon DEF Handed, Now
  <2>3. QED
    BY <1>13, <2>1, <2>2, Zenon
<1>15. Once'
  <2>1. j \notin Elements(processed) /\ \A t \in Threads : thread[t] # j
    BY <1>6, Zenon DEF Pooled
  <2>2. /\ jobs' = Append(jobs, j) /\ processed' = processed /\ thread' = thread
        /\ Elements(jobs') = Elements(jobs) \cup {j} /\ Distinct(jobs')
    BY <1>2, <1>7, Zenon
  <2>3. Distinct(jobs)' /\ Distinct(processed)'
    BY <1>1, <2>2, Zenon DEF Once, Distinct
  <2>4. Elements(jobs)' \cap Elements(processed)' = {}
    <3>1. Elements(jobs') \cap Elements(processed) = {}
      BY <1>1, <2>1, <2>2 DEF Once
    <3>2. QED
      BY <1>13, <3>1, Zenon DEF Elements
  <2>5. ASSUME NEW t \in Threads, thread[t] # None
        PROVE  /\ thread[t] \notin Elements(jobs') \cup Elements(processed)
               /\ \A u \in Threads : thread[u] = thread[t] => u = t
    BY <1>1, <2>1, <2>2, <2>5, Zenon DEF Once
  <2>6. QED
    BY <1>13, <2>2, <2>3, <2>4, <2>5, Zenon DEF Once, Elements
<1>16. NothingLost'
  <2>1. ASSUME NEW k \in 1 .. Given(c)' PROVE Message(c, Now(c)', k) \in Pooled'
    <3>1. CASE k = Ahead(c)
      BY <1>3, <1>9, <1>13, <3>1, Zenon DEF j
    <3>2. CASE k \in 1 .. Given(c)
      BY <1>1, <1>2, <1>3, <1>9, <1>13, <3>2, Zenon DEF NothingLost
    <3>3. QED
      BY <1>3, <1>4, <1>9, <3>1, <3>2
  <2>2. ASSUME NEW d \in Conns \ {c}, handler'[d] # "failed", batch'[d] # None,
               NEW k \in 1 .. Given(d)'
        PROVE  Message(d, Now(d)', k) \in Pooled'
    BY <1>1, <1>2, <1>11, <1>12, <1>13, <2>2, Zenon DEF NothingLost, Same, Now
  <2>3. \A d \in Conns : handler'[d] # "failed" => handler[d] # "failed"
    BY <1>2, <1>11, Zenon DEF Same
  <2>4. QED
    BY <1>1, <1>2, <1>13, <2>1, <2>2, <2>3, Zenon DEF NothingLost
<1>17. Waiting'
  <2>1. \A d \in Conns : d # c => inHand'[d] = inHand[d]
    BY <1>1, <1>2, Zenon DEF Types
  <2>2. ASSUME NEW d \in Conns PROVE InFlight(d)' = InFlight(d)
    <3>1. \A i \in InFlight(d) : i \in InFlight(d)'
      BY <1>2, <1>7, <2>1, Zenon DEF InFlight, j
    <3>2. \A i \in InFlight(d)' : i \in InFlight(d)
      BY <1>2, <1>3, <1>7, <2>1 DEF InFlight, j
    <3>3. QED
      BY <3>1, <3>2, Zenon
  <2>3. QED
    BY <1>1, <1>2, <2>2, Zenon DEF Waiting
<1>18. Len(jobs') <= JobsCap
  BY <1>2, <1>7 DEF StreamAssumption
<1>19. QED
  BY <1>8, <1>10, <1>12, <1>14, <1>15, <1>16, <1>17, <1>18, Zenon DEF StreamIInv

\* A step of a thread moves a message within the pool.
LEMMA PoolStep ==
    ASSUME StreamIInv, Types', \A d \in Conns : Same(d), Len(jobs') <= JobsCap,
           \A m : m # None => (m \in Pooled' <=> m \in Pooled),
           Elements(processed) \subseteq Elements(processed)', Once', Waiting'
    PROVE  StreamIInv'
<1>1. \A d \in Conns : Lane(d)' /\ Line(d)' /\ Given(d)' = Given(d)
  BY LaneSame, Zenon DEF StreamIInv
<1>2. Quiet
  BY <1>1, Zenon DEF Quiet, Same
<1>3. \A j \in Pooled' : j # None => Handed(j)'
  BY <1>2, HandedKept, Zenon DEF StreamIInv
<1>4. NothingLost'
  BY <1>2, NothingLostKept, Zenon DEF StreamIInv
<1>5. QED
  BY <1>1, <1>3, <1>4, Zenon DEF StreamIInv

\* A thread takes the first job.
LEMMA TakeJobStep ==
    ASSUME StreamAssumption, StreamIInv, NEW t \in Threads, TakeJob(t)
    PROVE  StreamIInv'
<1> DEFINE h == Head(jobs)
<1>1. Types /\ Waiting /\ Once /\ Len(jobs) <= JobsCap
  BY Zenon DEF StreamIInv
<1>2. /\ thread[t] = None /\ jobs # <<>> /\ thread' = [thread EXCEPT ![t] = h] /\ jobs' = Tail(jobs)
      /\ handler' = handler /\ inHand' = inHand /\ reader' = reader /\ chunk' = chunk /\ buff' = buff
      /\ wire' = wire /\ todo' = todo /\ unsent' = unsent /\ closed' = closed
      /\ batch' = batch /\ err' = err /\ wg' = wg
      /\ processed' = processed /\ done' = done /\ panicked' = panicked
  BY Zenon DEF TakeJob, peer, stream
<1>3. /\ h \in Units /\ jobs' \in Seq(Units) /\ Distinct(jobs') /\ h \in Elements(jobs)
      /\ Elements(jobs') = Elements(jobs) \ {h} /\ Len(jobs') = Len(jobs) - 1 /\ Len(jobs) \in Nat
  BY <1>1, <1>2, DistinctTail, Rest, Zenon DEF Types, Once
<1>4. h # None
  BY <1>3 DEF Units, None
<1> HIDE DEF h
<1>5. thread'[t] = h /\ \A u \in Threads : u # t => thread'[u] = thread[u]
  BY <1>1, <1>2, Zenon DEF Types
<1>6. Types'
  BY <1>1, <1>2, <1>3, Zenon DEF Types
<1>7. \A d \in Conns : Same(d)
  BY <1>2, Zenon DEF Same
<1>8. Len(jobs') <= JobsCap
  BY <1>1, <1>3 DEF StreamAssumption
<1>9. Elements(processed)' = Elements(processed)
  BY <1>2, Zenon DEF Elements
<1>10. \A m : m # None => (m \in Pooled' <=> m \in Pooled)
  BY <1>2, <1>3, <1>5, <1>9, Zenon DEF Pooled
<1>11. Once'
  <2>1. h \notin Elements(processed) /\ \A u \in Threads : thread[u] # h
    BY <1>1, <1>3, <1>4, Zenon DEF Once
  <2>2. QED
    BY <1>1, <1>2, <1>3, <1>5, <1>9, <2>1 DEF Once
<1>12. Waiting'
  <2>1. ASSUME NEW d \in Conns PROVE InFlight(d)' = InFlight(d)
    BY <1>2, <1>3, <1>5 DEF InFlight
  <2>2. QED
    BY <1>1, <1>2, <2>1, Zenon DEF Waiting
<1>13. QED
  BY <1>6, <1>7, <1>8, <1>9, <1>10, <1>11, <1>12, PoolStep, Zenon

\* A thread ends a job; nothing else has it.
LEMMA ProcessJobStep ==
    ASSUME StreamAssumption, StreamIInv, NEW t \in Threads, ProcessJob(t)
    PROVE  StreamIInv'
<1>j. PICK j : j = thread[t]
  BY Zenon
<1>c. PICK c : c = j.conn
  BY Zenon
<1>1. Types /\ Waiting /\ Once /\ Len(jobs) <= JobsCap
  BY Zenon DEF StreamIInv
<1>2. /\ j # None /\ processed' = Append(processed, j) /\ wg' = [wg EXCEPT ![c] = wg[c] - 1]
      /\ thread' = [thread EXCEPT ![t] = None]
      /\ handler' = handler /\ inHand' = inHand /\ reader' = reader /\ chunk' = chunk /\ buff' = buff
      /\ wire' = wire /\ todo' = todo /\ unsent' = unsent /\ closed' = closed
      /\ batch' = batch /\ err' = err /\ jobs' = jobs /\ done' = done /\ panicked' = panicked
  BY <1>j, <1>c, Zenon DEF ProcessJob, peer, stream
<1>3. j \in Pooled /\ j \in Units
  BY <1>1, <1>2, <1>j, Zenon DEF Pooled, Types
<1>4. Handed(j) /\ c \in Conns
  BY <1>2, <1>3, <1>c, Zenon DEF StreamIInv, Handed
<1>5. j \notin Elements(jobs) /\ j \notin Elements(processed) /\ \A u \in Threads : thread[u] = j => u = t
  BY <1>1, <1>2, <1>j, Zenon DEF Once
<1>6. ASSUME NEW d \in Conns PROVE inHand[d] # j
  <2>1. Types /\ Lane(d) /\ Line(d)
    BY Zenon DEF StreamIInv
  <2>2. CASE inHand[d] # None
    <3>1. handler[d] = "hand" /\ batch[d] # None
      BY <2>1, <2>2, Zenon DEF Lane
    <3>2. inHand[d] = Message(d, Now(d), Ahead(d)) /\ Given(d) = Ahead(d) - 1
      BY <2>1, <3>1, Zenon DEF Line, Given
    <3>3. Ahead(d) \in Int /\ Given(d) < Ahead(d)
      BY <2>1, <3>1, <3>2, InWork
    <3>4. inHand[d] \notin Pooled
      BY <3>1, <3>2, <3>3, NextInHand, Zenon
    <3>5. QED
      BY <1>3, <3>4, Zenon
  <2>3. QED
    BY <1>2, <2>2, Zenon
<1>7. thread'[t] = None /\ thread[t] = j /\ \A u \in Threads : u # t => thread'[u] = thread[u]
  BY <1>1, <1>2, <1>j, Zenon DEF Types
<1>8. /\ processed' \in Seq(Units) /\ Distinct(processed')
      /\ Elements(processed') = Elements(processed) \cup {j}
  BY <1>1, <1>2, <1>3, <1>5, DistinctAppend DEF Types, Once
<1>9. InFlight(c)' = InFlight(c) \ {j} /\ j \in InFlight(c)
  <2>2. j \in InFlight(c)
    BY <1>2, <1>7, <1>c, Zenon DEF InFlight
  <2>3. ASSUME NEW i \in InFlight(c)' PROVE i \in InFlight(c) \ {j}
    <3>1. /\ i # None /\ i.conn = c
          /\ \/ i \in Elements(jobs)
             \/ \E u \in Threads : i = thread'[u]
             \/ \E d \in Conns : i = inHand[d]
      BY <1>2, <2>3, Zenon DEF InFlight, Elements
    <3>2. CASE i \in Elements(jobs)
      BY <1>5, <3>1, <3>2, Zenon DEF InFlight, Elements
    <3>3. CASE \E u \in Threads : i = thread'[u]
      <4>1. PICK u \in Threads : i = thread'[u]
        BY <3>3, Zenon
      <4>2. u # t /\ i = thread[u]
        BY <1>7, <3>1, <4>1, Zenon
      <4>3. QED
        BY <1>5, <3>1, <4>2, Zenon DEF InFlight, Elements
    <3>4. CASE \E d \in Conns : i = inHand[d]
      BY <1>6, <3>1, <3>4, Zenon DEF InFlight, Elements
    <3>5. QED
      BY <3>1, <3>2, <3>3, <3>4, Zenon
  <2>4. \A i \in InFlight(c) \ {j} : i \in InFlight(c)'
    BY <1>2, <1>7, Zenon DEF InFlight
  <2>5. QED
    BY <2>2, <2>3, <2>4, Zenon
<1>10. Counts(wg[c] - 1, InFlight(c)') /\ wg[c] - 1 \in Nat
  <2>1. Counts(wg[c], InFlight(c))
    BY <1>1, <1>4, Zenon DEF Waiting
  <2>2. Counts(wg[c] - 1, InFlight(c)')
    BY <1>9, <2>1, CountsLess
  <2>3. QED
    BY <2>2, Zenon DEF Counts
<1>11. Types'
  <2>1. wg' \in [Conns -> Nat]
    BY <1>1, <1>2, <1>10, Zenon DEF Types
  <2>2. QED
    BY <1>1, <1>2, <1>8, <2>1, Zenon DEF Types
<1>12. \A d \in Conns : Same(d)
  BY <1>2, Zenon DEF Same
<1>13. \A m : m # None => (m \in Pooled' <=> m \in Pooled)
  BY <1>2, <1>7, <1>8, Zenon DEF Pooled
<1>14. Once'
  BY <1>1, <1>2, <1>5, <1>7, <1>8 DEF Once
<1>15. Waiting'
  <2>1. ASSUME NEW d \in Conns, d # c PROVE InFlight(d)' = InFlight(d) /\ wg'[d] = wg[d]
    <3>1. j.conn # d
      BY <1>c, <2>1, Zenon
    <3>2. InFlight(d)' = InFlight(d)
      BY <1>2, <1>7, <3>1 DEF InFlight, Elements
    <3>3. QED
      BY <1>1, <1>2, <2>1, <3>2, Zenon DEF Types
  <2>2. wg'[c] = wg[c] - 1
    BY <1>1, <1>2, <1>4, Zenon DEF Types
  <2>3. QED
    BY <1>1, <1>10, <2>1, <2>2, Zenon DEF Waiting
<1>16. QED
  BY <1>1, <1>2, <1>8, <1>11, <1>12, <1>13, <1>14, <1>15, PoolStep, Zenon

\* A batch ends: without an error all its messages are processed.
LEMMA EndStreamStep ==
    ASSUME StreamAssumption, StreamIInv, NEW c \in Conns, EndStream(c)
    PROVE  StreamIInv'
<1>1. Types /\ Lane(c) /\ Line(c) /\ Waiting /\ Once /\ NothingLost /\ Len(jobs) <= JobsCap
  BY Zenon DEF StreamIInv
<1>2. /\ handler[c] = "stream" /\ reader[c] = "ended" /\ buff[c] = <<>> /\ (err[c] \/ wg[c] = 0)
      /\ done' = [done EXCEPT ![c] = done[c] + 1]
      /\ handler' = [handler EXCEPT ![c] = IF err[c] THEN "failed" ELSE "header"]
      /\ reader' = [reader EXCEPT ![c] = "none"] /\ batch' = [batch EXCEPT ![c] = None]
      /\ inHand' = inHand /\ chunk' = chunk /\ buff' = buff
      /\ wire' = wire /\ todo' = todo /\ unsent' = unsent /\ closed' = closed
      /\ err' = err /\ jobs' = jobs /\ thread' = thread /\ wg' = wg
      /\ processed' = processed /\ panicked' = panicked
  BY Zenon DEF EndStream, Drained, Set, peer, pool
<1>3. /\ batch[c] # None /\ chunk[c] = <<>> /\ inHand[c] = None /\ done[c] \in Nat
      /\ done[c] < Len(Batches[c]) /\ Len(Batches[c]) \in Nat
  BY <1>1, <1>2, Sizes, Zenon DEF Lane, Line, Types
<1>4. /\ done'[c] = Now(c) /\ reader'[c] = "none" /\ batch'[c] = None
      /\ handler'[c] = IF err[c] THEN "failed" ELSE "header"
  BY <1>1, <1>2, Zenon DEF Types, Now
<1>5. Now(c) \in 1 .. Len(Batches[c]) /\ Size(c) \in Nat
  BY <1>1, <1>3, InWork, Zenon
<1>6. Types'
  <2>1. done' \in [Conns -> Nat]
    BY <1>1, <1>2, <1>3 DEF Types
  <2>2. QED
    BY <1>1, <1>2, <2>1, Zenon DEF Types
<1>7. Lane(c)' /\ Line(c)'
  <2>1. ~err[c] => Expected(c)' = Expected(c)
    BY <1>2, <1>3, <1>4, Zenon DEF Expected, Now
  <2>2. done'[c] <= Len(Batches[c])
    BY <1>3, <1>4, <1>5
  <2>3. Lane(c)'
    <3>1. /\ Len(wire[c]) <= WireCap /\ Len(buff[c]) <= BuffCap /\ Flow(c, wire[c], unsent[c])
          /\ handler[c] # "failed" /\ ~err[c] => At(c, wire[c], unsent[c], 1) = Expected(c)
          /\ err[c] => c \in closed
          /\ chunk[c] = <<>> /\ buff[c] = <<>> /\ inHand[c] = None /\ handler[c] = "stream"
      BY <1>1, <1>2, <1>3, Zenon DEF Lane
    <3>2. /\ (Len(wire[c]) <= WireCap)' /\ (Len(buff[c]) <= BuffCap)'
          /\ (Flow(c, wire[c], unsent[c]))' /\ (err[c] => c \in closed)'
          /\ (chunk[c] = <<>> /\ buff[c] = <<>> /\ inHand[c] = None)'
      BY <1>2, <3>1, Zenon
    <3>3. CASE err[c]
      <4>1. err'[c] /\ handler'[c] = "failed"
        BY <1>2, <1>4, <3>3, Zenon
      <4>2. QED
        BY <1>4, <2>2, <3>2, <4>1, Zenon DEF Lane
    <3>4. CASE ~err[c]
      <4>1. ~err'[c] /\ handler'[c] = "header"
        BY <1>2, <1>4, <3>4, Zenon
      <4>2. (At(c, wire[c], unsent[c], 1) = Expected(c))'
        BY <1>2, <2>1, <3>1, <3>4, Zenon
      <4>3. QED
        BY <1>4, <2>2, <3>2, <4>1, <4>2, Zenon DEF Lane
    <3>5. QED
      BY <3>3, <3>4, Zenon
  <2>4. QED
    BY <1>4, <2>3, Zenon DEF Line
<1>8. \A d \in Conns \ {c} : Same(d)
  BY <1>1, <1>2, Zenon DEF Same, Types
<1>9. \A d \in Conns \ {c} : Lane(d)' /\ Line(d)' /\ Given(d)' = Given(d)
  BY <1>8, LaneSame, Zenon DEF StreamIInv
<1>10. Pooled' = Pooled /\ Elements(processed)' = Elements(processed)
  BY <1>2, Zenon DEF Pooled, Elements
<1>11. ASSUME NEW i \in Pooled', i # None PROVE Handed(i)'
  <2>1. Handed(i)
    BY <1>10, <1>11, Zenon DEF StreamIInv
  <2>2. CASE i.conn = c
    <3> DEFINE b == i.batch
    <3>1. b \in 1 .. Len(Batches[c]) /\ (b <= done[c] \/ b = done[c] + 1) /\ done'[c] = done[c] + 1
      BY <1>4, <2>1, <2>2, Zenon DEF Handed, Now
    <3> HIDE DEF b
    <3>2. b <= done'[c]
      BY <1>3, <3>1
    <3>3. QED
      BY <2>1, <2>2, <3>2, Zenon DEF Handed, b
  <2>3. CASE i.conn # c
    BY <1>8, <1>9, <2>1, <2>3 DEF Handed, Same, Now
  <2>4. QED
    BY <2>2, <2>3, Zenon
<1>12. Once'
  BY <1>1, <1>2, OnceKept, Zenon
<1>13. Waiting'
  BY <1>1, <1>2, WaitingKept, Zenon
<1>14. ASSUME ~err[c], NEW k \in 1 .. Size(c) PROVE Message(c, Now(c), k) \in Elements(processed)
  <2>1. Given(c) = Size(c)
    <3>1. todo[c] = 0 /\ Len(chunk[c]) = 0 /\ Len(buff[c]) = 0
      BY <1>1, <1>2, <1>3, <1>14, Zenon DEF Lane
    <3>2. Ahead(c) = Size(c)
      BY <1>5, <3>1 DEF Ahead
    <3>3. QED
      BY <1>2, <3>2, Zenon DEF Given
  <2>2. Message(c, Now(c), k) \in Pooled
    BY <1>1, <1>2, <1>3, <1>14, <2>1, Zenon DEF NothingLost
  <2>3. InFlight(c) = {}
    BY <1>1, <1>2, <1>14, CountsNothing, Zenon DEF Waiting
  <2>4. Message(c, Now(c), k) # None /\ Message(c, Now(c), k).conn = c
    BY Zenon DEF Message, None
  <2>5. QED
    BY <2>2, <2>3, <2>4, Zenon DEF Pooled, InFlight
<1>15. NothingLost'
  <2>1. ASSUME ~err[c], NEW b \in 1 .. done'[c], NEW k \in 1 .. Batches[c][b]
        PROVE  Message(c, b, k) \in Elements(processed)
    <3>1. CASE b = Now(c)
      BY <1>14, <2>1, <3>1, Zenon DEF Size
    <3>2. CASE b \in 1 .. done[c]
      BY <1>1, <1>2, <2>1, <3>2, Zenon DEF NothingLost
    <3>3. QED
      BY <1>3, <1>4, <3>1, <3>2 DEF Now
  <2>2. ASSUME NEW d \in Conns \ {c}, handler'[d] # "failed"
        PROVE  /\ \A b \in 1 .. done'[d] : \A k \in 1 .. Batches[d][b] :
                     Message(d, b, k) \in Elements(processed)
               /\ batch'[d] # None => \A k \in 1 .. Given(d)' : Message(d, Now(d)', k) \in Pooled
    <3>1. /\ handler[d] # "failed" /\ done'[d] = done[d] /\ batch'[d] = batch[d] /\ Now(d)' = Now(d)
          /\ Given(d)' = Given(d)
      BY <1>8, <1>9, <2>2, Zenon DEF Same, Now
    <3>2. QED
      BY <1>1, <3>1, Zenon DEF NothingLost
  <2>3. QED
    BY <1>4, <1>10, <2>1, <2>2, Zenon DEF NothingLost
<1>16. QED
  BY <1>1, <1>2, <1>6, <1>7, <1>9, <1>11, <1>12, <1>13, <1>15, Zenon DEF StreamIInv

-----------------------------------------------------------------------------
(* The theorem.                                                            *)

\* Every step keeps the invariant.
LEMMA StreamStep ==
    ASSUME StreamAssumption, StreamIInv, [Next]_vars
    PROVE  StreamIInv'
<1>1. CASE UNCHANGED vars
  <2>1. UNCHANGED <<unsent, closed, wire, handler, batch, reader, todo, chunk, buff, err, inHand, wg,
                    jobs, thread, processed, done, panicked>>
    BY <1>1, Zenon DEF vars, peer, stream, pool
  <2>2. \A d \in Conns : Same(d)
    BY <2>1, Zenon DEF Same
  <2>3. Types' /\ Len(jobs') <= JobsCap
    BY <2>1, Zenon DEF StreamIInv, Types
  <2>4. Pooled' = Pooled /\ Elements(processed)' = Elements(processed)
    BY <2>1, Zenon DEF Pooled, Elements
  <2>5. Once'
    BY <2>1 DEF StreamIInv, Once, Distinct, Elements
  <2>6. Waiting'
    BY <2>1, WaitingKept, Zenon DEF StreamIInv
  <2>7. QED
    BY <2>2, <2>3, <2>4, <2>5, <2>6, PoolStep, Zenon
<1>2. ASSUME NEW c \in Conns, Connection(c) PROVE StreamIInv'
  BY Zenon, <1>2, SendStep, ReadMetadataStep, ReadPartStep, PushStep, ReadFailsStep, ReadSignatureStep,
     TakeMessageStep, AddJobStep, EndStreamStep, ErrorStep DEF Connection
<1>3. ASSUME NEW t \in Threads, Thread(t) PROVE StreamIInv'
  BY <1>3, TakeJobStep, ProcessJobStep, Zenon DEF Thread
<1>4. ASSUME NEW c \in Conns, Close(c) PROVE StreamIInv'
  BY <1>4, CloseStep, Zenon
<1>5. QED
  BY <1>1, <1>2, <1>3, <1>4, Zenon DEF Next, Step

FST == INSTANCE FiniteSetTheorems

\* A set whose elements are numbered has as many.
LEMMA CountsAll ==
    ASSUME NEW n, NEW s, Counts(n, s)
    PROVE  n = Cardinality(s)
<1>1. ASSUME NEW S PROVE Cardinality(S) = FST!Cardinality(S)
  BY Zenon DEF Cardinality, FST!Cardinality
<1>2. FST!ExistsBijection(1 .. n, s)
  BY Zenon DEF Counts, ExistsBijection, Bijection, Injection, Surjection, IsInjective,
         FST!ExistsBijection, FST!Bijection, FST!Injection, FST!Surjection, FST!IsInjective
<1>3. QED
  BY <1>1, <1>2, FST!FS_CountingElements, Zenon DEF Counts

\* The invariant says that frames and batches are whole.
LEMMA StreamImplies ==
    ASSUME StreamAssumption, StreamIInv
    PROVE  StreamInv
<1>1. Types /\ Once /\ NothingLost /\ Waiting /\ (\A c \in Conns : Lane(c) /\ Line(c))
  BY Zenon DEF StreamIInv
<1>2. /\ Range(jobs) = Elements(jobs) /\ Range(processed) = Elements(processed)
      /\ Range(thread) = {thread[t] : t \in Threads} /\ Range(inHand) = {inHand[d] : d \in Conns}
  BY <1>1 DEF Types, Range, Elements
<1>3. TypeOK
  <2>1. ASSUME NEW c \in Conns
        PROVE  /\ Len(wire[c]) <= WireCap /\ Len(buff[c]) <= BuffCap
               /\ wg[c] = Cardinality({j \in Range(jobs) \cup Range(thread) \cup Range(inHand) :
                                          j # None /\ j.conn = c})
    <3>1. InFlight(c) = {j \in Range(jobs) \cup Range(thread) \cup Range(inHand) :
                           j # None /\ j.conn = c}
      BY <1>2, Zenon DEF InFlight
    <3>2. wg[c] = Cardinality(InFlight(c))
      BY <1>1, CountsAll, Zenon DEF Waiting
    <3>3. QED
      BY <1>1, <3>1, <3>2, Zenon DEF Lane
  <2>2. QED
    BY <1>1, <2>1, Zenon DEF TypeOK, Types, StreamIInv
<1>4. FramesAligned
  <2> SUFFICES ASSUME NEW c \in Conns
               PROVE  /\ batch[c] # None => batch[c].kind = "header" /\ batch[c].batch = done[c] + 1
                      /\ \A k \in DOMAIN chunk[c] : chunk[c][k].kind = "message"
                      /\ err[c] => c \in closed
    BY Zenon DEF FramesAligned
  <2>1. batch[c] # None => batch[c].kind = "header" /\ batch[c].batch = done[c] + 1
    <3>1. batch[c] # None => batch[c] = Header(c, Now(c))
      BY <1>1, Zenon DEF Line
    <3>2. Header(c, Now(c)).kind = "header" /\ Header(c, Now(c)).batch = done[c] + 1
      BY Zenon DEF Header, Now
    <3>3. QED
      BY <3>1, <3>2, Zenon
  <2>2. ASSUME NEW k \in DOMAIN chunk[c] PROVE chunk[c][k].kind = "message"
    <3>1. k \in 1 .. Len(chunk[c]) /\ chunk[c] # <<>>
      BY <1>1 DEF Types
    <3>2. batch[c] # None
      BY <1>1, <3>1, Zenon DEF Lane
    <3>3. chunk[c][k] = Message(c, Now(c), Ahead(c) + Len(buff[c]) + k)
      BY <1>1, <3>1, <3>2, Zenon DEF Line
    <3>4. QED
      BY <3>3 DEF Message
  <2>3. QED
    BY <1>1, <2>1, <2>2, Zenon DEF Lane
<1>5. WholeBatches
  <2> SUFFICES ASSUME NEW c \in Conns, NEW b \in DOMAIN Batches[c]
               PROVE  /\ b <= done[c] /\ ~Failed(c) => Batch(c, b) \subseteq Range(processed)
                      /\ b > done[c] + 1 => Batch(c, b) \cap Range(processed) = {}
                      /\ \A j \in Batch(c, b) : Cardinality({k \in DOMAIN processed : processed[k] = j}) <= 1
    BY Zenon DEF WholeBatches
  <2>1. b \in 1 .. Len(Batches[c]) /\ done[c] \in Nat
    <3>1. Batches[c] \in Seq(Nat)
      BY Zenon DEF StreamAssumption
    <3>2. DOMAIN Batches[c] = 1 .. Len(Batches[c])
      BY <3>1
    <3>3. QED
      BY <1>1, <3>2, Zenon DEF Types
  <2>2. b <= done[c] /\ ~Failed(c) => Batch(c, b) \subseteq Range(processed)
    BY <1>1, <1>2, <2>1 DEF NothingLost, Batch, Failed
  <2>3. ASSUME b > done[c] + 1, NEW j \in Batch(c, b) PROVE j \notin Range(processed)
    <3>1. PICK k \in 1 .. Batches[c][b] : j = Message(c, b, k)
      BY Zenon DEF Batch
    <3>2. j # None /\ j.conn = c /\ j.batch = b
      BY <3>1, Zenon DEF Message, None
    <3>3. ~Handed(j)
      BY <2>1, <2>3, <3>2 DEF Handed, Now
    <3>4. QED
      BY <1>2, <3>2, <3>3, Zenon DEF StreamIInv, Pooled
  <2>4. ASSUME NEW j PROVE Cardinality({k \in DOMAIN processed : processed[k] = j}) <= 1
    <3> DEFINE K == {k \in DOMAIN processed : processed[k] = j}
    <3>1. \A k, l \in K : k = l
      <4>1. processed \in Seq(Units) /\ Distinct(processed)
        BY <1>1, Zenon DEF Types, Once
      <4>2. DOMAIN processed = 1 .. Len(processed)
        BY <4>1
      <4>3. QED
        BY <4>1, <4>2, Zenon DEF Distinct
    <3>2. CASE K = {}
      BY <3>2, CountsNothing, CountsAll
    <3>3. CASE K # {}
      <4>1. PICK k : K = {k}
        BY <3>1, <3>3, Zenon
      <4>2. QED
        <5>1. Counts(0 + 1, {} \cup {k})
          BY CountsNothing, CountsMore, Zenon
        <5>2. 0 + 1 = Cardinality({} \cup {k})
          BY <5>1, CountsAll, Zenon
        <5>3. QED
          BY <4>1, <5>2
    <3>4. QED
      BY <3>2, <3>3, Zenon
  <2>5. QED
    BY <2>2, <2>3, <2>4, Zenon
<1>6. QED
  BY <1>3, <1>4, <1>5, Zenon DEF StreamInv

\* send, ContinuousReader, WorkerPoolProcessStream, ProcessThread and the deferred Done of
\* HandleTcpStream keep frames and batches whole, for any number of connections, batches,
\* threads and capacities, and whichever connections break: a header is read where a header
\* begins, Done follows a batch that was received whole only after each of its messages was
\* processed once, and the WaitGroup counts exactly the jobs that are on their way.
THEOREM WholeStreams ==
    ASSUME StreamAssumption
    PROVE  Spec => []StreamInv
<1>1. Init => StreamIInv
  BY StreamInit, Zenon
<1>2. StreamIInv /\ [Next]_vars => StreamIInv'
  BY StreamStep, Zenon
<1>3. StreamIInv => StreamInv
  BY StreamImplies, Zenon
<1>4. QED
  BY <1>1, <1>2, <1>3, PTL DEF Spec
=============================================================================
