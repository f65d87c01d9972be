-------------------------- MODULE SequenceLemmas --------------------------
(***************************************************************************)
(* What the proofs use of sequences: moving an element from one queue to   *)
(* the next one, and sequences that repeat no element.                     *)
(***************************************************************************)
EXTENDS Integers, Sequences, TLAPS

\* Sequences of the same length with the same elements are equal.
LEMMA SeqsEqual ==
    ASSUME NEW S, NEW s \in Seq(S), NEW t \in Seq(S), Len(s) = Len(t),
           \A i \in 1 .. Len(s) : s[i] = t[i]
    PROVE  s = t
OBVIOUS

\* A sequence of length zero is empty.
LEMMA NothingInIt ==
    ASSUME NEW S, NEW s \in Seq(S)
    PROVE  Len(s) \in Nat /\ (s = <<>> <=> Len(s) = 0)
OBVIOUS

\* The length and the elements of a concatenation.
LEMMA Concatenation ==
    ASSUME NEW S, NEW s \in Seq(S), NEW t \in Seq(S)
    PROVE  /\ s \o t \in Seq(S) /\ Len(s \o t) = Len(s) + Len(t)
           /\ Len(s) \in Nat /\ Len(t) \in Nat
           /\ \A i \in 1 .. Len(s) + Len(t) :
                (s \o t)[i] = IF i <= Len(s) THEN s[i] ELSE t[i - Len(s)]
OBVIOUS

\* The rest of a sequence.
LEMMA Rest ==
    ASSUME NEW S, NEW s \in Seq(S), s # <<>>
    PROVE  /\ Head(s) \in S /\ Tail(s) \in Seq(S) /\ Len(Tail(s)) = Len(s) - 1
           /\ Len(s) \in Nat \ {0} /\ Head(s) = s[1]
           /\ \A i \in 1 .. Len(s) - 1 : Tail(s)[i] = s[i + 1]
OBVIOUS

\* A sequence with one more element.
LEMMA Longer ==
    ASSUME NEW S, NEW s \in Seq(S), NEW x \in S
    PROVE  /\ Append(s, x) \in Seq(S) /\ Len(Append(s, x)) = Len(s) + 1 /\ Len(s) \in Nat
           /\ Append(s, x)[Len(s) + 1] = x
           /\ \A i \in 1 .. Len(s) : Append(s, x)[i] = s[i]
OBVIOUS

\* The empty sequence adds nothing.
LEMMA ConcatNothing ==
    ASSUME NEW S, NEW s \in Seq(S)
    PROVE  <<>> \o s = s /\ s \o <<>> = s
OBVIOUS

\* The order in which three sequences are put together does not matter.
LEMMA ConcatThree ==
    ASSUME NEW S, NEW s \in Seq(S), NEW t \in Seq(S), NEW u \in Seq(S)
    PROVE  (s \o t) \o u = s \o (t \o u)
<1> DEFINE v == s \o t
<1>1. /\ v \in Seq(S) /\ Len(v) = Len(s) + Len(t)
      /\ \A i \in 1 .. Len(s) + Len(t) : v[i] = IF i <= Len(s) THEN s[i] ELSE t[i - Len(s)]
  BY Concatenation
<1> DEFINE w == t \o u
<1>2. /\ w \in Seq(S) /\ Len(w) = Len(t) + Len(u)
      /\ \A i \in 1 .. Len(t) + Len(u) : w[i] = IF i <= Len(t) THEN t[i] ELSE u[i - Len(t)]
  BY Concatenation
<1> HIDE DEF v, w
<1> DEFINE x == v \o u
<1>3. /\ x \in Seq(S) /\ Len(x) = Len(v) + Len(u)
      /\ \A i \in 1 .. Len(v) + Len(u) : x[i] = IF i <= Len(v) THEN v[i] ELSE u[i - Len(v)]
  <2>1. v \in Seq(S)
    BY <1>1
  <2>2. QED
    BY <2>1, Concatenation
<1> DEFINE y == s \o w
<1>4. /\ y \in Seq(S) /\ Len(y) = Len(s) + Len(w)
      /\ \A i \in 1 .. Len(s) + Len(w) : y[i] = IF i <= Len(s) THEN s[i] ELSE w[i - Len(s)]
  <2>1. w \in Seq(S)
    BY <1>2
  <2>2. QED
    BY <2>1, Concatenation
<1> HIDE DEF x, y
<1>5. Len(s) \in Nat /\ Len(t) \in Nat /\ Len(u) \in Nat
  OBVIOUS
<1>6. Len(x) = Len(s) + Len(t) + Len(u) /\ Len(y) = Len(x)
  BY <1>1, <1>2, <1>3, <1>4, <1>5
<1>7. ASSUME NEW i \in 1 .. Len(s) + Len(t) + Len(u)
      PROVE  x[i] = y[i]
  <2>1. CASE i <= Len(s)
    <3>1. x[i] = v[i] /\ v[i] = s[i]
      BY <1>1, <1>3, <1>5, <2>1
    <3>2. y[i] = s[i]
      BY <1>2, <1>4, <1>5, <2>1
    <3>3. QED
      BY <3>1, <3>2
  <2>2. CASE i > Len(s) /\ i <= Len(s) + Len(t)
    <3>1. x[i] = v[i] /\ v[i] = t[i - Len(s)]
      BY <1>1, <1>3, <1>5, <2>2
    <3> DEFINE k == i - Len(s)
    <3>2. k \in 1 .. Len(t) + Len(u) /\ i \in 1 .. Len(s) + Len(w) /\ ~(i <= Len(s))
          /\ k <= Len(t)
      BY <1>2, <1>5, <2>2
    <3>3. y[i] = w[k]
      BY <1>4, <3>2
    <3> HIDE DEF k
    <3>4. w[k] = t[k]
      BY <1>2, <3>2
    <3>5. QED
      BY <3>1, <3>3, <3>4 DEF k
  <2>3. CASE i > Len(s) + Len(t)
    <3>1. x[i] = u[i - (Len(s) + Len(t))]
      BY <1>1, <1>3, <1>5, <2>3
    <3> DEFINE k == i - Len(s)
    <3>2. k \in 1 .. Len(t) + Len(u) /\ i \in 1 .. Len(s) + Len(w) /\ ~(i <= Len(s))
          /\ ~(k <= Len(t))
      BY <1>2, <1>5, <2>3
    <3>3. y[i] = w[k]
      BY <1>4, <3>2
    <3> HIDE DEF k
    <3>4. w[k] = u[k - Len(t)]
      BY <1>2, <3>2
    <3>5. k - Len(t) = i - (Len(s) + Len(t))
      BY <1>5 DEF k
    <3>6. QED
      BY <3>1, <3>3, <3>4, <3>5
  <2>4. QED
    BY <1>5, <2>1, <2>2, <2>3
<1>8. x = y
  <2>1. /\ x \in Seq(S) /\ y \in Seq(S) /\ Len(x) = Len(y)
        /\ \A i \in 1 .. Len(x) : x[i] = y[i]
    BY <1>3, <1>4, <1>6, <1>7
  <2>2. QED
    BY <2>1, SeqsEqual
<1>9. QED
  BY <1>8, Zenon DEF v, w, x, y

\* Moving the first element of a queue to the end of the queue before it.
LEMMA MoveHead ==
    ASSUME NEW S, NEW s \in Seq(S), NEW t \in Seq(S), t # <<>>
    PROVE  Append(s, Head(t)) \o Tail(t) = s \o t
<1> SUFFICES ASSUME NEW u, u = Append(s, Head(t)), NEW v, v = Tail(t)
             PROVE  u \o v = s \o t
  OBVIOUS
<1>1. /\ Head(t) \in S /\ v \in Seq(S) /\ Len(v) = Len(t) - 1
      /\ \A i \in 1 .. Len(v) : v[i] = t[i + 1]
  BY Rest
<1>2. /\ u \in Seq(S) /\ Len(u) = Len(s) + 1 /\ u[Len(s) + 1] = Head(t)
      /\ \A i \in 1 .. Len(s) : u[i] = s[i]
  BY <1>1, Longer
<1>3. /\ u \o v \in Seq(S) /\ Len(u \o v) = Len(u) + Len(v)
      /\ \A i \in 1 .. Len(u) + Len(v) : (u \o v)[i] = IF i <= Len(u) THEN u[i] ELSE v[i - Len(u)]
  BY <1>1, <1>2, Concatenation
<1>4. /\ s \o t \in Seq(S) /\ Len(s \o t) = Len(s) + Len(t)
      /\ \A i \in 1 .. Len(s) + Len(t) : (s \o t)[i] = IF i <= Len(s) THEN s[i] ELSE t[i - Len(s)]
  BY Concatenation
<1>5. Head(t) = t[1] /\ Len(s) \in Nat /\ Len(t) \in Nat /\ Len(u) + Len(v) = Len(s) + Len(t)
  BY <1>1, <1>2
<1>6. \A i \in 1 .. Len(s) + Len(t) : (u \o v)[i] = (s \o t)[i]
  <2> TAKE i \in 1 .. Len(s) + Len(t)
  <2>1. CASE i <= Len(s)
    BY <1>2, <1>3, <1>4, <1>5, <2>1
  <2>2. CASE i = Len(s) + 1
    BY <1>2, <1>3, <1>4, <1>5, <2>2
  <2>3. CASE i > Len(s) + 1
    BY <1>1, <1>2, <1>3, <1>4, <1>5, <2>3
  <2>4. QED
    BY <1>5, <2>1, <2>2, <2>3
<1>7. QED
  BY <1>3, <1>4, <1>5, <1>6, SeqsEqual

\* Taking the first element of a queue that has others behind it.
LEMMA TakeHead ==
    ASSUME NEW S, NEW s \in Seq(S), NEW t \in Seq(S), s # <<>>
    PROVE  /\ s \o t # <<>> /\ Head(s \o t) = Head(s) /\ Tail(s \o t) = Tail(s) \o t
<1>1. Len(s) \in Nat /\ Len(s) > 0 /\ Len(t) \in Nat
  OBVIOUS
<1>2. /\ s \o t \in Seq(S) /\ Len(s \o t) = Len(s) + Len(t)
      /\ \A i \in 1 .. Len(s) + Len(t) : (s \o t)[i] = IF i <= Len(s) THEN s[i] ELSE t[i - Len(s)]
  BY Concatenation
<1>3. s \o t # <<>> /\ Head(s \o t) = Head(s)
  BY <1>1, <1>2
<1>4. /\ Tail(s) \in Seq(S) /\ Len(Tail(s)) = Len(s) - 1
      /\ \A i \in 1 .. Len(Tail(s)) : Tail(s)[i] = s[i + 1]
  BY Rest
<1>5. /\ Tail(s \o t) \in Seq(S) /\ Len(Tail(s \o t)) = Len(s) + Len(t) - 1
      /\ \A i \in 1 .. Len(s) + Len(t) - 1 : Tail(s \o t)[i] = (s \o t)[i + 1]
  BY <1>2, <1>3, Rest
<1>6. /\ Tail(s) \o t \in Seq(S) /\ Len(Tail(s) \o t) = Len(s) + Len(t) - 1
      /\ \A i \in 1 .. Len(s) + Len(t) - 1 :
            (Tail(s) \o t)[i] = IF i <= Len(s) - 1 THEN Tail(s)[i] ELSE t[i - (Len(s) - 1)]
  BY <1>1, <1>4, Concatenation
<1>7. \A i \in 1 .. Len(s) + Len(t) - 1 : Tail(s \o t)[i] = (Tail(s) \o t)[i]
  BY <1>1, <1>2, <1>4, <1>5, <1>6
<1>8. Tail(s \o t) = Tail(s) \o t
  BY <1>5, <1>6, <1>7, SeqsEqual
<1>9. QED
  BY <1>3, <1>8

\* A sequence without repetitions.
Distinct(s) == \A i, j \in 1 .. Len(s) : s[i] = s[j] => i = j
\* The elements of a sequence.
Elements(s) == {s[i] : i \in 1 .. Len(s)}

\* The first element of a sequence without repetitions is not in its rest.
LEMMA DistinctTail ==
    ASSUME NEW S, NEW s \in Seq(S), s # <<>>, Distinct(s)
    PROVE  /\ Distinct(Tail(s)) /\ Head(s) \in Elements(s)
           /\ Elements(Tail(s)) = Elements(s) \ {Head(s)}
<1>1. /\ Tail(s) \in Seq(S) /\ Len(Tail(s)) = Len(s) - 1 /\ Head(s) = s[1]
      /\ Len(s) \in Nat \ {0}
      /\ \A i \in 1 .. Len(s) - 1 : Tail(s)[i] = s[i + 1]
  BY Rest
<1>2. Distinct(Tail(s))
  BY <1>1 DEF Distinct
<1>3. Head(s) \in Elements(s)
  BY <1>1 DEF Elements
<1>4. Elements(Tail(s)) \subseteq Elements(s) \ {Head(s)}
  BY <1>1 DEF Elements, Distinct
<1>5. ASSUME NEW x \in Elements(s), x # Head(s)
      PROVE  x \in Elements(Tail(s))
  <2>1. PICK i \in 1 .. Len(s) : x = s[i]
    BY <1>5 DEF Elements
  <2>2. i # 1 /\ i - 1 \in 1 .. Len(s) - 1
    BY <1>1, <1>5, <2>1
  <2>3. Tail(s)[i - 1] = x
    BY <1>1, <2>1, <2>2
  <2>4. QED
    BY <1>1, <2>2, <2>3 DEF Elements
<1>6. QED
  BY <1>2, <1>3, <1>4, <1>5

\* Appending an element that is new.
LEMMA DistinctAppend ==
    ASSUME NEW S, NEW s \in Seq(S), NEW x \in S, Distinct(s), x \notin Elements(s)
    PROVE  /\ Append(s, x) \in Seq(S) /\ Distinct(Append(s, x))
           /\ Elements(Append(s, x)) = Elements(s) \cup {x}
<1> DEFINE u == Append(s, x)
<1>1. /\ u \in Seq(S) /\ Len(u) = Len(s) + 1 /\ u[Len(s) + 1] = x /\ Len(s) \in Nat
      /\ \A i \in 1 .. Len(s) : u[i] = s[i]
  BY Longer
<1> HIDE DEF u
<1>2. Distinct(u)
  BY <1>1 DEF Distinct, Elements
<1>3. Elements(u) = Elements(s) \cup {x}
  <2>1. Elements(s) \subseteq Elements(u)
    BY <1>1 DEF Elements
  <2>2. x \in Elements(u)
    BY <1>1 DEF Elements
  <2>3. \A y \in Elements(u) : y \in Elements(s) \cup {x}
    BY <1>1 DEF Elements
  <2>4. QED
    BY <2>1, <2>2, <2>3
<1>4. QED
  BY <1>1, <1>2, <1>3 DEF u

\* Handing the first message of the buffers to the handler.
LEMMA HeadToHand ==
    ASSUME NEW S, NEW l \in Seq(S), NEW u \in Seq(S), l # <<>>
    PROVE  <<Head(l)>> \o (Tail(l) \o u) = <<>> \o (l \o u)
<1>1. Head(l) \in S /\ Tail(l) \in Seq(S) /\ <<Head(l)>> \in Seq(S) /\ <<>> \in Seq(S)
  BY Rest
<1>2. Append(<<>>, Head(l)) = <<Head(l)>>
  BY <1>1
<1>3. <<Head(l)>> \o Tail(l) = <<>> \o l
  BY <1>1, <1>2, MoveHead
<1>4. <<>> \o l = l /\ l \o u \in Seq(S) /\ <<>> \o (l \o u) = l \o u
  BY Concatenation, ConcatNothing
<1>5. (<<Head(l)>> \o Tail(l)) \o u = <<Head(l)>> \o (Tail(l) \o u)
  BY <1>1, ConcatThree
<1>6. QED
  BY <1>3, <1>4, <1>5

\* Writing the reply of the message with the handler.
LEMMA HandToReply ==
    ASSUME NEW S, NEW r \in Seq(S), NEW w \in Seq(S), NEW h \in S
    PROVE  Append(r, h) \o (<<>> \o w) = r \o (<<h>> \o w)
<1>1. <<h>> \in Seq(S) /\ Append(r, h) = r \o <<h>> /\ <<>> \o w = w
  BY ConcatNothing
<1>2. (r \o <<h>>) \o w = r \o (<<h>> \o w)
  BY <1>1, ConcatThree
<1>3. QED
  BY <1>1, <1>2

\* An update of one entry of a table.
LEMMA UpdateEntry ==
    ASSUME NEW A, NEW B, NEW T, NEW f \in [A -> [B -> T]], NEW a \in A, NEW b \in B, NEW v \in T,
           NEW h, h = [f EXCEPT ![a][b] = v]
    PROVE  /\ h[a][b] = v
           /\ \A x \in A, y \in B : x # a \/ y # b => h[x][y] = f[x][y]
           /\ h \in [A -> [B -> T]]
OBVIOUS
=============================================================================
