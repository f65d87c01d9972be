---------------------------- MODULE MemReadWriter ----------------------------
(***************************************************************************)
(* network/buffers/inMemory.go: the messages for one destination.  Worker  *)
(* threads write them during a layer; the sender then shuffles the buffer  *)
(* and reads it as a stream of bytes, in chunks of any size.               *)
(*                                                                         *)
(* Byte k of message m is <<m, k>>; a dummy is made of zeros.              *)
(***************************************************************************)
EXTENDS Integers, Sequences, FiniteSets, SequencesExt, FiniteSetsExt

CONSTANTS
    Messages,      \* messages the workers write
    NumElements,   \* messages the buffer has room for
    ElementLength, \* bytes of a message
    ChunkSizes,    \* sizes of the chunks read
    Dummies        \* fill up with dummies, ~config.NoDummies

BufferAssumption ==
    /\ NumElements \in Nat /\ ElementLength \in Nat \ {0} /\ ChunkSizes \subseteq Nat \ {0}
    /\ Dummies \in BOOLEAN /\ IsFiniteSet(Messages)

Zero == <<"zero", 0>>
Zeros == [k \in 1 .. ElementLength |-> Zero]
Bytes(m) == [k \in 1 .. ElementLength |-> <<m, k>>]

VARIABLES
    data,        \* elements written and not read yet; Zeros where one was freed
    refused,     \* messages whose writer got LinkOverflow
    numElements, \* elements to read
    permutation, \* order of reading, <<>> before Shuffle
    position,    \* elements read
    element,     \* the element read last in part
    offset,      \* bytes of it that have been read
    count,       \* elementCount
    first,       \* history: what was written, in order
    out          \* history: bytes read

vars == <<data, refused, numElements, permutation, position, element, offset, count, first, out>>

Init ==
    /\ data = <<>> /\ refused = {} /\ numElements = NumElements /\ permutation = <<>>
    /\ position = 0 /\ element = Zeros /\ offset = ElementLength
    /\ count = 0 /\ first = <<>> /\ out = <<>>

Written == ToSet(first)

\* Slip: room for one more.
FullLate == count > NumElements
Full == count >= NumElements

\* Write, under m.mu; each message is written by one worker.
Write(m) ==
    /\ permutation = <<>> /\ m \notin Written \cup refused
    /\ IF Full
       THEN refused' = refused \cup {m} /\ UNCHANGED <<data, count, first>>
       ELSE /\ data' = Append(data, Bytes(m)) /\ count' = count + 1
            /\ first' = Append(first, m) /\ UNCHANGED refused
    /\ UNCHANGED <<numElements, permutation, position, element, offset, out>>

\* The layer is complete: the sender shuffles.
Shuffle ==
    /\ permutation = <<>> /\ Messages = Written \cup refused
    /\ numElements' = IF Dummies THEN numElements ELSE count
    /\ permutation' \in SetToSeqs(1 .. numElements')
    /\ UNCHANGED <<data, refused, position, element, offset, count, first, out>>

\* Slip: the test for a dummy is off by one.
IsDummyEarly(e) == e >= count
IsDummy(e) == e > count

\* ReadElement.
Element(p) == IF IsDummy(permutation[p]) THEN Zeros ELSE data[permutation[p]]

\* Slip: what is left of the element read last is forgotten.
RemainderLost == <<>>
Remainder == SubSeq(element, offset + 1, ElementLength)

\* The remainder of the last call, then whole elements, then a part of the next one.
ReadNextChunk(size) ==
    LET head == SubSeq(Remainder, 1, Min({size, Len(Remainder)}))
        room == size - Len(head)
        full == Min({room \div ElementLength, numElements - position})
        part == IF position + full < numElements THEN room - full * ElementLength ELSE 0
        more == part > 0
        read == position + full + (IF more THEN 1 ELSE 0)
        tail == IF more THEN Element(read) ELSE <<>>
    IN  /\ permutation # <<>> /\ (position < numElements \/ offset < ElementLength)
        /\ out' = out \o head \o FlattenSeq([k \in 1 .. full |-> Element(position + k)])
                      \o SubSeq(tail, 1, part)
        /\ position' = read
        /\ element' = IF more THEN tail ELSE element
        /\ offset' = IF more THEN part ELSE offset + Len(head)
        /\ data' = [e \in DOMAIN data |->
               IF \E p \in position + 1 .. read : permutation[p] = e THEN Zeros ELSE data[e]]
        /\ UNCHANGED <<refused, numElements, permutation, count, first>>

Next ==
    \/ \E m \in Messages : Write(m)
    \/ Shuffle
    \/ \E size \in ChunkSizes : ReadNextChunk(size)

Spec == Init /\ [][Next]_vars

-----------------------------------------------------------------------------
\* Every part of the state keeps its type; the buffer holds no more than it has room for.
TypeOK ==
    /\ data \in Seq([1 .. ElementLength -> {Zero} \cup (Messages \X (1 .. ElementLength))])
    /\ Len(data) = count /\ count <= NumElements /\ refused \subseteq Messages
    /\ numElements \in 0 .. NumElements /\ position \in 0 .. numElements
    /\ offset \in 0 .. ElementLength /\ Len(element) = ElementLength

\* However the stream is cut into chunks, they are together the elements in the shuffled
\* order, each of them whole and read once, although an element is freed when its
\* reading begins and may reach over several chunks.
StreamInOrder ==
    LET all == FlattenSeq([p \in DOMAIN permutation |->
                  IF permutation[p] > Len(first) THEN Zeros ELSE Bytes(first[permutation[p]])])
    IN  IsPrefix(out, all)

\* A message is refused only by a full buffer, and none that was accepted is lost: after
\* the last chunk every one has been read with all its bytes, among as many dummies as
\* fill up the buffer.
AcceptedAreSent ==
    /\ refused # {} => Len(first) = NumElements
    /\ (permutation # <<>> /\ position = numElements /\ offset = ElementLength) =>
          /\ \A m \in Written, k \in 1 .. ElementLength :
                Cardinality({p \in DOMAIN out : out[p] = <<m, k>>}) = 1
          /\ Len(out) = (IF Dummies THEN NumElements ELSE Len(first)) * ElementLength

\* What the workers got accepted is what the sender reads: all of it, in the shuffled
\* order, however the reads are cut.
BufferInv == TypeOK /\ StreamInOrder /\ AcceptedAreSent
=============================================================================
