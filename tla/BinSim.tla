------------------------------- MODULE BinSim -------------------------------
(***************************************************************************)
(* cmd/simulation: how many messages one link must carry when messages are *)
(* shuffled over several layers, for three networks: every server to every *)
(* other (PlainShuffle), rows and then columns of a matrix of servers      *)
(* (Dim2Shuffle), and a butterfly (ApplyButterfly).  One trial is modelled *)
(* with every outcome of its random choices; messages of one server are    *)
(* routed in one step.                                                     *)
(***************************************************************************)
EXTENDS Integers, Sequences, SequencesExt, FiniteSetsExt, Functions

CONSTANTS
    NumServers, NumMessages, NumLayers,
    Networks,   \* the networks simulated: "plain", "dim2", "butterfly"
    Param       \* the rows of the matrix, or the bits of a butterfly

BinSimAssumption ==
    /\ {NumServers, NumMessages, NumLayers, Param} \subseteq Nat \ {0}
    /\ "dim2" \in Networks => NumServers % Param = 0
    /\ "butterfly" \in Networks => NumServers = 2 ^ Param

VARIABLES
    network,
    config,     \* config[s]: messages at server s
    layer,
    max,        \* the largest load of a link so far
    todo,       \* the lines of servers still to be shuffled in this layer
    source,     \* the place in the first line whose messages are routed next
    bins,       \* bins[d][s]: messages from place s to place d of the line
    bit, at,    \* a butterfly's bit and the server whose messages move next
    locations,  \* locations[s]: the messages that stayed and that came, <<>> outside
    nextLocations

plain == <<todo, source, bins>>
butterfly == <<bit, at, locations, nextLocations>>
vars == <<network, config, layer, max, plain, butterfly>>

Nodes == 0 .. NumServers - 1
Total(f) == FoldFunction(+, 0, f)
\* All ways to spread k messages over the places 1 .. n.
Spread(k, n) == {f \in [1 .. n -> 0 .. k] : Total(f) = k}
Largest(m, loads) == Max({m} \cup loads)

-----------------------------------------------------------------------------
\* Dim2Shuffle: the rows, then, by two transpositions, the columns.
Cols == NumServers \div Param
Row(i) == [j \in 1 .. Cols |-> i * Cols + j - 1]
Column(j) == [i \in 1 .. Param |-> (i - 1) * Cols + j]
Lines == IF network = "plain" THEN <<[i \in 1 .. NumServers |-> i - 1]>>
         ELSE [i \in 1 .. Param |-> Row(i - 1)] \o [j \in 1 .. Cols |-> Column(j - 1)]

Start == /\ todo = <<>> /\ source = 1 /\ bins = <<>>
         /\ bit = 0 /\ at = 0 /\ locations = <<>> /\ nextLocations = <<>>
Init ==
    /\ network \in Networks
    /\ config \in {f \in [Nodes -> 0 .. NumMessages] : Total(f) = NumMessages}
    /\ layer = 0 /\ max = 0 /\ Start

NoBins(line) == [d \in 1 .. Len(line) |-> [s \in 1 .. Len(line) |-> 0]]

\* The next layer: PlainShuffle of every line, or a butterfly.
BeginLayer ==
    /\ layer < NumLayers /\ todo = <<>> /\ locations = <<>>
    /\ layer' = layer + 1
    /\ IF network = "butterfly"
       THEN /\ locations' = [s \in Nodes |-> <<config[s], 0>>]
            /\ nextLocations' = [s \in Nodes |-> <<0, 0>>]
            /\ bit' = 0 /\ at' = 0 /\ UNCHANGED plain
       ELSE /\ todo' = Lines /\ source' = 1 /\ bins' = NoBins(Head(Lines))
            /\ UNCHANGED butterfly
    /\ UNCHANGED <<network, config, max>>

\* PlainShuffle: the messages of one place of the line choose places at random.
Route ==
    /\ todo # <<>> /\ source <= Len(Head(todo))
    /\ \E f \in Spread(config[Head(todo)[source]], Len(Head(todo))) :
        bins' = [d \in DOMAIN bins |-> [bins[d] EXCEPT ![source] = f[d]]]
    /\ source' = source + 1
    /\ UNCHANGED <<network, config, layer, max, todo, butterfly>>

\* Slip: the first place keeps what it had.
ArrivedButFirst(line, d) == IF d = 1 THEN config[line[1]] ELSE Total(bins[d])
Arrived(line, d) == Total(bins[d])
\* Slip: the load of a link is compared within its line only.
LoadSeenLast(m, b) == Largest(0, UNION {Range(b[d]) : d \in DOMAIN b})
LoadSeen(m, b) == Largest(m, UNION {Range(b[d]) : d \in DOMAIN b})

CloseLine ==
    /\ todo # <<>> /\ source > Len(Head(todo))
    /\ LET line == Head(todo)
       IN  config' = [s \in Nodes |-> IF s \in Range(line)
                        THEN Arrived(line, CHOOSE d \in DOMAIN line : line[d] = s) ELSE config[s]]
    /\ max' = LoadSeen(max, bins)
    /\ todo' = Tail(todo) /\ source' = 1
    /\ bins' = IF Len(todo) > 1 THEN NoBins(todo[2]) ELSE <<>>
    /\ UNCHANGED <<network, layer, butterfly>>

-----------------------------------------------------------------------------
InvertBit(b, s) == IF (s \div 2 ^ b) % 2 = 0 THEN s + 2 ^ b ELSE s - 2 ^ b
\* From the second bit on, locations and nextLocations are the same slice: the
\* fresh one of line 241 is a variable of the loop's body.
\* Slip: they are the same from the start.
FromAliased == nextLocations
From == IF bit = 0 THEN locations ELSE nextLocations

\* ApplyButterfly: the messages of one server stay or go.
Move ==
    /\ locations # <<>> /\ at < NumServers
    /\ LET mine == From[at][1] + From[at][2]
       IN  \E stay \in 0 .. mine :
            nextLocations' = [nextLocations EXCEPT ![at][1] = @ + stay,
                                                   ![InvertBit(bit, at)][2] = @ + mine - stay]
    /\ at' = at + 1
    /\ UNCHANGED <<network, config, layer, max, plain, bit, locations>>

EndBit ==
    /\ locations # <<>> /\ at = NumServers
    /\ max' = Largest(max, UNION {Range(nextLocations[s]) : s \in Nodes})
    /\ bit' = bit + 1 /\ at' = 0
    /\ IF bit + 1 < Param
       THEN UNCHANGED <<config, locations, nextLocations>>
       ELSE /\ config' = [s \in Nodes |-> nextLocations[s][1] + nextLocations[s][2]]
            /\ locations' = <<>> /\ nextLocations' = <<>>
    /\ UNCHANGED <<network, layer, plain>>

Next == BeginLayer \/ Route \/ CloseLine \/ Move \/ EndBit

Spec == Init /\ [][Next]_vars

-----------------------------------------------------------------------------
\* Loads are numbers of messages, and work is under way for one network only.
TypeOK ==
    /\ network \in Networks /\ layer \in 0 .. NumLayers /\ max \in Nat
    /\ config \in [Nodes -> Nat]
    /\ todo = <<>> \/ locations = <<>>
    /\ source \in 1 .. NumServers + 1 /\ bit \in 0 .. Param /\ at \in 0 .. NumServers
    /\ max <= NumMessages \/ network = "butterfly"

\* However the messages are routed, a trial ends every line and layer with as
\* many messages as it began with.  Not so a butterfly of more than one bit: its
\* slices are the same from the second bit on, so messages at least double there
\* and none is lost.
Conserved ==
    LET complete == IF locations = <<>> THEN layer ELSE layer - 1
    IN  IF network = "butterfly" /\ Param > 1
        THEN Total(config) >= NumMessages * 2 ^ ((Param - 1) * complete)
        ELSE Total(config) = NumMessages

\* The reported size is large enough: after a layer the links of the smallest
\* network of lines that carried all messages have room for them.
LinkLoad ==
    layer > 0 /\ todo = <<>> /\ network # "butterfly" =>
        max * NumServers * Max({Len(Lines[i]) : i \in DOMAIN Lines}) >= NumMessages

\* A trial moves messages, loses none, and makes none except in a wide butterfly.
SimInv == TypeOK /\ Conserved /\ LinkLoad
=============================================================================
