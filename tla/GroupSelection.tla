--------------------------- MODULE GroupSelection ---------------------------
(***************************************************************************)
(* config/anytrustGroup.go and config/randomness.go: how large anytrust    *)
(* groups are and which servers are in them.                               *)
(*                                                                         *)
(* Random values are arbitrary choices.  Probabilities are exact           *)
(* fractions; the bound of Target on one of g groups is 1 / (sec * g)      *)
(* in place of 1 - (1 - 2^-lambda)^(1/g).                                  *)
(***************************************************************************)
EXTENDS Integers, Sequences, FiniteSets, SequencesExt, FiniteSetsExt

CONSTANTS
    NServers,   \* servers of the network
    MaxGroups,  \* bound: groups asked for
    MaxSecurity \* bound: factors of Target; 0 if sizes are given

SelectionAssumption ==
    /\ NServers \in Nat \ {0} /\ MaxGroups \in Nat \ {0} /\ MaxSecurity \in Nat

Servers == 0 .. NServers - 1

-----------------------------------------------------------------------------
(* The size of a group.                                                    *)

\* Probability that k servers chosen without replacement are among adv adversaries,
\* which are ceil(n * f).
AllBad(adv, k) ==
    LET p[j \in 0 .. k] ==
            IF j = 0 THEN [num |-> 1, den |-> 1]
            ELSE [num |-> p[j - 1].num * (adv - j + 1), den |-> p[j - 1].den * (NServers - j + 1)]
    IN  p[k]

\* The loop stops at the first size that is small enough, or at all servers.
GroupSizeWithoutReplacement(adv, sec, g) ==
    LET ok == {k \in 1 .. NServers - 1 : AllBad(adv, k).num * sec * g < AllBad(adv, k).den}
    IN  IF ok = {} THEN NServers ELSE Min(ok)

\* GroupSizeCost, times numGroups: the largest number of groups a server is in, times
\* the size.
GroupSizeCost(k, g) == ((g * k + NServers - 1) \div NServers) * k

\* Slip: costs of different numbers of groups are compared without dividing.
CheaperUnscaled(c, g, best) == c < best.cost
Cheaper(c, g, best) == c * best.groups < best.cost * g

\* The best of 1 .. n groups; the first candidate is one group of all servers.
CalcFewGroups2(adv, sec) ==
    LET best[g \in 0 .. NServers] ==
            IF g = 0 THEN [cost |-> NServers, groups |-> 1]
            ELSE LET c == GroupSizeCost(GroupSizeWithoutReplacement(adv, sec, g), g) IN
                 IF Cheaper(c, g, best[g - 1]) THEN [cost |-> c, groups |-> g] ELSE best[g - 1]
        g == best[NServers].groups
    IN  [size |-> GroupSizeWithoutReplacement(adv, sec, g), groups |-> g]

-----------------------------------------------------------------------------
(* Random permutations.                                                    *)

\* Slip: one of the two assignments is lost.
SwapHalf(p, a, b) == [p EXCEPT ![a] = p[b]]
Swap(p, a, b) == [p EXCEPT ![a] = p[b], ![b] = p[a]]
\* Slip: every position is swapped with any position.
SwapsAll(i) == 1 .. NServers
Swaps(i) == i .. NServers
\* Perm: position i is swapped with one of the positions from i on.
Knuth(js) ==
    LET pi[i \in 0 .. NServers - 1] ==
            IF i = 0 THEN [k \in 1 .. NServers |-> k - 1] ELSE Swap(pi[i - 1], i, js[i])
    IN  pi[NServers - 1]
ChoiceVectors == {js \in [1 .. NServers - 1 -> 1 .. NServers] : \A i \in 1 .. NServers - 1 : js[i] \in Swaps(i)}
Perms == {Knuth(js) : js \in ChoiceVectors}

-----------------------------------------------------------------------------
(* CreateSeparateGroupsWithSize.                                           *)

VARIABLES
    trust,         \* adversaries and factor the sizes are computed from, or <<>>
    nGroups, size, \* arguments
    permutation,   \* permutations of the servers, one after the other
    index,         \* entries of it that have been used
    servers,       \* members of the group being chosen
    groups,        \* groups chosen
    crashed        \* division by zero in the choice of swapLocation

vars == <<trust, nGroups, size, permutation, index, servers, groups, crashed>>

\* main: group size and number are given or computed from f.
Init ==
    /\ \/ trust = <<>> /\ nGroups \in 1 .. MaxGroups /\ size \in 1 .. NServers
       \/ /\ trust \in (0 .. NServers) \X (1 .. MaxSecurity)
          /\ nGroups = CalcFewGroups2(trust[1], trust[2]).groups
          /\ size = CalcFewGroups2(trust[1], trust[2]).size
    /\ permutation \in Perms
    /\ index = 0 /\ servers = <<>> /\ groups = <<>> /\ crashed = FALSE

Choosing == ~crashed /\ Len(groups) < nGroups
Candidate == permutation[index + 1]
\* Slip: only the member chosen last is compared.
UsedLast == servers # <<>> /\ Last(servers) = Candidate
Used == Candidate \in ToSet(servers)

\* The permutation is used up: another one is appended.
Extend ==
    /\ Choosing /\ index = Len(permutation)
    /\ \E p \in Perms : permutation' = permutation \o p
    /\ UNCHANGED <<trust, nGroups, size, index, servers, groups, crashed>>

\* Slip: one member too many.
FullLate == Len(servers) = size
Full == Len(servers) + 1 = size

\* The next server is new in this group; a full group is stored.
Take ==
    /\ Choosing /\ index < Len(permutation) /\ ~Used
    /\ index' = index + 1
    /\ IF Full
       THEN groups' = Append(groups, Append(servers, Candidate)) /\ servers' = <<>>
       ELSE servers' = Append(servers, Candidate) /\ UNCHANGED groups
    /\ UNCHANGED <<trust, nGroups, size, permutation, crashed>>

\* Slip: the duplicate may be swapped with any entry, used ones included.
SwapLocationsAll == 1 .. Len(permutation)
SwapLocations == index + 2 .. Len(permutation)

\* A duplicate is swapped with a later entry.
Reshuffle ==
    /\ Choosing /\ index < Len(permutation) /\ Used
    /\ IF SwapLocations = {} THEN crashed' = TRUE /\ UNCHANGED permutation
       ELSE /\ \E k \in SwapLocations : permutation' = Swap(permutation, index + 1, k)
            /\ UNCHANGED crashed
    /\ UNCHANGED <<trust, nGroups, size, index, servers, groups>>

Next == Extend \/ Take \/ Reshuffle

Spec == Init /\ [][Next]_vars

-----------------------------------------------------------------------------
Load(s) == Cardinality({k \in 1 .. index : permutation[k] = s})

\* Every part of the state keeps its type; the choice of a swap location never divides
\* by zero while groups are not larger than the network.
TypeOK ==
    /\ permutation \in Seq(Servers) /\ index \in 0 .. Len(permutation)
    /\ servers \in Seq(Servers) /\ Len(servers) < size
    /\ Len(groups) <= nGroups /\ ~crashed

\* Members of a group are different servers, also where a group begins in one
\* permutation and ends in the next and duplicates are swapped away.
MembersDistinct ==
    /\ \A k \in DOMAIN groups : Cardinality(ToSet(groups[k])) = size
    /\ Cardinality(ToSet(servers)) = Len(servers)

\* No server is in more groups than another by more than one at any time, and what is
\* counted is what the groups hold.
LoadBalanced ==
    /\ \A s, t \in Servers : Load(s) <= Load(t) + 1
    /\ \A s \in Servers : Load(s) = Cardinality({k \in DOMAIN groups : s \in ToSet(groups[k])})
                                    + (IF s \in ToSet(servers) THEN 1 ELSE 0)

\* "Select from disjoint sets of a random permutation": groups are disjoint as long as
\* there are enough servers, and every server is in a group as soon as there are enough
\* places.
DisjointAndCovering ==
    Len(groups) = nGroups =>
        /\ nGroups * size <= NServers =>
              \A j, k \in DOMAIN groups : j # k => ToSet(groups[j]) \cap ToSet(groups[k]) = {}
        /\ nGroups * size >= NServers => UNION {ToSet(groups[k]) : k \in DOMAIN groups} = Servers

\* Perm gives every permutation for exactly one vector of random choices.
KnuthUniform ==
    index = 0 /\ permutation # <<>> =>
        /\ ToSet(permutation) = Servers
        /\ Cardinality({js \in ChoiceVectors : Knuth(js) = permutation}) = 1

\* The chosen size keeps the probability of a group of adversaries below the bound, or
\* the group is the whole network; one server less would not, and the number of groups
\* is the one with the least cost per message.
SizeAdequate ==
    trust # <<>> =>
        LET adv == trust[1]
            sec == trust[2]
            cost(g) == GroupSizeCost(GroupSizeWithoutReplacement(adv, sec, g), g)
            \* sets of k servers that are all adversaries, and all sets of k servers
            bad(k) == Cardinality(kSubset(k, 1 .. adv))
            all(k) == Cardinality(kSubset(k, 1 .. NServers))
        IN  /\ size = NServers \/ bad(size) * sec * nGroups < all(size)
            /\ size > 1 => bad(size - 1) * sec * nGroups >= all(size - 1)
            /\ \A g \in 1 .. NServers : cost(nGroups) * g <= cost(g) * nGroups

\* What config.go relies on when it takes these groups.
SelectionInv ==
    /\ TypeOK /\ MembersDistinct /\ LoadBalanced /\ DisjointAndCovering
    /\ KnuthUniform /\ SizeAdequate
=============================================================================
