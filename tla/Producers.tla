------------------------------ MODULE Producers ------------------------------
(***************************************************************************)
(* The choice of the producers of a span (bor/selection.go,                *)
(* bor/shuffle.go) from the validators of module ValidatorSet.  Where      *)
(* there are not more of them than ProducerCount, all of them produce.     *)
(*                                                                         *)
(* From block 375300 on the producers are drawn with replacement, in       *)
(* proportion to their power.  Before, every validator has as many slots   *)
(* as it has power, the slots are shuffled and the first ones taken.       *)
(* Random numbers have a small width and the hashes of the shuffle a small *)
(* number of bytes and bits; indices count from zero, as in the code.      *)
(***************************************************************************)
EXTENDS ValidatorSet, SequencesExt

CONSTANTS
    ProducerCount,  \* the parameter of the module
    MaxUint64,      \* the largest random number
    ByteBits,       \* the code's 8
    HashBytes,      \* the code's 32
    SlotsPerPower,  \* slots a unit of the model's power stands for
    MaxSlots        \* bound: slots of all validators

ASSUME ProducersAssumption ==
    /\ ProducerCount \in Nat /\ MaxUint64 \in Nat /\ MaxSlots \in Nat
    /\ SlotsPerPower \in Nat
    /\ ByteBits \in Nat \ {0} /\ HashBytes \in Nat \ {0}

-----------------------------------------------------------------------------
(* Drawing producers.                                                      *)

\* GetSpanEligibleValidators, in the order of the store's keys.
SpanEligibleValidators ==
    LET S == {s \in CurrentValidators : validators[s].end = 0}
    IN  [i \in 1 .. Cardinality(S) |->
            CHOOSE s \in S : Cardinality({t \in S : t <= s}) = i]

TotalEligiblePower ==
    SumFunction([s \in ToSet(SpanEligibleValidators) |-> validators[s].power])

\* [1, 2, 3] becomes [1, 3, 6].
WeightedRanges(weights) ==
    LET total[i \in 0 .. Len(weights)] ==
            IF i = 0 THEN 0 ELSE total[i - 1] + weights[i]
    IN  [i \in 1 .. Len(weights) |-> total[i]]

\* Mutant: a range does not hold its upper end.
BinarySearch_Strict(array, search) ==
    LET D == 0 .. Len(array) - 1
        index[p \in D \X D] ==
            LET mid == (p[1] + p[2]) \div 2
            IN  IF p[1] >= p[2] THEN p[1]
                ELSE IF array[mid + 1] > search THEN index[<<p[1], mid>>]
                ELSE index[<<mid + 1, p[2]>>]
    IN  index[<<0, Len(array) - 1>>]

\* The first entry that is not less than the target.
BinarySearch(array, search) ==
    LET D == 0 .. Len(array) - 1
        index[p \in D \X D] ==
            LET mid == (p[1] + p[2]) \div 2
            IN  IF p[1] >= p[2] THEN p[1]
                ELSE IF array[mid + 1] >= search THEN index[<<p[1], mid>>]
                ELSE index[<<mid + 1, p[2]>>]
    IN  index[<<0, Len(array) - 1>>]

\* randomRangeInclusive: the random numbers it does not reject.
Allowed(rangeLength) == 0 .. MaxUint64 - (MaxUint64 % rangeLength) - 2

\* SelectNextProducers: the producer that the allowed number r selects.
Drawn(eligible, r) ==
    LET ranges == WeightedRanges([i \in DOMAIN eligible |-> validators[eligible[i]].power])
    IN  eligible[1 + BinarySearch(ranges, 1 + (r % Last(ranges)))]

-----------------------------------------------------------------------------
(* Shuffling slots.  A seed and a round give a pivot and, for every block  *)
(* of positions, a hash; here bits[p] is the bit of position p.            *)

\* convertToSlots: how many there are.
Slots == SlotsPerPower * TotalEligiblePower

HashBits == ByteBits * HashBytes

\* Round up to whole hashes.
Positions(n) == 0 .. ((n + HashBits - 1) \div HashBits) * HashBits - 1

\* Mutant: the hash is the one the loop began with.
Refreshed_SameHash(s, j) ==
    IF j % ByteBits = ByteBits - 1
    THEN [s EXCEPT !.byte = s.source * HashBytes + (j % HashBits) \div ByteBits]
    ELSE s

\* A new hash, or a new byte of it, is taken only where j reaches its last position.
Refreshed(s, j) ==
    LET source == IF j % HashBits = HashBits - 1 THEN j \div HashBits ELSE s.source
    IN  [input  |-> s.input,
         source |-> source,
         byte   |-> IF j % ByteBits = ByteBits - 1
                    THEN source * HashBytes + (j % HashBits) \div ByteBits
                    ELSE s.byte]

SwapOrNot(s, i, j, bits) ==
    LET t == Refreshed(s, j)
    IN  IF bits[t.byte * ByteBits + (j % ByteBits)] = 1
        THEN [t EXCEPT !.input = [@ EXCEPT ![i] = s.input[j], ![j] = s.input[i]]]
        ELSE t

\* The loop from the pair first, last inwards while i < mirror.
Mirrored(input, first, last, mirror, bits) ==
    LET s[i \in first .. Max({first, mirror})] ==
            IF i = first
            THEN [input |-> input, source |-> last \div HashBits, byte |-> last \div ByteBits]
            ELSE SwapOrNot(s[i - 1], i - 1, last - (i - 1 - first), bits)
    IN  s[Max({first, mirror})].input

\* One round of innerShuffleList.
ShuffleRound(input, pivot, bits) ==
    LET n == Cardinality(DOMAIN input)
    IN  Mirrored(Mirrored(input, 0, pivot, (pivot + 1) \div 2, bits),
                 pivot + 1, n - 1, (pivot + n + 1) \div 2, bits)

\* One round of innerShuffledIndex.
ShuffledIndexRound(index, n, pivot, bits) ==
    LET flip == (pivot + n - index) % n
    IN  IF bits[Max({index, flip})] = 1 THEN flip ELSE index

-----------------------------------------------------------------------------
(* Properties.                                                             *)

\* Whoever joined, left, was slashed or took a new signer: an eligible validator
\* is found again by its ID, and the random numbers that select it are in
\* proportion to its power, but for one number at most, as the numbers allowed
\* are one less than whole rounds (bor/selection.go:112).
ProducersFollowPower ==
    LET eligible == SpanEligibleValidators
        total    == TotalEligiblePower
        drawn    == [r \in Allowed(total) |-> Drawn(eligible, r)]
        numbers(s) == Cardinality({r \in DOMAIN drawn : drawn[r] = s})
        fair(s)  == (MaxUint64 \div total) * validators[s].power
    IN  /\ ToSet(eligible) \subseteq bound
        /\ Len(eligible) > ProducerCount =>
               \A s \in ToSet(eligible) : numbers(s) \in {fair(s) - 1, fair(s)}

\* One round of the two shuffles of n slots, for every pivot and every hash.
RoundMatches(n) ==
    \A pivot \in 0 .. n - 1, bits \in [Positions(n) -> {0, 1}] :
        ShuffleRound([i \in 0 .. n - 1 |-> i], pivot, bits)
          = [i \in 0 .. n - 1 |-> ShuffledIndexRound(i, n, pivot, bits)]

RoundAsSpecified == [n \in 0 .. MaxSlots |-> RoundMatches(n)]

\* However many slots the validators have, the optimised shuffle of the list,
\* which keeps hashes and bytes from one pair to the next and treats every pair
\* once, moves each slot as the specification in the comment of ShuffledIndex
\* says (bor/shuffle.go:46-63), so that no slot is lost or counted twice.
ShuffleAsSpecified == RoundAsSpecified[Slots]
===============================================================================
