---------------------------- MODULE WeightedPicker ----------------------------
(***************************************************************************)
(* base::random::WeightedPicker (src/base/random/weighted_picker.cc): a    *)
(* binary tree of sums over the weights, under calls that change, add and  *)
(* drop elements.  Levels and nodes are numbered from 0, as in the source. *)
(***************************************************************************)
EXTENDS Integers, FiniteSets, FiniteSetsExt

CONSTANTS
  Weights,      \* the weights that are set
  MaxElements,  \* bound: elements of the picker
  kRandomBits   \* bits of a random number, 32 in the source

WeightedPickerAssumption ==
  /\ Weights \subseteq Nat
  /\ \A w \in Weights : w * MaxElements < 2 ^ kRandomBits

VARIABLES
  N_, level_,
  weights       \* history: the weight last given to each element

vars == <<N_, level_, weights>>

LevelSize(l) == 2 ^ l

num_levels_ == Cardinality(DOMAIN level_)

\* The levels that the constructor makes for n elements.
LevelsFor(n) == CHOOSE k \in 1 .. n + 1 :
                  /\ LevelSize(k - 1) >= n
                  /\ \A j \in 1 .. k - 1 : LevelSize(j - 1) < n

\* k levels over the weights of their first leaves; the other leaves are 0.
RebuildTreeWeights(ws, k) ==
  LET level[l \in 0 .. k - 1] ==
        [i \in 0 .. LevelSize(l) - 1 |->
           IF l < k - 1 THEN level[l + 1][2 * i] + level[l + 1][2 * i + 1]
           ELSE IF i \in DOMAIN ws THEN ws[i] ELSE 0]
  IN  level

\* The weight of a leaf and the sums above it up to the root.
WithWeight(tree, index, weight) ==
  LET leaves == Cardinality(DOMAIN tree) - 1
      delta  == weight - tree[leaves][index]
  IN  [l \in DOMAIN tree |->
         [tree[l] EXCEPT ![index \div LevelSize(leaves - l)] = @ + delta]]

\* Mutant: elements that are dropped keep their weights.
ResizedKeeping(n) ==
  IF n <= LevelSize(num_levels_ - 1) THEN level_
  ELSE RebuildTreeWeights([i \in 0 .. N_ - 1 |-> level_[num_levels_ - 1][i]], LevelsFor(n))

\* In the levels there are, or copied into a larger tree.
Resized(n) ==
  IF n <= LevelSize(num_levels_ - 1)
  THEN FoldSet(LAMBDA i, tree : WithWeight(tree, i, 0), level_, n .. N_ - 1)
  ELSE RebuildTreeWeights([i \in 0 .. N_ - 1 |-> level_[num_levels_ - 1][i]], LevelsFor(n))

Init ==
  /\ N_ \in 0 .. MaxElements
  /\ weights = [i \in 0 .. N_ - 1 |-> 1]
  /\ level_ = RebuildTreeWeights(weights, LevelsFor(N_))

set_weight(index, weight) ==
  /\ level_' = WithWeight(level_, index, weight)
  /\ weights' = [weights EXCEPT ![index] = weight]
  /\ UNCHANGED N_

SetAllWeights(weight) ==
  /\ weights' = [i \in 0 .. N_ - 1 |-> weight]
  /\ level_' = RebuildTreeWeights(weights', num_levels_)
  /\ UNCHANGED N_

SetWeightsFromArray(n, ws) ==
  /\ N_' = n /\ weights' = ws
  /\ level_' = RebuildTreeWeights(ws, Cardinality(DOMAIN Resized(n)))

Resize(n) ==
  /\ N_' = n /\ level_' = Resized(n)
  /\ weights' = [i \in 0 .. n - 1 |-> IF i < N_ THEN weights[i] ELSE 0]

Append(weight) ==
  /\ N_ < MaxElements
  /\ N_' = N_ + 1
  /\ level_' = WithWeight(Resized(N_ + 1), N_, weight)
  /\ weights' = [i \in 0 .. N_ |-> IF i < N_ THEN weights[i] ELSE weight]

Next ==
  \/ \E index \in 0 .. N_ - 1, weight \in Weights : set_weight(index, weight)
  \/ \E weight \in Weights : SetAllWeights(weight) \/ Append(weight)
  \/ \E n \in 0 .. MaxElements :
       Resize(n) \/ \E ws \in [0 .. n - 1 -> Weights] : SetWeightsFromArray(n, ws)

Spec == Init /\ [][Next]_vars

-----------------------------------------------------------------------------
(* What the calls that change nothing answer.                              *)

total_weight == level_[0][0]

\* The random numbers that UnbiasedUniform does not draw again: all of them for
\* a power of two, and else those from rem on.
Accepted(n) ==
  LET range == 2 ^ kRandomBits - 1
  IN  IF \E b \in 0 .. kRandomBits : n = 2 ^ b THEN 0 .. range
      ELSE (range % n) + 1 .. range

\* The leaf whose share of the total covers the position, going down the tree,
\* and what is left of the position there.
PickAt(position) ==
  LET at[l \in DOMAIN level_] ==
        IF l = 0 THEN [index |-> 0, position |-> position]
        ELSE LET above == at[l - 1]
                 left  == level_[l][2 * above.index]
             IN  IF above.position < left
                 THEN [above EXCEPT !.index = 2 * @]
                 ELSE [index |-> 2 * above.index + 1, position |-> above.position - left]
  IN  at[num_levels_ - 1]

-----------------------------------------------------------------------------
(* Property.                                                               *)

\* After any calls an element is picked by as many of the random numbers as its
\* weight is of the total: elements that were dropped, leaves that have no
\* element and the numbers that are drawn again take no share.
PicksByWeight ==
  LET total == total_weight
      drawn == Accepted(total)
      picks == [r \in drawn |-> PickAt(r % total).index]
  IN  IF total = 0 THEN \A i \in 0 .. N_ - 1 : weights[i] = 0
      ELSE /\ \A r \in drawn : picks[r] \in 0 .. N_ - 1
           /\ \A i \in 0 .. N_ - 1 :
                Cardinality({r \in drawn : picks[r] = i}) * total
                  = weights[i] * Cardinality(drawn)
=============================================================================
