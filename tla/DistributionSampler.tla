-------------------------- MODULE DistributionSampler -------------------------
(***************************************************************************)
(* base::random::DistributionSampler (src/base/random/                     *)
(* distribution_sampler.cc): Walker's tables, one step per round of the    *)
(* loop that pairs low items with high ones.  Probabilities are numbers    *)
(* of parts of the sum of all weights, so that they are exact; what        *)
(* rounding does to them is not modelled.                                  *)
(***************************************************************************)
EXTENDS Integers, Sequences, SequencesExt, Functions

CONSTANTS
  Weights,      \* natural numbers, not all 0
  MaxItems      \* bound: items to draw from

SamplerAssumption ==
  /\ Weights \subseteq Nat /\ \E w \in Weights : w > 0
  /\ MaxItems \in Nat

VARIABLES
  weights,      \* the argument of the constructor, one weight or more
  pr,           \* the proportional weights, then the probabilities
  alt,          \* the item that takes the rest, NoItem if none
  high, low,
  built

vars == <<weights, pr, alt, high, low, built>>

NoItem == 0     \* -1 in the source, whose items begin with 0

sum == SumFunction(weights)

\* The items of a set in ascending order, as the constructor comes to them.
InOrder(S) == CHOOSE items \in [1 .. Cardinality(S) -> S] :
                \A i, j \in DOMAIN items : i < j => items[i] < items[j]

InitFrom(argument) ==
  /\ weights \in argument /\ sum > 0
  /\ pr = [i \in DOMAIN weights |-> weights[i] * Len(weights)]
  /\ alt = [i \in DOMAIN weights |-> NoItem]
  /\ low = InOrder({i \in DOMAIN pr : pr[i] < sum})
  /\ high = InOrder({i \in DOMAIN pr : pr[i] >= sum})
  /\ built = FALSE

Arguments == UNION {[1 .. n -> Weights] : n \in 1 .. MaxItems}

Init == InitFrom(Arguments)

\* Mutant: the high item is charged what the low one has, not what it lacks.
RemainingSwapped(l, h) == pr[h] - pr[l]

Remaining(l, h) == pr[h] - (sum - pr[l])

Pair ==
  /\ high # <<>> /\ low # <<>>
  /\ LET l == Last(low)
         h == Last(high)
     IN  /\ alt' = [alt EXCEPT ![l] = h]
         /\ pr' = [pr EXCEPT ![h] = Remaining(l, h)]
         /\ IF pr'[h] < sum
            THEN low' = Append(Front(low), h) /\ high' = Front(high)
            ELSE low' = Front(low) /\ UNCHANGED high
  /\ UNCHANGED <<weights, built>>

\* The items of the list that is not empty are always themselves.
Finish ==
  /\ ~ built /\ (high = <<>> \/ low = <<>>)
  /\ LET rest == ToSet(high) \cup ToSet(low)
     IN  /\ pr'  = [i \in DOMAIN pr |-> IF i \in rest THEN sum ELSE pr[i]]
         /\ alt' = [i \in DOMAIN alt |-> IF i \in rest THEN i ELSE alt[i]]
  /\ built' = TRUE /\ UNCHANGED <<weights, high, low>>

Next == Pair \/ Finish

Spec == Init /\ [][Next]_vars /\ WF_vars(Next)

-----------------------------------------------------------------------------
(* Properties.                                                             *)

\* Once the tables are built, Sample, which draws an item and then takes it or
\* its alternative, draws each item as often as its weight is of the sum; and a
\* high item always has a whole share left to give from.
SamplesByWeight ==
  /\ ~ built => \A i \in ToSet(high) : pr[i] >= sum
  /\ built => \A i \in DOMAIN weights :
       LET given == [j \in DOMAIN weights |-> IF alt[j] = i THEN sum - pr[j] ELSE 0]
       IN  pr[i] + SumFunction(given) = weights[i] * Len(weights)
=============================================================================
