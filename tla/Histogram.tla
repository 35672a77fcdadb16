------------------------------ MODULE Histogram -------------------------------
(***************************************************************************)
(* base::Histogram (src/base/histogram.cc) over custom bucket limits, and  *)
(* its percentiles as exact fractions.  Values at or above the last limit  *)
(* are left out: Add counts them in a bucket behind the last (:73).  The   *)
(* sums behind Average and StandardDeviation are not modelled.             *)
(***************************************************************************)
EXTENDS Integers, Sequences, SequencesExt, FiniteSetsExt

CONSTANTS
  bucket_limits_,   \* a sequence of increasing numbers
  Samples,          \* values that are added, below the last limit
  Percents,         \* values of p
  MaxAdds           \* bound: values added between two calls of Clear

HistogramAssumption ==
  /\ bucket_limits_ # <<>>
  /\ \A i \in 2 .. Len(bucket_limits_) : bucket_limits_[i] > bucket_limits_[i - 1]
  /\ \A v \in Samples : v < Last(bucket_limits_)
  /\ Percents \subseteq 0 .. 100

VARIABLES
  min_, max_, buckets_,
  added             \* history: the values added, in ascending order

vars == <<min_, max_, buckets_, added>>

num_ == Len(added)

Lowest == Min(Samples) - 1      \* stands for -DBL_MAX

Buckets == DOMAIN bucket_limits_

Cleared(lo, hi, counts, values) ==
  /\ lo = Last(bucket_limits_) /\ hi = Lowest
  /\ counts = [b \in Buckets |-> 0] /\ values = <<>>

Init  == Cleared(min_, max_, buckets_, added)
Clear == Cleared(min_', max_', buckets_', added')

\* The first bucket whose limit is greater: std::upper_bound.
BucketOf(v) == CHOOSE b \in Buckets :
                 /\ v < bucket_limits_[b]
                 /\ b > 1 => bucket_limits_[b - 1] <= v

Add(value) ==
  /\ buckets_' = [buckets_ EXCEPT ![BucketOf(value)] = @ + 1]
  /\ min_' = Min({min_, value})
  /\ max_' = Max({max_, value})
  /\ added' = SortSeq(Append(added, value), <)

Next ==
  \/ Len(added) < MaxAdds /\ \E value \in Samples : Add(value)
  \/ Clear

Spec == Init /\ [][Next]_vars

-----------------------------------------------------------------------------
(* The percentiles.                                                        *)

\* The number of values in the buckets up to b.
CountTo(b) == FoldLeft(+, 0, SubSeq(buckets_, 1, b))

\* The first bucket that reaches p percent of the values and has one itself.
PercentileBucket(p) ==
  Min({b \in Buckets : CountTo(b) * 100 >= num_ * p /\ buckets_[b] > 0})

Fraction(n, d) == [num |-> n, den |-> d]

\* Mutant: the upper end is the limit of the bucket, whatever is in it.
RightEndUntight(b) == bucket_limits_[b]

LeftEnd(b)  == IF CountTo(b - 1) = 0 THEN min_
               ELSE Max({bucket_limits_[b - 1], min_})
RightEnd(b) == Min({bucket_limits_[b], max_})

\* Between the ends of the bucket, as far as the threshold is between the counts.
Percentile(p) ==
  LET b    == PercentileBucket(p)
      span == 100 * buckets_[b]
  IN  Fraction(LeftEnd(b) * span
                 + (num_ * p - 100 * CountTo(b - 1)) * (RightEnd(b) - LeftEnd(b)),
               span)

-----------------------------------------------------------------------------
(* Property.                                                               *)

AtMost(x, y) == x.num * y.den <= y.num * x.den

\* The least of the values that p percent of the values are at most.
TruePercentile(p) ==
  Min({added[i] : i \in {j \in 1 .. num_ : 100 * j >= num_ * p}})

\* Percentiles rise with p from the least to the greatest value, and each lies
\* in the bucket of the value that really is there.
PercentilesOrdered ==
  num_ > 0 =>
    /\ \A p \in Percents :
         LET b == BucketOf(TruePercentile(p))
         IN  /\ AtMost(Fraction(min_, 1), Percentile(p))
             /\ AtMost(Percentile(p), Fraction(max_, 1))
             /\ b > 1 => AtMost(Fraction(bucket_limits_[b - 1], 1), Percentile(p))
             /\ AtMost(Percentile(p), Fraction(bucket_limits_[b], 1))
    /\ \A p, q \in Percents : p <= q => AtMost(Percentile(p), Percentile(q))
=============================================================================
