------------------------------ MODULE Histogram ------------------------------
(***************************************************************************)
(* The histogram of the LevelDB library (util/histogram.cc): two of them   *)
(* are filled and merged.  Values are natural numbers; a percentile is a   *)
(* fraction, num over den, as the code takes it by division.               *)
(***************************************************************************)
EXTENDS Integers, Sequences, FiniteSets, Bags, FiniteSetsExt, BagsExt

CONSTANTS
  kBucketLimit,     \* the upper ends of the buckets, the last beyond all
  Values,           \* the values added
  Percentiles,      \* the percentiles asked for
  MaxAdded          \* bound: values in a histogram

VARIABLES
  hist,             \* the fields of each histogram
  added             \* the bag of the values that are in it

histogramVars == <<hist, added>>

kNumBuckets == Len(kBucketLimit)
Buckets == 1 .. kNumBuckets
Names == {"a", "b"}

-----------------------------------------------------------------------------
Cleared ==
  [min |-> kBucketLimit[kNumBuckets], max |-> 0, num |-> 0, sum |-> 0,
   sum_squares |-> 0, buckets |-> [b \in Buckets |-> 0]]

(* The first bucket whose limit is above the value, or else the last.       *)
BucketOf(value) ==
  Min({b \in Buckets : kBucketLimit[b] > value} \cup {kNumBuckets})

Lesser(x, y) == IF x < y THEN x ELSE y
Greater(x, y) == IF x > y THEN x ELSE y

With(h, value) ==
  [min |-> Lesser(h.min, value), max |-> Greater(h.max, value),
   num |-> h.num + 1, sum |-> h.sum + value,
   sum_squares |-> h.sum_squares + value * value,
   buckets |-> [h.buckets EXCEPT ![BucketOf(value)] = @ + 1]]

Both(h, other) ==
  [min |-> Lesser(h.min, other.min), max |-> Greater(h.max, other.max),
   num |-> h.num + other.num, sum |-> h.sum + other.sum,
   sum_squares |-> h.sum_squares + other.sum_squares,
   buckets |-> [b \in Buckets |-> h.buckets[b] + other.buckets[b]]]

UpTo(h, b) == MapThenSumSet(LAMBDA c : h.buckets[c], 1 .. b)

(* The first bucket in which the percentile is reached, and the point in it *)
(* by its part of the values, within the extremes; 0/0 of an empty one.     *)
NaN == [num |-> 0, den |-> 0]
Fraction(n, d) == [num |-> n, den |-> d]
Percentile(h, p) ==
  LET b == Min({c \in Buckets : 100 * UpTo(h, c) >= h.num * p})
      left == IF b = 1 THEN 0 ELSE kBucketLimit[b - 1]
      size == h.buckets[b]
      over == h.num * p - 100 * (UpTo(h, b) - size)
      r == Fraction(100 * size * left + (kBucketLimit[b] - left) * over,
                    100 * size)
  IN  IF size = 0 THEN NaN
      ELSE IF r.num < h.min * r.den THEN Fraction(h.min, 1)
      ELSE IF r.num > h.max * r.den THEN Fraction(h.max, 1)
      ELSE r

-----------------------------------------------------------------------------
Clear(n) ==
  /\ hist' = [hist EXCEPT ![n] = Cleared]
  /\ added' = [added EXCEPT ![n] = EmptyBag]
Add(n, value) ==
  /\ BagCardinality(added[n]) < MaxAdded
  /\ hist' = [hist EXCEPT ![n] = With(@, value)]
  /\ added' = [added EXCEPT ![n] = BagAdd(@, value)]
Merge(n, m) ==
  /\ BagCardinality(added[n]) + BagCardinality(added[m]) <= MaxAdded
  /\ hist' = [hist EXCEPT ![n] = Both(@, hist[m])]
  /\ added' = [added EXCEPT ![n] = @ (+) added[m]]

Init ==
  hist = [n \in Names |-> Cleared] /\ added = [n \in Names |-> EmptyBag]

Next ==
  \E n \in Names :
    \/ Clear(n)
    \/ \E value \in Values : Add(n, value)
    \/ \E m \in Names : Merge(n, m)

-----------------------------------------------------------------------------
Weight(n, S) == MapThenSumSet(LAMBDA v : CopiesIn(v, added[n]), S)
Kept(n) == BagToSet(added[n])

(* A histogram is that of all values added to it and to those merged into   *)
(* it, itself included; each is in the bucket of its range.                 *)
MergedIsAdded ==
  \A n \in Names :
    LET h == hist[n]
    IN  /\ h.num = BagCardinality(added[n])
        /\ h.sum = MapThenSumSet(LAMBDA v : v * CopiesIn(v, added[n]), Kept(n))
        /\ h.num > 0 => h.min = Min(Kept(n)) /\ h.max = Max(Kept(n))
        /\ \A b \in 1 .. kNumBuckets - 1 :
             UpTo(h, b) = Weight(n, {v \in Kept(n) : v < kBucketLimit[b]})

(* Percentiles lie within the values and go up, and each is reached within  *)
(* the bucket it is in: enough values are below the end of that.            *)
PercentilesAreInPlace ==
  \A n \in Names, p \in Percentiles :
    hist[n].num > 0 =>
      LET r == Percentile(hist[n], p)
          end == Min({kBucketLimit[b] : b \in {c \in Buckets :
                        kBucketLimit[c] * r.den >= r.num}})
      IN  /\ r.den > 0
          /\ Min(Kept(n)) * r.den <= r.num /\ r.num <= Max(Kept(n)) * r.den
          /\ 100 * Weight(n, {v \in Kept(n) : v <= end}) >= p * hist[n].num
          /\ \A q \in Percentiles :
               LET s == Percentile(hist[n], q)
               IN  p <= q => r.num * s.den <= s.num * r.den
=============================================================================
