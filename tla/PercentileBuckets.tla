------------------------- MODULE PercentileBuckets --------------------------
(***************************************************************************)
(* The buckets of the percentile meters: the table of bucket values that   *)
(* tools/gen_perc_bucket_values.cc computes and the closed formula by      *)
(* which PercentileBucketIndexOf (spectator/percentile_buckets.cc) finds   *)
(* the bucket of an amount in it.  Integers have Width bits instead of 64. *)
(***************************************************************************)
EXTENDS Integers, Sequences, FiniteSets

CONSTANT Width  \* 64 in the code

ASSUME WidthAssumption == Width \in Nat /\ Width >= 6 /\ Width % 2 = 0

VARIABLE amount  \* the amount being recorded

\* 1 << e
Bit(e) == 2^e

MaxInt == Bit(Width - 1) - 1

\* The value of n in Width bits, signed.
Signed(n) == LET m == n % Bit(Width) IN IF m > MaxInt THEN m - Bit(Width) ELSE m

-----------------------------------------------------------------------------
\* The generator

Exponents == {e \in 2..Width - 1 : e % 2 = 0}

\* The values from 2^e in steps of a third of it, up to a step below 2^(e+2);
\* none where that bound overflows.
BucketsFrom(e) ==
  LET delta == Bit(e) \div 3
      below == Signed(Bit(e) * 4) - delta
  IN {v \in {Bit(e) + j * delta : j \in 0..11} : v < below}

Pushed == {1, 2, 3} \cup UNION {BucketsFrom(e) : e \in Exponents}

\* bucketValues, from index 1 on: the values are pushed in increasing order.
BucketValues ==
  LET nth(i) == CHOOSE v \in Pushed : Cardinality({w \in Pushed : w < v}) = i - 1
  IN Append([i \in 1..Cardinality(Pushed) |-> nth(i)], MaxInt)

PowerOf4Index_after == [k \in 0..(Width \div 2) - 1 |->
  Cardinality({i \in 1..Len(BucketValues) - 1 : BucketValues[i] <= Bit(2 * k)})]

\* powerOf4Index: how many values there are before those from Bit(2 * k).
PowerOf4Index == [k \in 0..(Width \div 2) - 1 |->
                    Cardinality({i \in 1..Len(BucketValues) - 1 : BucketValues[i] < Bit(2 * k)})]

-----------------------------------------------------------------------------
\* PercentileBucketIndexOf, which counts from 0

Log2(v) == CHOOSE e \in 0..Width - 2 : Bit(e) <= v /\ v < Bit(e + 1)

PercentileBucketIndexOf(v) ==
  LET shift == 2 * (Log2(v) \div 2)
      base == Bit(shift)
      offset == (v - base) \div (base \div 3)
      pos == offset + PowerOf4Index[shift \div 2]
      last == Len(BucketValues) - 1
  IN IF v <= 0 THEN 0 ELSE IF v <= 4 THEN v
     ELSE IF pos >= last THEN last ELSE pos + 1

GetPercBucketValue(i) == BucketValues[i + 1]

-----------------------------------------------------------------------------
BucketInit == amount = -1

\* The next amount, after the largest the first again.
RecordNext == amount' = IF amount = MaxInt THEN -1 ELSE amount + 1

BucketSpec == BucketInit /\ [][RecordNext]_amount

-----------------------------------------------------------------------------
\* Types
BucketTypeOK == amount \in -1..MaxInt

\* Every amount gets a bucket of the table whose value exceeds it (the largest
\* amount, which is the last value, excepted), and no more than one bucket too
\* high; and a larger amount never gets a lower bucket.  The formula agrees so
\* with a table that another program computed, at every power of four and where
\* the top range overflows.
BucketBounds ==
  LET i == PercentileBucketIndexOf(amount)
  IN /\ i \in 0..Len(BucketValues) - 1
     /\ amount < GetPercBucketValue(i) \/ (amount = MaxInt /\ i = Len(BucketValues) - 1)
     /\ i >= 2 /\ i < Len(BucketValues) - 1 => amount >= GetPercBucketValue(i - 2)
     /\ amount < MaxInt => i <= PercentileBucketIndexOf(amount + 1)
=============================================================================
