-------------------------- MODULE RunningStatistics --------------------------
(***************************************************************************)
(* webrtc_impl::RunningStatistics: the size, mean and variance of samples, *)
(* updated incrementally, with the least and the greatest sample seen.     *)
(* Doubles are exact fractions here: rounding is left out, division by     *)
(* zero is not.                                                            *)
(***************************************************************************)
EXTENDS Integers, Sequences, FiniteSets, FiniteSetsExt, SequencesExt

CONSTANTS
    Fed,       \* the samples
    Infinity,  \* infinity_or_max<T>(), and minus_infinity_or_min<T>() negated
    MaxFed     \* bound: how many samples statistics have

ASSUME RunningAssumption ==
    Infinity \in Nat /\ Fed \subseteq (-Infinity)..Infinity /\ MaxFed \in Nat

VARIABLES
    statistics,  \* two objects
    fed          \* history: the samples each was fed, and those that were not removed

runningVars == <<statistics, fed>>

-----------------------------------------------------------------------------
(* Fractions <<numerator, denominator>> in lowest terms, and not a number. *)
NaN == <<0, 0>>
Fraction(p, q) ==
    LET divisors == {d \in 1..q : p % d = 0 /\ q % d = 0}
    IN  IF q = 0 THEN NaN ELSE <<p \div Max(divisors), q \div Max(divisors)>>
Whole(n) == <<n, 1>>
Plus(a, b) == Fraction(a[1] * b[2] + b[1] * a[2], a[2] * b[2])
Times(a, b) == Fraction(a[1] * b[1], a[2] * b[2])
Minus(a, b) == Plus(a, Times(Whole(-1), b))
Over(a, n) == Fraction(a[1], a[2] * n)

NoStatistics ==
    [size_ |-> 0, min_ |-> Infinity, max_ |-> -Infinity, mean_ |-> Whole(0), cumul_ |-> Whole(0)]

WithSample(s, sample) ==
    LET delta == Minus(Whole(sample), s.mean_)
        mean == Plus(s.mean_, Over(delta, s.size_ + 1))
    IN  [size_ |-> s.size_ + 1,
         min_ |-> Min({s.min_, sample}), max_ |-> Max({s.max_, sample}),
         mean_ |-> mean,
         cumul_ |-> Plus(s.cumul_, Times(delta, Minus(Whole(sample), mean)))]

(* RemoveSample, which "doesn't affect min or max". *)
WithoutSample(s, sample) ==
    LET delta == Minus(Whole(sample), s.mean_)
        mean == Minus(s.mean_, Over(delta, s.size_ - 1))
    IN  IF s.size_ = 0 THEN s
        ELSE [s EXCEPT !.size_ = @ - 1, !.mean_ = mean,
                       !.cumul_ = Minus(@, Times(delta, Minus(Whole(sample), mean)))]

(* MergeStatistics if each cumulant were kept as it is. *)
Merged_Uncorrected(s, other) ==
    IF other.size_ = 0 THEN s
    ELSE [size_ |-> s.size_ + other.size_,
          min_ |-> Min({s.min_, other.min_}), max_ |-> Max({s.max_, other.max_}),
          mean_ |-> Over(Plus(Times(s.mean_, Whole(s.size_)),
                              Times(other.mean_, Whole(other.size_))), s.size_ + other.size_),
          cumul_ |-> Plus(s.cumul_, other.cumul_)]

Merged(s, other) ==
    LET new_size == s.size_ + other.size_
        new_mean == Over(Plus(Times(s.mean_, Whole(s.size_)),
                              Times(other.mean_, Whole(other.size_))), new_size)
        Delta(st) == Times(Whole(st.size_),
                           Plus(Times(new_mean, Minus(new_mean, Times(Whole(2), st.mean_))),
                                Times(st.mean_, st.mean_)))
    IN  IF other.size_ = 0 THEN s
        ELSE [size_ |-> new_size,
              min_ |-> Min({s.min_, other.min_}), max_ |-> Max({s.max_, other.max_}),
              mean_ |-> new_mean,
              cumul_ |-> Plus(Plus(s.cumul_, Delta(s)), Plus(other.cumul_, Delta(other)))]

-----------------------------------------------------------------------------
FeedSample(i, sample) ==
    /\ Len(fed[i].kept) < MaxFed
    /\ statistics' = [statistics EXCEPT ![i] = WithSample(@, sample)]
    /\ fed' = [fed EXCEPT ![i].kept = SortSeq(Append(@, sample), <), ![i].seen = @ \cup {sample}]

(* RemoveSample of a sample that was added and is not the only one left:   *)
(* the last one is divided by zero, which module RollingAccumulator shows. *)
RemoveSample(i, k) ==
    /\ k \in DOMAIN fed[i].kept /\ Len(fed[i].kept) > 1
    /\ statistics' = [statistics EXCEPT ![i] = WithoutSample(@, fed[i].kept[k])]
    /\ fed' = [fed EXCEPT ![i].kept = RemoveAt(@, k)]

MergeStatistics(i, j) ==
    /\ Len(fed[i].kept) + Len(fed[j].kept) <= MaxFed
    /\ statistics' = [statistics EXCEPT ![i] = Merged(@, statistics[j])]
    /\ fed' = [fed EXCEPT ![i] = [kept |-> SortSeq(fed[i].kept \o fed[j].kept, <),
                                  seen |-> fed[i].seen \cup fed[j].seen]]

RunningInit ==
    /\ statistics = <<NoStatistics, NoStatistics>>
    /\ fed = [i \in {1, 2} |-> [kept |-> <<>>, seen |-> {}]]

RunningNext ==
    \/ \E i \in {1, 2} : \/ \E sample \in Fed : FeedSample(i, sample)
                         \/ \E k \in 1..MaxFed : RemoveSample(i, k)
    \/ \E i, j \in {1, 2} : MergeStatistics(i, j)

RunningSpec == RunningInit /\ [][RunningNext]_runningVars

-----------------------------------------------------------------------------
SumOf(s) == FoldLeft(LAMBDA a, b : a + b, 0, s)

(* s is the statistics of the samples in window: the mean is their mean,   *)
(* and cumul_ the sum of the squares of their distances from it.           *)
IsStatisticsOf(s, window) ==
    /\ s.size_ = Len(window)
    /\ window # <<>> =>
          LET n == Len(window)
              mean == Fraction(SumOf(window), n)
              squares == [k \in DOMAIN window |->
                             Times(Minus(Whole(window[k]), mean), Minus(Whole(window[k]), mean))]
          IN  /\ s.mean_ = mean
              /\ s.cumul_ = FoldLeft(Plus, Whole(0), squares)

(* However samples were added, removed and merged, in whichever order, the *)
(* statistics are those of the samples that are left, "as if samples were  *)
(* added one by one", and min_ and max_ are those of all that were seen.   *)
StatisticsAreExact ==
    \A i \in {1, 2} :
        /\ IsStatisticsOf(statistics[i], fed[i].kept)
        /\ fed[i].seen # {} => /\ statistics[i].max_ = Max(fed[i].seen)
                               /\ statistics[i].min_ = Min(fed[i].seen)
=============================================================================
