-------------------------- MODULE PercentileFilter --------------------------
(***************************************************************************)
(* webrtc::PercentileFilter and webrtc::MovingMedianFilter over it.  The   *)
(* filter keeps its observations in a multiset, with an iterator to the    *)
(* percentile and the iterator's index, which the code maintains           *)
(* separately: an iterator of std::multiset stays with its element when    *)
(* others are inserted or erased, and the index must follow.               *)
(*                                                                         *)
(* A filter is a record: vals, the multiset in order; it, the position of  *)
(* the iterator (one past the last for end()); index, percentile_index_.   *)
(***************************************************************************)
EXTENDS Integers, Sequences, FiniteSets, SequencesExt

CONSTANTS
    Value,
    Percentile,  \* the percentiles, as fractions <<numerator, denominator>>
    MaxSize,     \* bound: observations in a filter without a window
    WindowSize

ASSUME FilterAssumption ==
    /\ Value \subseteq Int
    /\ \A p \in Percentile : p[2] > 0 /\ p[1] >= 0 /\ p[1] <= p[2]
    /\ MaxSize \in Nat /\ WindowSize \in Nat \ {0}

VARIABLES
    percentile_,  \* of the filter
    filter,       \* a PercentileFilter
    median,       \* the PercentileFilter of a MovingMedianFilter
    median_samples_      \* its list of the latest samples

filterVars == <<percentile_, filter, median, median_samples_>>

NoObservations == [vals |-> <<>>, it |-> 1, index |-> 0]

-----------------------------------------------------------------------------
(* static_cast<int64_t>(percentile_ * (size - 1)) *)
TargetIndex(p, size) == (p[1] * (size - 1)) \div p[2]

(* UpdatePercentileIterator *)
Updated(f, p) ==
    IF f.vals = <<>> THEN f
    ELSE [f EXCEPT !.it = @ + (TargetIndex(p, Len(f.vals)) - f.index),
                   !.index = TargetIndex(p, Len(f.vals))]

lower_bound(f, value) == Cardinality({i \in DOMAIN f.vals : f.vals[i] < value}) + 1
upper_bound(f, value) == Cardinality({i \in DOMAIN f.vals : f.vals[i] <= value}) + 1

(* Insert: the element goes to the upper bound of its equals. *)
Inserted(f, p, value) ==
    LET at == upper_bound(f, value)
        vals == InsertAt(f.vals, at, value)
    IN  IF f.vals = <<>> THEN Updated([vals |-> vals, it |-> 1, index |-> 0], p)
        ELSE Updated([vals |-> vals,
                      it |-> IF at <= f.it THEN f.it + 1 ELSE f.it,
                      index |-> IF value < f.vals[f.it] THEN f.index + 1 ELSE f.index], p)

(* Erase if it compared with < : an equal element before the iterator      *)
(* would not be counted.                                                   *)
Erased_Less(f, p, value) ==
    LET at == lower_bound(f, value)
        vals == RemoveAt(f.vals, at)
    IN  IF at > Len(f.vals) THEN f
        ELSE IF f.vals[at] # value THEN f
        ELSE IF at = f.it THEN Updated([f EXCEPT !.vals = vals], p)
        ELSE Updated([vals |-> vals,
                      it |-> IF at < f.it THEN f.it - 1 ELSE f.it,
                      index |-> IF value < f.vals[f.it] THEN f.index - 1 ELSE f.index], p)

(* Erase: the first of the equal elements goes, and erasing the element at *)
(* the iterator leaves the iterator at the following one.                  *)
Erased(f, p, value) ==
    LET at == lower_bound(f, value)
        vals == RemoveAt(f.vals, at)
    IN  IF at > Len(f.vals) THEN f
        ELSE IF f.vals[at] # value THEN f
        ELSE IF at = f.it THEN Updated([f EXCEPT !.vals = vals], p)
        ELSE Updated([vals |-> vals,
                      it |-> IF at < f.it THEN f.it - 1 ELSE f.it,
                      index |-> IF value <= f.vals[f.it] THEN f.index - 1 ELSE f.index], p)

(* GetPercentileValue *)
PercentileValue(f) == IF f.vals = <<>> THEN 0 ELSE f.vals[f.it]

-----------------------------------------------------------------------------
Insert(value) ==
    /\ Len(filter.vals) < MaxSize
    /\ filter' = Inserted(filter, percentile_, value)
    /\ UNCHANGED <<percentile_, median, median_samples_>>

Erase(value) ==
    /\ filter' = Erased(filter, percentile_, value)
    /\ UNCHANGED <<percentile_, median, median_samples_>>

ResetFilter ==
    /\ filter' = NoObservations
    /\ UNCHANGED <<percentile_, median, median_samples_>>

Half == <<1, 2>>

(* MovingMedianFilter::Insert: when the window is full, the oldest sample  *)
(* goes.                                                                   *)
MedianInsert(value) ==
    LET longer == Append(median_samples_, value) IN
    /\ IF Len(longer) > WindowSize
       THEN /\ median' = Erased(Inserted(median, Half, value), Half, Head(longer))
            /\ median_samples_' = Tail(longer)
       ELSE /\ median' = Inserted(median, Half, value)
            /\ median_samples_' = longer
    /\ UNCHANGED <<percentile_, filter>>

MedianReset ==
    /\ median' = NoObservations
    /\ median_samples_' = <<>>
    /\ UNCHANGED <<percentile_, filter>>

FilterInit ==
    /\ percentile_ \in Percentile
    /\ filter = NoObservations
    /\ median = NoObservations
    /\ median_samples_ = <<>>

(* The two objects are independent. *)
FilterNext == ResetFilter \/ \E value \in Value : Insert(value) \/ Erase(value)
MedianNext == MedianReset \/ \E value \in Value : MedianInsert(value)

FilterSpec == FilterInit /\ [][FilterNext \/ MedianNext]_filterVars

-----------------------------------------------------------------------------
(* The element at rank k, counted from 0, of the values in s. *)
HasRank(v, s, k) ==
    /\ Cardinality({i \in DOMAIN s : s[i] < v}) <= k
    /\ Cardinality({i \in DOMAIN s : s[i] <= v}) > k

(* The iterator and its index, which Insert and Erase update by different  *)
(* comparisons, never drift apart, however values repeat and whatever is   *)
(* erased: the iterator is always at the percentile, and GetFilteredValue  *)
(* of a MovingMedianFilter is the lower median of the window's samples.    *)
FiltersAtPercentile ==
    /\ filter.vals # <<>> =>
          /\ filter.it = filter.index + 1
          /\ filter.index = TargetIndex(percentile_, Len(filter.vals))
          /\ filter.it \in DOMAIN filter.vals
    /\ median_samples_ # <<>> =>
          /\ median.it \in DOMAIN median.vals
          /\ HasRank(PercentileValue(median), median_samples_,
                     (Len(median_samples_) - 1) \div 2)
=============================================================================
