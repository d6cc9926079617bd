------------------------- MODULE RollingAccumulator -------------------------
(***************************************************************************)
(* rtc::RollingAccumulator: statistics of the last max_count() samples.    *)
(* Its maximum and minimum are caches that go stale when the sample they   *)
(* came from leaves, and that a const method brings up to date.            *)
(***************************************************************************)
EXTENDS RunningStatistics

CONSTANTS RollingLength  \* max_count()

ASSUME RollingAssumption == RollingLength \in Nat \ {0}

VARIABLES
    samples_,    \* a function from 0..max_count() - 1
    stats_,
    next_index_,
    max_, max_stale_,
    min_, min_stale_,
    window       \* history: the last max_count() samples since Reset

rollingVars == <<samples_, stats_, next_index_, max_, max_stale_, min_, min_stale_, window>>

-----------------------------------------------------------------------------
Full == stats_.size_ = RollingLength
Oldest == samples_[next_index_]

(* AddSample if it assigned max_stale_ whenever it removes a sample. *)
RollingAddSample_Fresh(sample) ==
    /\ stats_' = WithSample(IF Full THEN WithoutSample(stats_, Oldest) ELSE stats_, sample)
    /\ LET left == IF Full THEN stats_.size_ - 1 ELSE stats_.size_
           newMax == left = 0 \/ sample >= max_
           newMin == left = 0 \/ sample <= min_
       IN  /\ max_' = IF newMax THEN sample ELSE max_
           /\ min_' = IF newMin THEN sample ELSE min_
           /\ max_stale_' = (~newMax /\ Full /\ Oldest >= max_)
           /\ min_stale_' = (~newMin /\ (min_stale_ \/ (Full /\ Oldest <= min_)))
    /\ samples_' = [samples_ EXCEPT ![next_index_] = sample]
    /\ next_index_' = (next_index_ + 1) % RollingLength
    /\ window' = IF Full THEN Append(Tail(window), sample) ELSE Append(window, sample)

RollingAddSample(sample) ==
    /\ stats_' = WithSample(IF Full THEN WithoutSample(stats_, Oldest) ELSE stats_, sample)
    /\ LET left == IF Full THEN stats_.size_ - 1 ELSE stats_.size_
           newMax == left = 0 \/ sample >= max_
           newMin == left = 0 \/ sample <= min_
       IN  /\ max_' = IF newMax THEN sample ELSE max_
           /\ min_' = IF newMin THEN sample ELSE min_
           /\ max_stale_' = (~newMax /\ (max_stale_ \/ (Full /\ Oldest >= max_)))
           /\ min_stale_' = (~newMin /\ (min_stale_ \/ (Full /\ Oldest <= min_)))
    /\ samples_' = [samples_ EXCEPT ![next_index_] = sample]
    /\ next_index_' = (next_index_ + 1) % RollingLength
    /\ window' = IF Full THEN Append(Tail(window), sample) ELSE Append(window, sample)

(* What ComputeMax and ComputeMin return. *)
Recomputed == {samples_[(next_index_ + i) % RollingLength] : i \in 0..(stats_.size_ - 1)}
ComputedMax == IF max_stale_ THEN Max(Recomputed) ELSE max_
ComputedMin == IF min_stale_ THEN Min(Recomputed) ELSE min_

ComputeMax ==
    /\ max_' = ComputedMax /\ max_stale_' = FALSE
    /\ UNCHANGED <<samples_, stats_, next_index_, min_, min_stale_, window>>

ComputeMin ==
    /\ min_' = ComputedMin /\ min_stale_' = FALSE
    /\ UNCHANGED <<samples_, stats_, next_index_, max_, max_stale_, window>>

(* Reset leaves the samples in place. *)
ResetRolling ==
    /\ stats_' = NoStatistics /\ next_index_' = 0
    /\ max_' = 0 /\ max_stale_' = FALSE /\ min_' = 0 /\ min_stale_' = FALSE
    /\ window' = <<>>
    /\ UNCHANGED samples_

RollingInit ==
    /\ samples_ = [i \in 0..(RollingLength - 1) |-> 0]
    /\ stats_ = NoStatistics /\ next_index_ = 0
    /\ max_ = 0 /\ max_stale_ = FALSE /\ min_ = 0 /\ min_stale_ = FALSE
    /\ window = <<>>

RollingNext ==
    \/ \E sample \in Fed : RollingAddSample(sample)
    \/ ComputeMax \/ ComputeMin \/ ResetRolling

-----------------------------------------------------------------------------
(* "RollingAccumulator stores and reports statistics over N most recent    *)
(* samples": the mean and the variance are those of the window, and so are *)
(* the extremes whenever ComputeMax and ComputeMin are called.  A cached   *)
(* extreme is stale as soon as it may have left the window, also when one  *)
(* that is stale already was not asked for.                                *)
RollingReportsWindow ==
    window # <<>> => /\ IsStatisticsOf(stats_, window)
                     /\ ComputedMax = Max(ToSet(window))
                     /\ ComputedMin = Min(ToSet(window))
=============================================================================
