------------------------------ MODULE Numerics ------------------------------
(***************************************************************************)
(* The numeric classes together.  They do not interact, so an object moves *)
(* only while the others are as they were built: the states are the sum of *)
(* the states of the objects, not their product.                           *)
(***************************************************************************)
EXTENDS SeqNumUnwrapper, Unwrapper, MovingMaxCounter, PercentileFilter,
        RollingAccumulator

vars == <<seqVars, unwrapperVars, maxVars, filterVars, runningVars, rollingVars>>

(* The percentiles: both ends of the range, the median, one in between. *)
Percentiles == {<<0, 1>>, <<1, 2>>, <<9, 10>>, <<1, 1>>}

(* The objects as they were built, with one choice of what is free then. *)
SeqFresh == SeqInit /\ position = 0
UnwrapperFresh == UnwrapperInit /\ received = 0
FilterFresh == FilterInit /\ percentile_ = Half

StatisticsFresh == RunningInit /\ RollingInit

Init ==
    /\ MaxInit /\ StatisticsFresh
    /\ \/ SeqInit /\ UnwrapperFresh /\ FilterFresh
       \/ SeqFresh /\ UnwrapperInit /\ FilterFresh
       \/ SeqFresh /\ UnwrapperFresh /\ FilterInit

Next ==
    \/ /\ UnwrapperFresh /\ MaxInit /\ FilterFresh /\ StatisticsFresh
       /\ SeqNext
       /\ UNCHANGED <<unwrapperVars, maxVars, filterVars, runningVars, rollingVars>>
    \/ /\ SeqFresh /\ MaxInit /\ FilterFresh /\ StatisticsFresh
       /\ UnwrapperNext
       /\ UNCHANGED <<seqVars, maxVars, filterVars, runningVars, rollingVars>>
    \/ /\ SeqFresh /\ UnwrapperFresh /\ FilterFresh /\ StatisticsFresh
       /\ MaxNext
       /\ UNCHANGED <<seqVars, unwrapperVars, filterVars, runningVars, rollingVars>>
    \/ /\ SeqFresh /\ UnwrapperFresh /\ MaxInit /\ StatisticsFresh
       /\ \/ FilterNext /\ median = NoObservations
          \/ MedianNext /\ filter = NoObservations /\ percentile_ = Half
       /\ UNCHANGED <<seqVars, unwrapperVars, maxVars, runningVars, rollingVars>>
    \/ /\ SeqFresh /\ UnwrapperFresh /\ MaxInit /\ FilterFresh
       /\ \/ RunningNext /\ RollingInit /\ UNCHANGED rollingVars
          \/ RollingNext /\ RunningInit /\ UNCHANGED runningVars
       /\ UNCHANGED <<seqVars, unwrapperVars, maxVars, filterVars>>

Spec == Init /\ [][Next]_vars
=============================================================================
