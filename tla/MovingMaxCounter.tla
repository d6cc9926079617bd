-------------------------- MODULE MovingMaxCounter --------------------------
(***************************************************************************)
(* rtc::MovingMaxCounter: the maximum of the samples of the last           *)
(* window_length_ms_, kept in a deque of which samples are dropped as soon *)
(* as they can no longer be the maximum of any window.                     *)
(***************************************************************************)
EXTENDS Integers, Sequences, FiniteSets, FiniteSetsExt

CONSTANTS
    WindowLength,
    Sample,
    MaxTime  \* bound: the last point in time

ASSUME MovingMaxAssumption ==
    WindowLength \in Nat /\ Sample \subseteq Int /\ MaxTime \in Nat

VARIABLES
    max_samples_,  \* the deque of pairs <<time, sample>>
    now,       \* the time of the last call
    added      \* history: the pairs added since Reset that are in the window

maxVars == <<max_samples_, now, added>>

-----------------------------------------------------------------------------
(* The elements of s from the first one that is not older than begin. *)
RolledTo(s, begin) ==
    LET young == {i \in 1..Len(s) : s[i][1] >= begin}
    IN  IF young = {} THEN <<>> ELSE SubSeq(s, Min(young), Len(s))

(* RollWindow if the window were open at its begin. *)
RollWindow_Open(s, time) == RolledTo(s, time - WindowLength + 1)
RollWindow(s, time) == RolledTo(s, time - WindowLength)

(* The elements of s up to the last one that is above sample. *)
PopUpTo(s, sample) ==
    LET above == {i \in 1..Len(s) : s[i][2] > sample}
    IN  IF above = {} THEN <<>> ELSE SubSeq(s, 1, Max(above))

Pushed(s, sample, time) ==
    IF s = <<>> \/ s[Len(s)][1] < time THEN Append(s, <<time, sample>>) ELSE s

InWindow(pairs, time) == {p \in pairs : p[1] >= time - WindowLength}

AddSample(sample, time) ==
    /\ max_samples_' = Pushed(PopUpTo(RollWindow(max_samples_, time), sample), sample, time)
    /\ now' = time
    /\ added' = InWindow(added \cup {<<time, sample>>}, time)

(* Max returns the front of the deque, after rolling the window. *)
MaxCall(time) ==
    /\ max_samples_' = RollWindow(max_samples_, time)
    /\ now' = time
    /\ added' = InWindow(added, time)

ResetMax ==
    /\ max_samples_' = <<>>
    /\ added' = {}
    /\ now' = now

MaxInit == max_samples_ = <<>> /\ now = 0 /\ added = {}

MaxNext ==
    \/ \E time \in now..MaxTime : \/ \E sample \in Sample : AddSample(sample, time)
                                \/ MaxCall(time)
    \/ ResetMax

MaxSpec == MaxInit /\ [][MaxNext]_maxVars

-----------------------------------------------------------------------------
(* Whenever Max is called next, it returns the maximum of the samples      *)
(* added in the window that ends then, or nothing if there are none:       *)
(* nothing that Add or RollWindow dropped is missed.                       *)
MaxIsWindowMaximum ==
    \A time \in now..(now + WindowLength + 1) :
        LET deque == RollWindow(max_samples_, time)
            window == InWindow(added, time)
        IN  IF window = {} THEN deque = <<>>
            ELSE /\ deque # <<>>
                 /\ deque[1][2] = Max({p[2] : p \in window})
=============================================================================
