------------------------------ MODULE LockProofs ------------------------------
(***************************************************************************)
(* The components that lock.  SpinningMutex excludes and loses no wake-up, *)
(* for any set of threads and any amount of spinning; MediaChannel, for    *)
(* any threads, interfaces and code points, calls only interfaces that     *)
(* exist, and keeps the sockets at the preferred value.                    *)
(***************************************************************************)
EXTENDS SpinningMutex, MediaChannel, TLAPS

USE DEF kUnlocked, kLockedUncontended, kLockedContended

(* Type correctness is inductive. *)
LEMMA MutexTypesKept ==
  ASSUME MutexTypeOK, [MutexNext]_mutexVars
  PROVE  MutexTypeOK'
<1>1. CASE UNCHANGED mutexVars
  BY <1>1 DEF MutexTypeOK, mutexVars
<1>2. ASSUME NEW t \in LockThread, NEW acquire \in BOOLEAN, CallLock(t, acquire)
      PROVE  MutexTypeOK'
  BY <1>2 DEF MutexTypeOK, CallLock, Goes
<1>3. ASSUME NEW t \in LockThread, TryLoad(t) PROVE MutexTypeOK'
  BY <1>3 DEF MutexTypeOK, TryLoad, Goes
<1>4. ASSUME NEW t \in LockThread, TryExchange(t) PROVE MutexTypeOK'
  BY <1>4 DEF MutexTypeOK, TryExchange, Goes
<1>5. ASSUME NEW t \in LockThread, TryFailed(t) PROVE MutexTypeOK'
  <2>1. tries' \in [LockThread -> Nat] /\ backoff' \in [LockThread -> Nat]
    BY <1>5, SpinAssumption DEF MutexTypeOK, TryFailed
  <2>2. QED
    BY <1>5, <2>1 DEF MutexTypeOK, TryFailed, Goes
<1>6. ASSUME NEW t \in LockThread, LockSlow(t) PROVE MutexTypeOK'
  BY <1>6 DEF MutexTypeOK, LockSlow, Goes
<1>7. ASSUME NEW t \in LockThread, FutexWait(t) \/ WakesUp(t) PROVE MutexTypeOK'
  BY <1>7 DEF MutexTypeOK, FutexWait, WakesUp, Goes
<1>8. ASSUME NEW t \in LockThread, ReleaseMutex(t) PROVE MutexTypeOK'
  BY <1>8 DEF MutexTypeOK, ReleaseMutex, Goes
<1>9. ASSUME NEW t \in LockThread, FutexWake(t) PROVE MutexTypeOK'
  BY <1>9 DEF MutexTypeOK, FutexWake, Goes
<1>10. QED
  BY <1>1, <1>2, <1>3, <1>4, <1>5, <1>6, <1>7, <1>8, <1>9 DEF MutexNext, MutexStep

(* A thread that moves between places outside the mutex, with state_ as it *)
(* was, leaves exclusion as it was.                                        *)
LEMMA MovesOutside ==
  ASSUME MutexExcludes, UNCHANGED state_,
         \A s \in LockThread : At(s, "locked")' <=> At(s, "locked")
  PROVE  MutexExcludes'
BY DEF MutexExcludes

(* Exclusion is inductive: a thread takes the mutex only in the step that  *)
(* finds it unlocked, and only its holder unlocks it.                      *)
LEMMA MutexExclusionKept ==
  ASSUME MutexTypeOK, MutexExcludes, [MutexNext]_mutexVars
  PROVE  MutexExcludes'
<1>1. CASE UNCHANGED mutexVars
  BY <1>1, MovesOutside DEF mutexVars, At
<1>2. ASSUME NEW t \in LockThread, NEW acquire \in BOOLEAN, CallLock(t, acquire)
      PROVE  MutexExcludes'
  BY <1>2, MovesOutside DEF MutexTypeOK, CallLock, At, Goes
<1>3. ASSUME NEW t \in LockThread, TryLoad(t) PROVE MutexExcludes'
  BY <1>3, MovesOutside DEF MutexTypeOK, TryLoad, At, Goes
<1>4. ASSUME NEW t \in LockThread, TryExchange(t) PROVE MutexExcludes'
  <2>1. CASE state_ = kUnlocked
    <3>1. \A s \in LockThread : ~At(s, "locked")
      BY <2>1 DEF MutexExcludes
    <3>2. state_' = kLockedUncontended
          /\ \A s \in LockThread : At(s, "locked")' <=> s = t
      BY <1>4, <2>1, <3>1 DEF MutexTypeOK, TryExchange, At, Goes
    <3>3. QED
      BY <3>2 DEF MutexExcludes
  <2>2. CASE state_ # kUnlocked
    BY <1>4, <2>2, MovesOutside DEF MutexTypeOK, TryExchange, At, Goes
  <2>3. QED
    BY <2>1, <2>2
<1>5. ASSUME NEW t \in LockThread, TryFailed(t) PROVE MutexExcludes'
  BY <1>5, MovesOutside DEF MutexTypeOK, TryFailed, At, Goes
<1>6. ASSUME NEW t \in LockThread, LockSlow(t) PROVE MutexExcludes'
  <2>1. state_' = kLockedContended
    BY <1>6 DEF LockSlow
  <2>2. CASE state_ = kUnlocked
    <3>1. \A s \in LockThread : ~At(s, "locked")
      BY <2>2 DEF MutexExcludes
    <3>2. \A s \in LockThread : At(s, "locked")' <=> s = t
      BY <1>6, <2>2, <3>1 DEF MutexTypeOK, LockSlow, At, Goes
    <3>3. QED
      BY <2>1, <3>2 DEF MutexExcludes
  <2>3. CASE state_ # kUnlocked
    <3>1. \A s \in LockThread : At(s, "locked")' <=> At(s, "locked")
      BY <1>6, <2>3 DEF MutexTypeOK, LockSlow, At, Goes
    <3>2. QED
      BY <2>1, <2>3, <3>1 DEF MutexExcludes
  <2>4. QED
    BY <2>2, <2>3
<1>7. ASSUME NEW t \in LockThread, FutexWait(t) \/ WakesUp(t) PROVE MutexExcludes'
  BY <1>7, MovesOutside DEF MutexTypeOK, FutexWait, WakesUp, At, Goes
<1>8. ASSUME NEW t \in LockThread, ReleaseMutex(t) PROVE MutexExcludes'
  <2>1. \A s \in LockThread : At(s, "locked") => s = t
    BY <1>8 DEF ReleaseMutex, MutexExcludes
  <2>2. state_' = kUnlocked /\ \A s \in LockThread : ~At(s, "locked")'
    BY <1>8, <2>1 DEF MutexTypeOK, ReleaseMutex, At, Goes
  <2>3. QED
    BY <2>2 DEF MutexExcludes
<1>9. ASSUME NEW t \in LockThread, FutexWake(t) PROVE MutexExcludes'
  BY <1>9, MovesOutside DEF MutexTypeOK, FutexWake, At, Goes
<1>10. QED
  BY <1>1, <1>2, <1>3, <1>4, <1>5, <1>6, <1>7, <1>8, <1>9 DEF MutexNext, MutexStep

(* The chain of wake-ups is inductive, whoever holds the mutex: the        *)
(* contended state passes its duty to the thread that releases the mutex,  *)
(* that thread to the one it wakes up, and that one back to the state.     *)
LEMMA WakeupKept ==
  ASSUME MutexTypeOK, NoLostWakeup, [MutexNext]_mutexVars
  PROVE  NoLostWakeup'
<1>1. CASE UNCHANGED mutexVars
  BY <1>1 DEF NoLostWakeup, mutexVars, At
<1>2. ASSUME NEW t \in LockThread, NEW acquire \in BOOLEAN, CallLock(t, acquire)
      PROVE  NoLostWakeup'
  BY <1>2 DEF MutexTypeOK, NoLostWakeup, CallLock, At, Goes
<1>3. ASSUME NEW t \in LockThread, TryLoad(t) PROVE NoLostWakeup'
  BY <1>3 DEF MutexTypeOK, NoLostWakeup, TryLoad, At, Goes
<1>4. ASSUME NEW t \in LockThread, TryExchange(t) PROVE NoLostWakeup'
  BY <1>4 DEF MutexTypeOK, NoLostWakeup, TryExchange, At, Goes
<1>5. ASSUME NEW t \in LockThread, TryFailed(t) PROVE NoLostWakeup'
  BY <1>5 DEF MutexTypeOK, NoLostWakeup, TryFailed, At, Goes
<1>6. ASSUME NEW t \in LockThread, LockSlow(t) PROVE NoLostWakeup'
  BY <1>6 DEF NoLostWakeup, LockSlow
<1>7. ASSUME NEW t \in LockThread, FutexWait(t) PROVE NoLostWakeup'
  BY <1>7 DEF MutexTypeOK, NoLostWakeup, FutexWait, At, Goes
<1>8. ASSUME NEW t \in LockThread, WakesUp(t) PROVE NoLostWakeup'
  <2>1. At(t, "slow")'
    BY <1>8 DEF MutexTypeOK, WakesUp, At, Goes
  <2>2. QED
    BY <2>1 DEF NoLostWakeup
<1>9. ASSUME NEW t \in LockThread, ReleaseMutex(t) PROVE NoLostWakeup'
  <2>1. CASE state_ = kLockedContended
    <3>1. At(t, "wake")'
      BY <1>9, <2>1 DEF MutexTypeOK, ReleaseMutex, At, Goes
    <3>2. QED
      BY <3>1 DEF NoLostWakeup
  <2>2. CASE state_ # kLockedContended
    <3>1. \A s \in LockThread : /\ At(s, "asleep")' => At(s, "asleep")
                                /\ At(s, "wake") => At(s, "wake")'
                                /\ At(s, "slow") => At(s, "slow")'
      BY <1>9, <2>2 DEF MutexTypeOK, ReleaseMutex, At, Goes
    <3>2. QED
      BY <2>2, <3>1 DEF NoLostWakeup
  <2>3. QED
    BY <2>1, <2>2
<1>10. ASSUME NEW t \in LockThread, FutexWake(t) PROVE NoLostWakeup'
  <2>1. CASE /\ \A s \in LockThread : ~At(s, "asleep")
             /\ Goes(t, "idle")
    <3>1. \A s \in LockThread : ~At(s, "asleep")'
      BY <2>1 DEF MutexTypeOK, At, Goes
    <3>2. QED
      BY <3>1 DEF NoLostWakeup
  <2>2. ASSUME NEW s \in LockThread, At(s, "asleep"),
               lockPc' = [lockPc EXCEPT ![t] = "idle", ![s] = "slow"]
        PROVE  NoLostWakeup'
    <3>1. At(s, "slow")'
      BY <2>2 DEF MutexTypeOK, At
    <3>2. QED
      BY <3>1 DEF NoLostWakeup
  <2>3. QED
    BY <1>10, <2>1, <2>2 DEF FutexWake
<1>11. QED
  BY <1>1, <1>2, <1>3, <1>4, <1>5, <1>6, <1>7, <1>8, <1>9, <1>10 DEF MutexNext, MutexStep

-----------------------------------------------------------------------------
(* The variables keep their types, for any threads and any spinning. *)
THEOREM MutexTypeCorrect == MutexSpec => []MutexTypeOK
<1>1. MutexInit => MutexTypeOK
  BY DEF MutexInit, MutexTypeOK
<1>2. QED
  BY <1>1, MutexTypesKept, PTL DEF MutexSpec

(* At most one thread at a time is between the Acquire or Try that         *)
(* succeeded and Release, and state_ tells whether one is, for any number  *)
(* of threads and however long they spin.                                  *)
THEOREM MutexAlwaysExcludes == MutexSpec => []MutexExcludes
<1>1. MutexInit => MutexExcludes
  BY DEF MutexInit, MutexExcludes, At
<1>2. QED
  BY <1>1, MutexTypeCorrect, MutexExclusionKept, PTL DEF MutexSpec

(* While a thread sleeps in FutexWait, the mutex is marked contended, or a *)
(* thread is on its way to wake a sleeper or to mark the mutex, for any    *)
(* number of threads: a mutex taken in between with kLockedUncontended     *)
(* leaves no thread asleep for ever.                                       *)
THEOREM WakeupsNeverLost == MutexSpec => []NoLostWakeup
<1>1. MutexInit => NoLostWakeup
  BY DEF MutexInit, NoLostWakeup, At
<1>2. QED
  BY <1>1, MutexTypeCorrect, WakeupKept, PTL DEF MutexSpec

-----------------------------------------------------------------------------
(* The sockets of the interface in use carry the value. *)
Applied == \A socket \in Socket : dscp[network_interface_][socket] = DscpValue

(* The inductive invariant of MediaChannel.  Only the holder of the mutex  *)
(* is in a call, and it is in the interface in use, which is alive.  While *)
(* a thread sends or sets an option the sockets are as they were when it   *)
(* took the mutex, and UpdateDscp has set RTP before it goes on to RTCP.   *)
ChannelInv ==
  /\ ChannelTypeOK
  /\ network_interface_ \in alive \union {NoInterface}
  /\ \A t \in Thread : call[t] # NoCall => /\ mutex = t
                                           /\ call[t].to = network_interface_
                                           /\ call[t].to # NoInterface
  /\ SocketsFollowPreference
  /\ \A t \in Thread : call[t] # NoCall =>
        IF call[t].what = "dscp"
        THEN call[t].socket = "rtcp" => dscp[call[t].to]["rtp"] = DscpValue
        ELSE failed = "no" => Applied

(* The shape of a call. *)
LEMMA CallShape ==
  ASSUME NEW c \in Call, c.to # NoInterface
  PROVE  /\ c # NoCall
         /\ c.to \in Interface
         /\ c.what \in {"send", "option", "dscp"}
         /\ c.what = "dscp" => /\ c \in [to : Interface, what : {"dscp"},
                                         socket : Socket, setter : BOOLEAN]
BY DEF Call, NoCall

(* With the mutex free nobody is in a call. *)
LEMMA NobodyCalls ==
  ASSUME ChannelInv, mutex = NoThread, NoThread \notin Thread
  PROVE  \A t \in Thread : call[t] = NoCall
BY DEF ChannelInv

(* A step that leaves the channel's own state alone, and the sockets of    *)
(* the interface in use, keeps the invariant.                              *)
LEMMA OwnerSteps ==
  ASSUME ChannelInv, NEW i \in Interface, NoInterface \notin Interface,
         DestroyInterface(i) \/ CreateInterface(i)
  PROVE  ChannelInv'
<1>1. ChannelTypeOK' /\ network_interface_' \in alive' \union {NoInterface}
  BY DEF ChannelInv, ChannelTypeOK, DestroyInterface, CreateInterface
<1>2. /\ UNCHANGED <<enable_dscp_, preferred_dscp_, network_interface_, mutex, call, failed>>
      /\ network_interface_ # NoInterface => dscp'[network_interface_] = dscp[network_interface_]
  BY DEF ChannelInv, ChannelTypeOK, DestroyInterface, CreateInterface
<1>3. DscpValue' = DscpValue
  BY <1>2 DEF DscpValue
<1>4. SocketsFollowPreference'
  BY <1>2, <1>3 DEF ChannelInv, SocketsFollowPreference
<1>5. QED
  BY <1>1, <1>2, <1>3, <1>4 DEF ChannelInv, Applied

(* Every step of a thread or of an owner keeps the invariant. *)
LEMMA ChannelInvKept ==
  ASSUME ChannelInv, [ChannelNext]_channelVars,
         NoInterface \notin Interface, NoThread \notin Thread, DscpDefault \in Dscp
  PROVE  ChannelInv'
<1>1. CASE UNCHANGED channelVars
  BY <1>1 DEF ChannelInv, ChannelTypeOK, SocketsFollowPreference, Applied, DscpValue, channelVars
<1>2. ASSUME NEW t \in Thread, Send(t) \/ SetOption(t) PROVE ChannelInv'
  <2>1. network_interface_ \in Interface /\ \A u \in Thread : call[u] = NoCall
    BY <1>2, NobodyCalls DEF ChannelInv, ChannelTypeOK, Send, SetOption
  <2>2. PICK what \in {"send", "option"} :
          call' = [call EXCEPT ![t] = [to |-> network_interface_, what |-> what]]
    BY <1>2 DEF Send, SetOption
  <2>3. /\ mutex = NoThread /\ mutex' = t
        /\ UNCHANGED <<enable_dscp_, preferred_dscp_, network_interface_, dscp, alive,
                       failed, ret>>
    BY <1>2 DEF Send, SetOption
  <2>4. ChannelTypeOK'
    BY <2>1, <2>2, <2>3 DEF ChannelInv, ChannelTypeOK, Call
  <2>5. \A u \in Thread : call'[u] # NoCall => u = t
    BY <2>1, <2>2 DEF ChannelInv, ChannelTypeOK
  <2>6. call'[t] = [to |-> network_interface_, what |-> what]
    BY <2>2 DEF ChannelInv, ChannelTypeOK
  <2>7. SocketsFollowPreference' /\ (failed = "no" => Applied')
    BY <2>1, <2>3 DEF ChannelInv, SocketsFollowPreference, Applied, DscpValue
  <2>8. QED
    BY <2>1, <2>3, <2>4, <2>5, <2>6, <2>7 DEF ChannelInv
<1>3. ASSUME NEW t \in Thread, CallReturns(t) PROVE ChannelInv'
  <2>1. /\ mutex' = NoThread /\ call' = [call EXCEPT ![t] = NoCall]
        /\ UNCHANGED <<enable_dscp_, preferred_dscp_, network_interface_, dscp, alive,
                       failed, ret>>
    BY <1>3 DEF CallReturns
  <2>2. call[t] # NoCall /\ call[t].what # "dscp"
    BY <1>3, CallShape DEF CallReturns, ChannelInv, ChannelTypeOK
  <2>3. \A u \in Thread : call'[u] = NoCall
    BY <2>1, <2>2 DEF ChannelInv, ChannelTypeOK
  <2>4. ChannelTypeOK'
    BY <2>1 DEF ChannelInv, ChannelTypeOK, Call
  <2>5. failed = "no" => Applied'
    BY <2>1, <2>2 DEF ChannelInv, Applied, DscpValue
  <2>6. SocketsFollowPreference'
    BY <2>1, <2>5 DEF SocketsFollowPreference, Applied
  <2>7. QED
    BY <2>1, <2>3, <2>4, <2>6 DEF ChannelInv
<1>4. ASSUME NEW t \in Thread, NEW iface \in Interface \union {NoInterface}, NEW setter \in BOOLEAN,
             mutex = NoThread, UpdateDscp(t, iface, setter), network_interface_' = iface,
             iface \in alive \union {NoInterface}, UNCHANGED <<enable_dscp_, dscp, alive>>,
             preferred_dscp_' \in Dscp, ret' \in {0, 1},
             failed' \in {"no", "SetInterface", "SetPreferredDscp"}
      PROVE  ChannelInv'
  <2>1. \A u \in Thread : call[u] = NoCall
    BY <1>4, NobodyCalls
  <2>2. CASE iface = NoInterface
    <3>1. UNCHANGED <<mutex, call>>
      BY <1>4, <2>2 DEF UpdateDscp
    <3>2. ChannelTypeOK' /\ SocketsFollowPreference'
      BY <1>4, <2>2, <3>1 DEF ChannelInv, ChannelTypeOK, SocketsFollowPreference
    <3>3. QED
      BY <1>4, <2>1, <3>1, <3>2 DEF ChannelInv
  <2>3. CASE iface # NoInterface
    <3>1. /\ mutex' = t
          /\ call' = [call EXCEPT ![t] = [to |-> iface, what |-> "dscp",
                                          socket |-> "rtp", setter |-> setter]]
      BY <1>4, <2>3 DEF UpdateDscp
    <3>2. ChannelTypeOK'
      BY <1>4, <2>3, <3>1 DEF ChannelInv, ChannelTypeOK, Call, Socket
    <3>3. /\ \A u \in Thread : call'[u] # NoCall => u = t
          /\ call'[t] = [to |-> iface, what |-> "dscp", socket |-> "rtp", setter |-> setter]
      BY <2>1, <3>1 DEF ChannelInv, ChannelTypeOK
    <3>4. SocketsFollowPreference'
      BY <3>1 DEF SocketsFollowPreference
    <3>5. QED
      BY <1>4, <2>3, <3>1, <3>2, <3>3, <3>4 DEF ChannelInv
  <2>4. QED
    BY <2>2, <2>3
<1>5. ASSUME NEW t \in Thread, NEW v \in Dscp, SetPreferredDscp(t, v) PROVE ChannelInv'
  <2>1. CASE v = preferred_dscp_
    <3>1. UNCHANGED <<enable_dscp_, preferred_dscp_, network_interface_, mutex, call, dscp,
                      alive, failed>> /\ ret' = 0
      BY <1>5, <2>1 DEF SetPreferredDscp
    <3>2. QED
      BY <3>1 DEF ChannelInv, ChannelTypeOK, SocketsFollowPreference, Applied, DscpValue
  <2>2. CASE v # preferred_dscp_
    <3>1. network_interface_ \in Interface \union {NoInterface} /\ ret \in {0, 1}
          /\ failed \in {"no", "SetInterface", "SetPreferredDscp"}
      BY DEF ChannelInv, ChannelTypeOK
    <3>2. /\ mutex = NoThread /\ UpdateDscp(t, network_interface_, TRUE)
          /\ network_interface_' = network_interface_ /\ preferred_dscp_' \in Dscp
          /\ ret' \in {0, 1} /\ UNCHANGED <<enable_dscp_, dscp, alive, failed>>
      BY <1>5, <2>2, <3>1 DEF SetPreferredDscp
    <3>3. QED
      BY <1>4, <3>1, <3>2 DEF ChannelInv
  <2>3. QED
    BY <2>1, <2>2
<1>6. ASSUME NEW t \in Thread, NEW iface \in Interface \union {NoInterface}, SetInterface(t, iface)
      PROVE  ChannelInv'
  <2>1. preferred_dscp_ \in Dscp
    BY DEF ChannelInv, ChannelTypeOK
  <2>2. QED
    BY <1>4, <1>6, <2>1 DEF SetInterface
<1>7. ASSUME NEW t \in Thread, DscpApplied(t) PROVE ChannelInv'
  <2>1. /\ call[t] \in [to : Interface, what : {"dscp"}, socket : Socket, setter : BOOLEAN]
        /\ call[t] # NoCall
    BY <1>7, CallShape DEF DscpApplied, ChannelInv, ChannelTypeOK
  <2>2. call[t].to = network_interface_ /\ network_interface_ \in Interface
        /\ \A u \in Thread : u # t => call[u] = NoCall
    BY <2>1 DEF ChannelInv
  <2>3. DscpValue \in Dscp
    BY DEF ChannelInv, ChannelTypeOK, DscpValue
  <2>4. /\ dscp' = [dscp EXCEPT ![network_interface_][call[t].socket] = DscpValue]
        /\ UNCHANGED <<enable_dscp_, preferred_dscp_, network_interface_, alive>>
    BY <1>7, <2>2 DEF DscpApplied
  <2>5. /\ dscp' \in [Interface -> [Socket -> Dscp]]
        /\ \A socket \in Socket :
              dscp'[network_interface_][socket] =
                IF socket = call[t].socket THEN DscpValue ELSE dscp[network_interface_][socket]
    BY <2>1, <2>2, <2>3, <2>4 DEF ChannelInv, ChannelTypeOK
  <2>6. DscpValue' = DscpValue
    BY <2>4 DEF DscpValue
  <2>7. CASE call[t].socket = "rtp"
    <3>1. call' = [call EXCEPT ![t].socket = "rtcp"] /\ UNCHANGED <<mutex, failed, ret>>
      BY <1>7, <2>7 DEF DscpApplied
    <3>2. /\ call'[t] \in [to : Interface, what : {"dscp"}, socket : Socket, setter : BOOLEAN]
          /\ call'[t].to = network_interface_
          /\ call' = [call EXCEPT ![t] = call'[t]]
      BY <2>1, <2>2, <3>1 DEF ChannelInv, ChannelTypeOK, Socket
    <3>3. call'[t] \in Call /\ call'[t].what = "dscp"
      BY <3>2 DEF Call
    <3>4. ChannelTypeOK'
      BY <2>4, <2>5, <3>1, <3>2, <3>3 DEF ChannelInv, ChannelTypeOK
    <3>5. \A u \in Thread : u # t => call'[u] = NoCall
      BY <2>2, <3>2 DEF ChannelInv, ChannelTypeOK
    <3>6. dscp'[network_interface_]["rtp"] = DscpValue'
      BY <2>5, <2>6, <2>7 DEF Socket
    <3>7. mutex = t /\ mutex' # NoThread
      BY <2>1, <3>1 DEF ChannelInv
    <3>8. SocketsFollowPreference'
      BY <3>7 DEF SocketsFollowPreference
    <3>9. QED
      BY <2>2, <2>4, <3>1, <3>2, <3>3, <3>4, <3>5, <3>6, <3>7, <3>8 DEF ChannelInv
  <2>8. CASE call[t].socket = "rtcp"
    <3>1. /\ call' = [call EXCEPT ![t] = NoCall] /\ mutex' = NoThread /\ failed' = "no"
          /\ ret' = IF call[t].setter THEN 0 ELSE ret
      BY <1>7, <2>8 DEF DscpApplied
    <3>2. ChannelTypeOK'
      BY <2>4, <2>5, <3>1 DEF ChannelInv, ChannelTypeOK, Call
    <3>3. \A u \in Thread : call'[u] = NoCall
      BY <2>2, <3>1 DEF ChannelInv, ChannelTypeOK
    <3>4. dscp[network_interface_]["rtp"] = DscpValue
      BY <2>1, <2>2, <2>8 DEF ChannelInv
    <3>5. SocketsFollowPreference'
      BY <2>4, <2>5, <2>6, <2>8, <3>4 DEF SocketsFollowPreference, Socket
    <3>6. QED
      BY <2>4, <3>2, <3>3, <3>5 DEF ChannelInv
  <2>9. QED
    BY <2>1, <2>7, <2>8 DEF Socket
<1>8. ASSUME NEW t \in Thread, DscpFails(t) PROVE ChannelInv'
  <2>1. /\ call' = [call EXCEPT ![t] = NoCall] /\ mutex' = NoThread
        /\ failed' \in {"SetInterface", "SetPreferredDscp"} /\ ret' \in {1, ret}
        /\ UNCHANGED <<enable_dscp_, preferred_dscp_, network_interface_, dscp, alive>>
    BY <1>8 DEF DscpFails
  <2>2. call[t] # NoCall
    BY <1>8, CallShape DEF DscpFails, ChannelInv, ChannelTypeOK
  <2>3. \A u \in Thread : call'[u] = NoCall
    BY <2>1, <2>2 DEF ChannelInv, ChannelTypeOK
  <2>4. ChannelTypeOK' /\ SocketsFollowPreference'
    BY <2>1 DEF ChannelInv, ChannelTypeOK, Call, SocketsFollowPreference
  <2>5. QED
    BY <2>1, <2>3, <2>4 DEF ChannelInv
<1>9. ASSUME NEW i \in Interface, DestroyInterface(i) \/ CreateInterface(i)
      PROVE  ChannelInv'
  BY <1>9, OwnerSteps
<1>10. QED
  BY <1>1, <1>2, <1>3, <1>5, <1>6, <1>7, <1>8, <1>9 DEF ChannelNext

(* The invariant holds from the start. *)
LEMMA ChannelInvHolds ==
  ASSUME NoInterface \notin Interface, NoThread \notin Thread, DscpDefault \in Dscp
  PROVE  ChannelSpec => []ChannelInv
<1>1. ChannelInit => ChannelInv
  BY DEF ChannelInit, ChannelInv, ChannelTypeOK, SocketsFollowPreference, Call, Socket
<1>2. ChannelInv /\ [ChannelNext]_channelVars => ChannelInv'
  BY ChannelInvKept
<1>3. QED
  BY <1>1, <1>2, PTL DEF ChannelSpec

(* However many threads send, set options and replace the interface, none  *)
(* of them is ever in an interface that its owner has destroyed.           *)
THEOREM OnlyLiveInterfacesCalled ==
  ASSUME NoInterface \notin Interface, NoThread \notin Thread, DscpDefault \in Dscp
  PROVE  ChannelSpec => []CallsOnlyLiveInterfaces
<1>1. ChannelInv => CallsOnlyLiveInterfaces
  BY DEF ChannelInv, CallsOnlyLiveInterfaces, NoCall
<1>2. QED
  BY <1>1, ChannelInvHolds, PTL

(* For any code points and interfaces, both sockets of the interface carry *)
(* the preferred value whenever a thread may send and no UpdateDscp has    *)
(* failed on it.                                                           *)
THEOREM SocketsAlwaysFollow ==
  ASSUME NoInterface \notin Interface, NoThread \notin Thread, DscpDefault \in Dscp
  PROVE  ChannelSpec => []SocketsFollowPreference
<1>1. ChannelInv => SocketsFollowPreference
  BY DEF ChannelInv
<1>2. QED
  BY <1>1, ChannelInvHolds, PTL
=============================================================================
