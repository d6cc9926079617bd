----------------------------- MODULE MediaChannel -----------------------------
(***************************************************************************)
(* How cricket::MediaChannel (media/base/media_channel.h) uses the network *)
(* interface it sends through.  The worker thread replaces the interface   *)
(* and sets options and the DSCP value; media engine threads send packets. *)
(* network_interface_mutex_ is held for the whole of each operation, calls *)
(* into the interface included; a step runs from one such call to the      *)
(* next.  Interfaces are external objects: their SetOption may fail, and   *)
(* their owner may destroy one that the channel no longer uses.            *)
(***************************************************************************)
EXTENDS Naturals

CONSTANTS
    Thread, Interface, NoInterface, NoThread,
    Dscp, DscpDefault   \* code points, and rtc::DSCP_DEFAULT among them

Socket == {"rtp", "rtcp"}

VARIABLES
    enable_dscp_,       \* fixed by the configuration
    preferred_dscp_,
    network_interface_, \* the interface in use, or NoInterface
    mutex,              \* the holder of network_interface_mutex_, or NoThread
    call,               \* the call each thread is making into an interface
    dscp,               \* the value in force on each interface's sockets
    alive,              \* the interfaces their owner has not destroyed
    failed,             \* history: the caller of its last UpdateDscp, if that failed
    ret                 \* history: SetPreferredDscp's last result on it

channelVars == <<enable_dscp_, preferred_dscp_, network_interface_, mutex, call, dscp,
                 alive, failed, ret>>

NoCall == [to |-> NoInterface]
Call == {NoCall} \union
    [to : Interface, what : {"send", "option"}] \union
    [to : Interface, what : {"dscp"}, socket : Socket, setter : BOOLEAN]

ChannelTypeOK ==
    /\ enable_dscp_ \in BOOLEAN
    /\ preferred_dscp_ \in Dscp
    /\ network_interface_ \in Interface \union {NoInterface}
    /\ mutex \in Thread \union {NoThread}
    /\ call \in [Thread -> Call]
    /\ dscp \in [Interface -> [Socket -> Dscp]]
    /\ alive \subseteq Interface
    /\ failed \in {"no", "SetInterface", "SetPreferredDscp"}
    /\ ret \in {0, 1}

-----------------------------------------------------------------------------
(* The value UpdateDscp applies. *)
DscpValue == IF enable_dscp_ THEN preferred_dscp_ ELSE DscpDefault

(* As below, but the pointer is used after the mutex is released. *)
Send_Unlocked(t) ==
    /\ mutex = NoThread
    /\ call[t] = NoCall
    /\ network_interface_ # NoInterface
    /\ call' = [call EXCEPT ![t] = [to |-> network_interface_, what |-> "send"]]
    /\ UNCHANGED <<enable_dscp_, preferred_dscp_, network_interface_, mutex, dscp,
                   alive, failed, ret>>

(* DoSendPacket: SendPacket or SendRtcp of the interface; nothing happens  *)
(* when there is none.                                                     *)
Send(t) ==
    /\ mutex = NoThread
    /\ network_interface_ # NoInterface
    /\ mutex' = t
    /\ call' = [call EXCEPT ![t] = [to |-> network_interface_, what |-> "send"]]
    /\ UNCHANGED <<enable_dscp_, preferred_dscp_, network_interface_, dscp, alive, failed, ret>>

(* SetOption, for an option other than OPT_DSCP. *)
SetOption(t) ==
    /\ mutex = NoThread
    /\ network_interface_ # NoInterface
    /\ mutex' = t
    /\ call' = [call EXCEPT ![t] = [to |-> network_interface_, what |-> "option"]]
    /\ UNCHANGED <<enable_dscp_, preferred_dscp_, network_interface_, dscp, alive, failed, ret>>

CallReturns(t) ==
    /\ call[t].to # NoInterface
    /\ call[t].what \in {"send", "option"}
    /\ mutex' = NoThread
    /\ call' = [call EXCEPT ![t] = NoCall]
    /\ UNCHANGED <<enable_dscp_, preferred_dscp_, network_interface_, dscp, alive, failed, ret>>

(* UpdateDscp begins with the RTP socket; without an interface it fails.   *)
UpdateDscp(t, iface, setter) ==
    IF iface = NoInterface
    THEN UNCHANGED <<mutex, call>>
    ELSE /\ mutex' = t
         /\ call' = [call EXCEPT ![t] = [to |-> iface, what |-> "dscp",
                                         socket |-> "rtp", setter |-> setter]]

(* SetPreferredDscp: the value is stored before it is applied, and the     *)
(* value already stored is not applied again.                              *)
SetPreferredDscp(t, v) ==
    /\ mutex = NoThread
    /\ preferred_dscp_' = v
    /\ IF v = preferred_dscp_
       THEN ret' = 0 /\ UNCHANGED <<mutex, call>>
       ELSE /\ UpdateDscp(t, network_interface_, TRUE)
            /\ ret' = IF network_interface_ = NoInterface THEN 1 ELSE ret
    /\ UNCHANGED <<enable_dscp_, network_interface_, dscp, alive, failed>>

(* SetInterface (external): the other caller of UpdateDscp. *)
SetInterface(t, iface) ==
    /\ mutex = NoThread
    /\ iface = NoInterface \/ iface \in alive
    /\ network_interface_' = iface
    /\ UpdateDscp(t, iface, FALSE)
    /\ failed' = "no" /\ ret' = 1
    /\ UNCHANGED <<enable_dscp_, preferred_dscp_, dscp, alive>>

(* As below, but the RTCP socket is forgotten. *)
DscpApplied_RtpOnly(t) ==
    /\ call[t].to # NoInterface
    /\ call[t].what = "dscp"
    /\ dscp' = [dscp EXCEPT ![call[t].to][call[t].socket] = DscpValue]
    /\ call' = [call EXCEPT ![t] = NoCall]
    /\ mutex' = NoThread
    /\ failed' = "no"
    /\ ret' = IF call[t].setter THEN 0 ELSE ret
    /\ UNCHANGED <<enable_dscp_, preferred_dscp_, network_interface_, alive>>

(* SetOption(OPT_DSCP) succeeds on a socket: RTP first, then RTCP. *)
DscpApplied(t) ==
    /\ call[t].to # NoInterface
    /\ call[t].what = "dscp"
    /\ dscp' = [dscp EXCEPT ![call[t].to][call[t].socket] = DscpValue]
    /\ IF call[t].socket = "rtp"
       THEN /\ call' = [call EXCEPT ![t].socket = "rtcp"]
            /\ UNCHANGED <<mutex, failed, ret>>
       ELSE /\ call' = [call EXCEPT ![t] = NoCall]
            /\ mutex' = NoThread
            /\ failed' = "no"
            /\ ret' = IF call[t].setter THEN 0 ELSE ret
    /\ UNCHANGED <<enable_dscp_, preferred_dscp_, network_interface_, alive>>

(* It fails: UpdateDscp stops and returns the error. *)
DscpFails(t) ==
    /\ call[t].to # NoInterface
    /\ call[t].what = "dscp"
    /\ call' = [call EXCEPT ![t] = NoCall]
    /\ mutex' = NoThread
    /\ failed' = IF call[t].setter THEN "SetPreferredDscp" ELSE "SetInterface"
    /\ ret' = IF call[t].setter THEN 1 ELSE ret
    /\ UNCHANGED <<enable_dscp_, preferred_dscp_, network_interface_, dscp, alive>>

(* The owner destroys an interface that SetInterface has replaced. *)
DestroyInterface(i) ==
    /\ i \in alive /\ i # network_interface_
    /\ alive' = alive \ {i}
    /\ UNCHANGED <<enable_dscp_, preferred_dscp_, network_interface_, mutex, call,
                   dscp, failed, ret>>

(* A new one has some value of its own on its sockets. *)
CreateInterface(i) ==
    /\ i \notin alive
    /\ alive' = alive \union {i}
    /\ \E v \in Dscp : dscp' = [dscp EXCEPT ![i] = [socket \in Socket |-> v]]
    /\ UNCHANGED <<enable_dscp_, preferred_dscp_, network_interface_, mutex, call, failed,
                   ret>>

-----------------------------------------------------------------------------
ChannelInit ==
    /\ enable_dscp_ \in BOOLEAN
    /\ preferred_dscp_ = DscpDefault
    /\ network_interface_ = NoInterface
    /\ mutex = NoThread
    /\ call = [t \in Thread |-> NoCall]
    /\ dscp = [i \in Interface |-> [socket \in Socket |-> DscpDefault]]
    /\ alive = {}
    /\ failed = "no"
    /\ ret = 1

ChannelNext ==
    \/ \E t \in Thread :
          \/ Send(t) \/ SetOption(t) \/ CallReturns(t)
          \/ \E v \in Dscp : SetPreferredDscp(t, v)
          \/ \E i \in Interface \union {NoInterface} : SetInterface(t, i)
          \/ DscpApplied(t)
          \/ DscpFails(t)
    \/ \E i \in Interface : DestroyInterface(i) \/ CreateInterface(i)

ChannelSpec == ChannelInit /\ [][ChannelNext]_channelVars

-----------------------------------------------------------------------------
(* No thread is inside an interface that has been destroyed: an owner may  *)
(* delete it as soon as SetInterface has replaced it ("this critical       *)
(* section is to protect accessing of network_interface_ object").         *)
CallsOnlyLiveInterfaces ==
    \A t \in Thread : call[t].to \in alive \union {NoInterface}

(* Whenever a thread can send, both sockets of the interface carry the     *)
(* preferred value, or the default one when DSCP is disabled, unless the   *)
(* last UpdateDscp failed: through changes of the value, of the interface, *)
(* and of the value while there is no interface.                           *)
SocketsFollowPreference ==
    mutex = NoThread /\ network_interface_ # NoInterface /\ failed = "no"
        => \A socket \in Socket : dscp[network_interface_][socket] = DscpValue

(* On an interface that SetInterface has set up, both sockets carry "the   *)
(* DSCP value used for both RTP and RTCP channels" when SetPreferredDscp   *)
(* has returned 0.                                                         *)
SuccessMeansApplied ==
    mutex = NoThread /\ network_interface_ # NoInterface /\ failed # "SetInterface" /\ ret = 0
        => \A socket \in Socket : dscp[network_interface_][socket] = DscpValue
=============================================================================
