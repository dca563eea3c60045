----------------------------- MODULE EpollPoller -----------------------------
(***************************************************************************)
(* EpollPoller.{h,cpp}: the three-valued index kept in each channel, and   *)
(* the interest list the kernel keeps behind epollfd_.                     *)
(***************************************************************************)
EXTENDS Poller

VARIABLES
  index_,       \* Channel::index_
  interest      \* the kernel's list: descriptor -> <<channel, events>>

vars == <<pollerVars, index_, interest>>

kNew == -1
kAdded == 1
kDeleted == 2

TypeOK ==
  /\ PollerTypeOK
  /\ index_ \in [Channels -> {kNew, kAdded, kDeleted}]
  /\ DOMAIN interest \subseteq Range(Fd)
  /\ Range(interest) \subseteq Channels \X SUBSET Events

Init ==
  /\ PollerInit
  /\ index_ = [c \in Channels |-> kNew]
  /\ interest = <<>>

-----------------------------------------------------------------------------
(* epoll_ctl; a call that fails is logged and changes nothing.             *)
Add(c, ev) ==
  interest' = IF Fd[c] \in DOMAIN interest THEN interest
                                           ELSE Put(interest, Fd[c], <<c, ev>>)
Mod(c, ev) ==
  interest' = IF Fd[c] \in DOMAIN interest
                THEN [interest EXCEPT ![Fd[c]] = <<c, ev>>] ELSE interest
Del(c) == interest' = Restrict(interest, DOMAIN interest \ {Fd[c]})

(* Mutation of UpdateChannel: a kDeleted channel is taken to be in the     *)
(* kernel's list still, as the comment on kDeleted has it.                 *)
UpdateChannelTrustingDeleted(c) ==
  \E ev \in NewEvents(c) :
    /\ MayUpdate(c)
    /\ events_' = [events_ EXCEPT ![c] = ev]
    /\ index_' = [index_ EXCEPT ![c] = IF ev = {} THEN kDeleted ELSE kAdded]
    /\ channels_' = Put(channels_, Fd[c], c)
    /\ IF index_[c] = kNew THEN Add(c, ev)
         ELSE IF ev = {} THEN Del(c) ELSE Mod(c, ev)
    /\ UNCHANGED <<activeChannels_, handling, phase>>

(* Channel::update() after a change of events_.  A channel that is not in  *)
(* the kernel's list is added whatever it wants; one that is and wants     *)
(* nothing any more is taken out, but stays in channels_.                  *)
UpdateChannel(c) ==
  \E ev \in NewEvents(c) :
    /\ MayUpdate(c)
    /\ events_' = [events_ EXCEPT ![c] = ev]
    /\ \/ /\ index_[c] \in {kNew, kDeleted}
          /\ channels_' = IF index_[c] = kNew THEN Put(channels_, Fd[c], c)
                                              ELSE channels_
          /\ index_' = [index_ EXCEPT ![c] = kAdded]
          /\ Add(c, ev)
       \/ /\ index_[c] = kAdded
          /\ ev = {}
          /\ index_' = [index_ EXCEPT ![c] = kDeleted]
          /\ Del(c)
          /\ UNCHANGED channels_
       \/ /\ index_[c] = kAdded
          /\ ev # {}
          /\ Mod(c, ev)
          /\ UNCHANGED <<channels_, index_>>
    /\ UNCHANGED <<activeChannels_, handling, phase>>

(* Mutation of RemoveChannel: a disabled channel is taken to be out of the *)
(* kernel's list already.                                                  *)
RemoveChannelLeavingInterest(c) ==
  /\ MayRemove(c)
  /\ channels_' = Restrict(channels_, DOMAIN channels_ \ {Fd[c]})
  /\ index_' = [index_ EXCEPT ![c] = kNew]
  /\ UNCHANGED <<interest, events_, activeChannels_, handling, phase>>

(* Mutation of RemoveChannel: the map's entry is cleared, not erased.      *)
RemoveChannelClearing(c) ==
  /\ MayRemove(c)
  /\ IF index_[c] = kAdded THEN Del(c) ELSE UNCHANGED interest
  /\ channels_' = [channels_ EXCEPT ![Fd[c]] = NoChannel]
  /\ index_' = [index_ EXCEPT ![c] = kNew]
  /\ UNCHANGED <<events_, activeChannels_, handling, phase>>

(* Mutation of RemoveChannel: the index survives.                          *)
RemoveChannelKeepingIndex(c) ==
  /\ MayRemove(c)
  /\ IF index_[c] = kAdded THEN Del(c) ELSE UNCHANGED interest
  /\ channels_' = Restrict(channels_, DOMAIN channels_ \ {Fd[c]})
  /\ UNCHANGED <<index_, events_, activeChannels_, handling, phase>>

RemoveChannel(c) ==
  /\ MayRemove(c)
  /\ IF index_[c] = kAdded THEN Del(c) ELSE UNCHANGED interest
  /\ channels_' = Restrict(channels_, DOMAIN channels_ \ {Fd[c]})
  /\ index_' = [index_ EXCEPT ![c] = kNew]
  /\ UNCHANGED <<events_, activeChannels_, handling, phase>>

(* epoll_wait and fillActiveChannels: any of the listed descriptors may be *)
(* reported, one that wants no events too (EPOLLHUP and EPOLLERR are       *)
(* always watched).                                                        *)
Poll ==
  /\ PollReturns({interest[fd][1] : fd \in DOMAIN interest})
  /\ UNCHANGED <<index_, interest>>

Next ==
  \/ Poll
  \/ LoopStep /\ UNCHANGED <<index_, interest>>
  \/ \E c \in Channels : UpdateChannel(c) \/ RemoveChannel(c)

Spec == Init /\ [][Next]_vars

-----------------------------------------------------------------------------
(* The index of a channel says where it is: kNew in neither list, kDeleted *)
(* in channels_ only, kAdded in channels_ and in the kernel's list.  Every *)
(* assert of updateChannel and removeChannel follows.                      *)
IndexAgrees ==
  \A c \in Channels :
    /\ Registered(c) <=> index_[c] # kNew
    /\ (Fd[c] \in DOMAIN interest /\ interest[Fd[c]][1] = c)
         <=> index_[c] = kAdded

(* The kernel watches a registered channel for exactly the events it wants *)
(* at the moment, over any sequence of enable and disable calls.           *)
WatchesWhatIsWanted ==
  \A c \in Channels : Registered(c) =>
    IF Fd[c] \in DOMAIN interest THEN interest[Fd[c]] = <<c, events_[c]>>
                                 ELSE events_[c] = {}

(* The kernel holds no pointer to a channel that has been removed, also    *)
(* when the descriptor belongs to another channel by then.                 *)
NoDanglingInterest ==
  \A fd \in DOMAIN interest : Registered(interest[fd][1])
==============================================================================
