------------------------------- MODULE Poller -------------------------------
(***************************************************************************)
(* Poller.h, Channel.h and the part of EventLoop::loop() that uses them:   *)
(* what the two pollers share.  A Channel carries the events its owner     *)
(* wants; the poller keeps a map from descriptors to channels and hands    *)
(* the loop the channels that are ready; the loop handles them one after   *)
(* the other, and their callbacks change channels while others of the same *)
(* round are still waiting to be handled.                                  *)
(*                                                                         *)
(* EpollPoller and PollPoller extend this module with their bookkeeping.   *)
(***************************************************************************)
EXTENDS Integers, Sequences, Functions, FiniteSets

CONSTANTS
  Channels,     \* Channel objects
  Fd,           \* the descriptor of each channel; a descriptor is reused
  NoChannel     \* not a channel

ASSUME PollerAssumption ==
  /\ Fd \in [Channels -> Nat]
  /\ NoChannel \notin Channels

VARIABLES
  events_,          \* Channel::events_: what each channel wants
  channels_,        \* Poller::channels_, from descriptors to channels
  activeChannels_,  \* EventLoop::activeChannels_, the part still to handle
  handling,         \* the channel whose handleEvent is running
  phase             \* "poll", "events" or "functors"

Events == {"read", "write"}
pollerVars == <<events_, channels_, activeChannels_, handling, phase>>

PollerTypeOK ==
  /\ events_ \in [Channels -> SUBSET Events]
  /\ DOMAIN channels_ \subseteq Range(Fd)
  /\ Range(channels_) \subseteq Channels
  /\ activeChannels_ \subseteq Channels
  /\ handling \in Channels \cup {NoChannel}
  /\ phase \in {"poll", "events", "functors"}

PollerInit ==
  /\ events_ = [c \in Channels |-> {}]
  /\ channels_ = <<>>
  /\ activeChannels_ = {}
  /\ handling = NoChannel
  /\ phase = "functors"

(* An assignment to an entry of a map, which is created if need be.        *)
Put(map, key, value) ==
  [x \in DOMAIN map \cup {key} |-> IF x = key THEN value ELSE map[x]]

Registered(c) == Fd[c] \in DOMAIN channels_ /\ channels_[Fd[c]] = c

(* Callbacks of the channel being handled, and functors, call the poller.  *)
MayCall == phase = "functors" \/ handling # NoChannel

(* enableReading, enableWriting, disableWriting, disableAll.  A channel    *)
(* enters the poller through one of the first two, when its descriptor is  *)
(* open and so belongs to no other channel.                                *)
NewEvents(c) ==
  {events_[c] \cup {e} : e \in Events}
    \cup (IF Registered(c) THEN {events_[c] \ {"write"}, {}} ELSE {})

(* What the pollers assert of their callers is assumed of them here and in *)
(* MayRemove: a channel is updated only if its descriptor's entry in the   *)
(* map is its own, or there is none.                                       *)
MayUpdate(c) ==
  /\ MayCall
  /\ Registered(c) \/ Fd[c] \notin DOMAIN channels_

(* Mutation of MayRemove: any callback may remove any channel.             *)
MayRemoveAnytime(c) == MayCall /\ Registered(c) /\ events_[c] = {}

(* Who calls removeChannel, each after disableAll: TcpConnection, in the   *)
(* functor connDestroyed (TcpConnection.cpp:116), and Connector, for its   *)
(* own channel while it is being handled (Connector.cpp:120).  The pollers *)
(* check that the channel is registered and wants nothing.                 *)
MayRemove(c) ==
  /\ phase = "functors" \/ handling = c
  /\ Registered(c)
  /\ events_[c] = {}

-----------------------------------------------------------------------------
(* EventLoop::loop().                                                      *)

(* poll() fills in the active channels from what the kernel reports.       *)
PollReturns(reportable) ==
  /\ phase = "poll"
  /\ activeChannels_' \in SUBSET reportable
  /\ phase' = "events"
  /\ UNCHANGED <<events_, channels_, handling>>

HandleEvent(c) ==
  /\ phase = "events"
  /\ handling = NoChannel
  /\ c \in activeChannels_
  /\ handling' = c
  /\ activeChannels_' = activeChannels_ \ {c}
  /\ UNCHANGED <<events_, channels_, phase>>

HandleEventReturn ==
  /\ handling # NoChannel
  /\ handling' = NoChannel
  /\ UNCHANGED <<events_, channels_, activeChannels_, phase>>

StartFunctors ==
  /\ phase = "events"
  /\ handling = NoChannel
  /\ activeChannels_ = {}
  /\ phase' = "functors"
  /\ UNCHANGED <<events_, channels_, activeChannels_, handling>>

StartPoll ==
  /\ phase = "functors"
  /\ phase' = "poll"
  /\ UNCHANGED <<events_, channels_, activeChannels_, handling>>

LoopStep ==
  \/ \E c \in activeChannels_ : HandleEvent(c)
  \/ HandleEventReturn
  \/ StartFunctors
  \/ StartPoll

-----------------------------------------------------------------------------
(* Every channel the loop is going to handle, or is handling up to its own *)
(* removal, is one the poller knows: callbacks that disable, remove and    *)
(* replace channels never leave a stale pointer behind in the active list  *)
(* (the asserts of both fillActiveChannels).                               *)
ActiveAreRegistered == \A c \in activeChannels_ : Registered(c)
=============================================================================
