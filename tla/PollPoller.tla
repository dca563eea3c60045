------------------------------ MODULE PollPoller ------------------------------
(***************************************************************************)
(* PollPoller.{h,cpp}: the array handed to poll(2), and the position each  *)
(* channel remembers in it.  An entry is ignored by giving it the negative *)
(* descriptor -fd - 1; an entry is removed by swapping it with the last.   *)
(***************************************************************************)
EXTENDS Poller

VARIABLES
  index_,     \* Channel::index_, counted from 0
  pollfds_    \* sequence of [fd, events]

vars == <<pollerVars, index_, pollfds_>>

Ignored(fd) == -fd - 1
Unsigned(fd) == IF fd < 0 THEN -fd - 1 ELSE fd

TypeOK ==
  /\ PollerTypeOK
  /\ index_ \in [Channels -> Nat \cup {-1}]
  /\ pollfds_ \in Seq([fd : Int, events : SUBSET Events])

Init ==
  /\ PollerInit
  /\ index_ = [c \in Channels |-> -1]
  /\ pollfds_ = <<>>

-----------------------------------------------------------------------------
(* Channel::update() after a change of events_.  A new channel is appended *)
(* with its own descriptor; a known one has its events stored, and its     *)
(* descriptor negated if there are none.  That it is registered is an      *)
(* assert of the code: its callers do not update a channel they removed.   *)
UpdateChannel(c) ==
  \E ev \in NewEvents(c) :
    /\ MayUpdate(c)
    /\ events_' = [events_ EXCEPT ![c] = ev]
    /\ \/ /\ index_[c] < 0
          /\ pollfds_' = Append(pollfds_, [fd |-> Fd[c], events |-> ev])
          /\ index_' = [index_ EXCEPT ![c] = Len(pollfds_)]
          /\ channels_' = Put(channels_, Fd[c], c)
       \/ /\ index_[c] >= 0
          /\ Registered(c)
          /\ pollfds_' = [pollfds_ EXCEPT ![index_[c] + 1] =
                            [fd |-> IF ev = {} THEN Ignored(Fd[c]) ELSE @.fd,
                             events |-> ev]]
          /\ UNCHANGED <<index_, channels_>>
    /\ UNCHANGED <<activeChannels_, handling, phase>>

(* Mutation of RemoveChannel: the descriptor of the last entry is looked   *)
(* up as it stands, so an ignored channel is not found and not told.       *)
RemoveChannelSigned(c) ==
  LET n == Len(pollfds_)
  IN  /\ MayRemove(c)
      /\ channels_' = Restrict(channels_, DOMAIN channels_ \ {Fd[c]})
      /\ pollfds_' = SubSeq([pollfds_ EXCEPT ![index_[c] + 1] = pollfds_[n]],
                            1, n - 1)
      /\ index_' = [d \in Channels |->
                      IF pollfds_[n].fd \in DOMAIN channels_
                           /\ channels_[pollfds_[n].fd] = d
                        THEN index_[c] ELSE index_[d]]
      /\ UNCHANGED <<events_, activeChannels_, handling, phase>>

(* The last entry moves into the hole, and the channel it belongs to,      *)
(* found through channels_, learns its new position.  The removed channel  *)
(* is told nothing: its index_ is now another channel's place, or none's.  *)
RemoveChannel(c) ==
  LET n == Len(pollfds_)
      channelAtEnd == channels_[Unsigned(pollfds_[n].fd)]
  IN  /\ MayRemove(c)
      /\ channels_' = Restrict(channels_, DOMAIN channels_ \ {Fd[c]})
      /\ pollfds_' = SubSeq([pollfds_ EXCEPT ![index_[c] + 1] = pollfds_[n]],
                            1, n - 1)
      /\ index_' = [index_ EXCEPT ![channelAtEnd] = index_[c]]
      /\ UNCHANGED <<events_, activeChannels_, handling, phase>>

(* Once removed, and once its handleEvent has returned, a channel is       *)
(* destroyed by its owner; c then stands for the next one constructed for  *)
(* the descriptor.                                                         *)
Construct(c) ==
  /\ MayCall
  /\ ~Registered(c)
  /\ index_[c] >= 0
  /\ handling # c
  /\ index_' = [index_ EXCEPT ![c] = -1]
  /\ UNCHANGED <<pollerVars, pollfds_>>

(* poll(2) skips negative descriptors; fillActiveChannels finds the        *)
(* channel of each reported one.                                           *)
Poll ==
  /\ PollReturns({channels_[pollfds_[i].fd] :
                    i \in {j \in DOMAIN pollfds_ : pollfds_[j].fd >= 0}})
  /\ UNCHANGED <<index_, pollfds_>>

Next ==
  \/ Poll
  \/ LoopStep /\ UNCHANGED <<index_, pollfds_>>
  \/ \E c \in Channels : UpdateChannel(c) \/ RemoveChannel(c) \/ Construct(c)

Spec == Init /\ [][Next]_vars

-----------------------------------------------------------------------------
Position(c) == index_[c] + 1

(* Every registered channel's index is the position of its own entry, with *)
(* the events it wants stored in it, and the array has no other entries:   *)
(* whichever channels are removed, and in whatever order, the swap with    *)
(* the last entry leaves no index pointing at another channel's            *)
(* descriptor.  An entry is a channel's own by its descriptor in either    *)
(* form: one that wants nothing has it negated, and so is hidden from      *)
(* poll(2), POLLHUP and POLLERR included.  That one which wants something  *)
(* is asked for is not said: enabling again after a disable does not       *)
(* restore the descriptor (line 69), and poll(2) goes on skipping it.      *)
IndexAgrees ==
  /\ Len(pollfds_) = Cardinality(DOMAIN channels_)
  /\ \A c \in Channels : Registered(c) =>
       /\ Position(c) \in DOMAIN pollfds_
       /\ Unsigned(pollfds_[Position(c)].fd) = Fd[c]
       /\ pollfds_[Position(c)].events = events_[c]
       /\ events_[c] = {} => pollfds_[Position(c)].fd = Ignored(Fd[c])
================================================================================
