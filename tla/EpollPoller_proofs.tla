-------------------------- MODULE EpollPoller_proofs --------------------------
(***************************************************************************)
(* Theorems about EpollPoller, for any number of channels and descriptors, *)
(* and any assignment of descriptors to channels.                          *)
(***************************************************************************)
EXTENDS EpollPoller, TLAPS

(* The map and the kernel's list file a channel under its own descriptor.  *)
FiledByFd ==
  /\ \A fd \in DOMAIN channels_ : Fd[channels_[fd]] = fd
  /\ \A fd \in DOMAIN interest : Fd[interest[fd][1]] = fd

(* A disabled channel that is still registered wants nothing, and one in   *)
(* the kernel's list is listed with what it wants.                         *)
ListedAsWanted ==
  \A c \in Channels :
    /\ index_[c] = kDeleted => events_[c] = {}
    /\ index_[c] = kAdded => interest[Fd[c]][2] = events_[c]

BooksAgree == IndexAgrees /\ FiledByFd /\ ListedAsWanted

(* Channels are active only while the loop handles them, and the one whose *)
(* handleEvent is running is no longer among them.                         *)
RoundInv ==
  /\ phase # "events" => activeChannels_ = {} /\ handling = NoChannel
  /\ handling \notin activeChannels_
  /\ ActiveAreRegistered

IInv == TypeOK /\ BooksAgree /\ RoundInv

-----------------------------------------------------------------------------
(* What is in the kernel's list is registered.                             *)
LEMMA ListedAreRegistered ==
  ASSUME TypeOK, BooksAgree, NEW fd \in DOMAIN interest
  PROVE  /\ interest[fd][1] \in Channels
         /\ interest[fd] = <<interest[fd][1], interest[fd][2]>>
         /\ interest[fd][2] \in SUBSET Events
         /\ index_[interest[fd][1]] = kAdded
         /\ Registered(interest[fd][1])
         /\ fd \in DOMAIN channels_ /\ channels_[fd] = interest[fd][1]
<1>1. interest[fd] \in Channels \X SUBSET Events
  BY DEF TypeOK, Range
<1>2. Fd[interest[fd][1]] = fd
  BY DEF BooksAgree, FiledByFd
<1>3. index_[interest[fd][1]] = kAdded
  BY <1>1, <1>2 DEF BooksAgree, IndexAgrees
<1> QED BY <1>1, <1>2, <1>3 DEF BooksAgree, IndexAgrees, Registered, kAdded, kNew

(* A channel that is about to be added finds its descriptor free in the    *)
(* kernel's list: epoll_ctl(EPOLL_CTL_ADD) does not fail.                  *)
LEMMA AddSucceeds ==
  ASSUME TypeOK, BooksAgree, NEW c \in Channels, MayUpdate(c),
         index_[c] \in {kNew, kDeleted}
  PROVE  Fd[c] \notin DOMAIN interest
<1>1. SUFFICES ASSUME Fd[c] \in DOMAIN interest
               PROVE  FALSE
  OBVIOUS
<1>2. /\ Fd[c] \in DOMAIN channels_
      /\ index_[channels_[Fd[c]]] = kAdded
  BY <1>1, ListedAreRegistered
<1>3. Registered(c)
  BY <1>2 DEF MayUpdate
<1> QED BY <1>2, <1>3 DEF Registered, kAdded, kNew, kDeleted

-----------------------------------------------------------------------------
(* What the three branches of updateChannel, and removeChannel, do to the  *)
(* map and to the kernel's list.                                           *)
Registering(c, ev) ==
  /\ index_[c] \in {kNew, kDeleted}
  /\ channels_' = IF index_[c] = kNew THEN Put(channels_, Fd[c], c)
                                      ELSE channels_
  /\ index_' = [index_ EXCEPT ![c] = kAdded]
  /\ interest' = Put(interest, Fd[c], <<c, ev>>)

Disabling(c, ev) ==
  /\ index_[c] = kAdded
  /\ ev = {}
  /\ index_' = [index_ EXCEPT ![c] = kDeleted]
  /\ interest' = Restrict(interest, DOMAIN interest \ {Fd[c]})
  /\ UNCHANGED channels_

Modifying(c, ev) ==
  /\ index_[c] = kAdded
  /\ ev # {}
  /\ interest' = [interest EXCEPT ![Fd[c]] = <<c, ev>>]
  /\ UNCHANGED <<channels_, index_>>

(* updateChannel() registers, disables or modifies, and does nothing else. *)
LEMMA UpdateCases ==
  ASSUME TypeOK, BooksAgree, NEW c \in Channels, UpdateChannel(c)
  PROVE  \E ev \in SUBSET Events :
           /\ MayUpdate(c)
           /\ events_' = [events_ EXCEPT ![c] = ev]
           /\ Registering(c, ev) \/ Disabling(c, ev) \/ Modifying(c, ev)
           /\ UNCHANGED <<activeChannels_, handling, phase>>
<1>1. NewEvents(c) \subseteq SUBSET Events
  BY DEF NewEvents, TypeOK, PollerTypeOK
<1>2. index_[c] = kAdded => Fd[c] \in DOMAIN interest
  BY DEF BooksAgree, IndexAgrees
<1>3. MayUpdate(c) /\ index_[c] \in {kNew, kDeleted} => Fd[c] \notin DOMAIN interest
  BY AddSucceeds
<1> QED BY <1>1, <1>2, <1>3 DEF UpdateChannel, Registering, Disabling, Modifying,
                               Add, Mod, Del

(* The books agree after every updateChannel ...                           *)
LEMMA UpdateKeepsBooks ==
  ASSUME TypeOK, BooksAgree, NEW c \in Channels, UpdateChannel(c)
  PROVE  TypeOK' /\ BooksAgree'
<1>1. PICK ev \in SUBSET Events :
        /\ MayUpdate(c)
        /\ events_' = [events_ EXCEPT ![c] = ev]
        /\ Registering(c, ev) \/ Disabling(c, ev) \/ Modifying(c, ev)
        /\ UNCHANGED <<activeChannels_, handling, phase>>
  BY UpdateCases
<1>2. /\ Fd \in [Channels -> Nat]
      /\ Fd[c] \in Range(Fd)
  BY PollerAssumption DEF Range
<1>3. /\ events_ \in [Channels -> SUBSET Events]
      /\ index_ \in [Channels -> {kNew, kAdded, kDeleted}]
      /\ events_' \in [Channels -> SUBSET Events]
      /\ events_'[c] = ev
      /\ \A d \in Channels : d # c => events_'[d] = events_[d]
  BY <1>1 DEF TypeOK, PollerTypeOK
<1>4. \A d \in Channels : Fd[d] = Fd[c] /\ d # c => index_[d] = kNew
  <2>1. Registered(c) \/ Fd[c] \notin DOMAIN channels_
    BY <1>1 DEF MayUpdate
  <2> QED BY <2>1 DEF BooksAgree, IndexAgrees, Registered
<1>5. SUFFICES /\ \A fd \in DOMAIN channels_' :
                    /\ fd \in Range(Fd)
                    /\ channels_'[fd] \in Channels
                    /\ Fd[channels_'[fd]] = fd
               /\ \A fd \in DOMAIN interest' :
                    /\ fd \in Range(Fd)
                    /\ interest'[fd] \in Channels \X SUBSET Events
                    /\ Fd[interest'[fd][1]] = fd
               /\ index_' \in [Channels -> {kNew, kAdded, kDeleted}]
               /\ IndexAgrees'
               /\ ListedAsWanted'
  <2>1. PollerTypeOK'
    BY <1>1, <1>3, <1>5 DEF TypeOK, PollerTypeOK, Range
  <2>2. TypeOK'
    BY <2>1, <1>5 DEF TypeOK, Range
  <2>3. FiledByFd'
    BY <1>5 DEF FiledByFd
  <2> QED BY <2>2, <2>3, <1>5 DEF BooksAgree
<1>6. /\ \A fd \in DOMAIN channels_ :
           fd \in Range(Fd) /\ channels_[fd] \in Channels /\ Fd[channels_[fd]] = fd
      /\ \A fd \in DOMAIN interest :
           /\ fd \in Range(Fd)
           /\ interest[fd] \in Channels \X SUBSET Events
           /\ Fd[interest[fd][1]] = fd
  BY DEF TypeOK, PollerTypeOK, BooksAgree, FiledByFd, Range
<1>7. \A d \in Channels :
        /\ Registered(d) <=> index_[d] # kNew
        /\ (Fd[d] \in DOMAIN interest /\ interest[Fd[d]][1] = d) <=> index_[d] = kAdded
        /\ index_[d] = kDeleted => events_[d] = {}
        /\ index_[d] = kAdded => interest[Fd[d]][2] = events_[d]
  BY DEF BooksAgree, IndexAgrees, ListedAsWanted
<1>. USE DEF kNew, kAdded, kDeleted
<1>8. CASE Registering(c, ev)
  <2>1. /\ DOMAIN interest' = DOMAIN interest \cup {Fd[c]}
        /\ interest'[Fd[c]] = <<c, ev>>
        /\ \A x \in DOMAIN interest : x # Fd[c] => interest'[x] = interest[x]
    BY <1>8 DEF Registering, Put
  <2>2. /\ DOMAIN channels_' = DOMAIN channels_ \cup {Fd[c]}
        /\ channels_'[Fd[c]] = c
        /\ \A x \in DOMAIN channels_ : x # Fd[c] => channels_'[x] = channels_[x]
    <3>1. CASE index_[c] = kNew
      <4>1. channels_' = Put(channels_, Fd[c], c)
        BY <1>8, <3>1 DEF Registering
      <4> QED BY <4>1 DEF Put
    <3>2. CASE index_[c] = kDeleted
      <4>1. channels_' = channels_
        BY <1>8, <3>2 DEF Registering
      <4>2. Fd[c] \in DOMAIN channels_ /\ channels_[Fd[c]] = c
        BY <1>7, <3>2 DEF Registered
      <4> QED BY <4>1, <4>2
    <3> QED BY <3>1, <3>2, <1>8 DEF Registering
  <2>3. /\ index_' \in [Channels -> {kNew, kAdded, kDeleted}]
        /\ index_'[c] = kAdded
        /\ \A d \in Channels : d # c => index_'[d] = index_[d]
    BY <1>3, <1>8 DEF Registering
  <2>4. IndexAgrees'
    BY <1>4, <1>7, <2>1, <2>2, <2>3 DEF IndexAgrees, Registered
  <2>5. ListedAsWanted'
    BY <1>3, <1>4, <1>7, <2>1, <2>3 DEF ListedAsWanted
  <2>6. \A fd \in DOMAIN channels_' :
          fd \in Range(Fd) /\ channels_'[fd] \in Channels /\ Fd[channels_'[fd]] = fd
    BY <1>2, <1>6, <2>2
  <2>7. \A fd \in DOMAIN interest' :
          /\ fd \in Range(Fd)
          /\ interest'[fd] \in Channels \X SUBSET Events
          /\ Fd[interest'[fd][1]] = fd
    BY <1>2, <1>6, <2>1
  <2> QED BY <2>3, <2>4, <2>5, <2>6, <2>7
<1>9. CASE Disabling(c, ev)
  <2>1. /\ DOMAIN interest' = DOMAIN interest \ {Fd[c]}
        /\ \A x \in DOMAIN interest : x # Fd[c] => interest'[x] = interest[x]
    BY <1>9 DEF Disabling, Restrict
  <2>2. channels_' = channels_ /\ ev = {} /\ index_[c] = kAdded
    BY <1>9 DEF Disabling
  <2>3. /\ index_' \in [Channels -> {kNew, kAdded, kDeleted}]
        /\ index_'[c] = kDeleted
        /\ \A d \in Channels : d # c => index_'[d] = index_[d]
    BY <1>3, <1>9 DEF Disabling
  <2>4. IndexAgrees'
    BY <1>4, <1>7, <2>1, <2>2, <2>3 DEF IndexAgrees, Registered
  <2>5. ListedAsWanted'
    BY <1>3, <1>4, <1>7, <2>1, <2>2, <2>3 DEF ListedAsWanted
  <2> QED BY <1>6, <2>1, <2>2, <2>3, <2>4, <2>5
<1>10. CASE Modifying(c, ev)
  <2>1. index_[c] = kAdded /\ Fd[c] \in DOMAIN interest
    BY <1>7, <1>10 DEF Modifying
  <2>2. /\ DOMAIN interest' = DOMAIN interest
        /\ interest'[Fd[c]] = <<c, ev>>
        /\ \A x \in DOMAIN interest : x # Fd[c] => interest'[x] = interest[x]
    BY <1>10, <2>1 DEF Modifying
  <2>3. channels_' = channels_ /\ index_' = index_
    BY <1>10 DEF Modifying
  <2>4. IndexAgrees'
    BY <1>4, <1>7, <2>1, <2>2, <2>3 DEF IndexAgrees, Registered
  <2>5. ListedAsWanted'
    BY <1>3, <1>4, <1>7, <2>1, <2>2, <2>3 DEF ListedAsWanted
  <2> QED BY <1>2, <1>3, <1>6, <2>1, <2>2, <2>3, <2>4, <2>5
<1> QED BY <1>1, <1>8, <1>9, <1>10

(* ... and after every removeChannel.                                      *)
LEMMA RemoveKeepsBooks ==
  ASSUME TypeOK, BooksAgree, NEW c \in Channels, RemoveChannel(c)
  PROVE  TypeOK' /\ BooksAgree'
<1>. USE DEF kNew, kAdded, kDeleted
<1>1. /\ events_' = events_ /\ activeChannels_' = activeChannels_
      /\ handling' = handling /\ phase' = phase
  BY DEF RemoveChannel
<1>2. /\ DOMAIN channels_' = DOMAIN channels_ \ {Fd[c]}
      /\ \A x \in DOMAIN channels_' : channels_'[x] = channels_[x]
  BY DEF RemoveChannel, Restrict
<1>3. /\ index_' \in [Channels -> {kNew, kAdded, kDeleted}]
      /\ index_'[c] = kNew
      /\ \A d \in Channels : d # c => index_'[d] = index_[d]
  BY DEF RemoveChannel, TypeOK
<1>4. \A d \in Channels :
        /\ Registered(d) <=> index_[d] # kNew
        /\ (Fd[d] \in DOMAIN interest /\ interest[Fd[d]][1] = d) <=> index_[d] = kAdded
        /\ index_[d] = kDeleted => events_[d] = {}
        /\ index_[d] = kAdded => interest[Fd[d]][2] = events_[d]
  BY DEF BooksAgree, IndexAgrees, ListedAsWanted
<1>5. Registered(c)
  BY DEF RemoveChannel, MayRemove
<1>6. \A d \in Channels : Fd[d] = Fd[c] /\ d # c => index_[d] = kNew
  BY <1>4, <1>5 DEF Registered
<1>7. /\ DOMAIN interest' = DOMAIN interest \ {Fd[c]}
      /\ \A x \in DOMAIN interest' : interest'[x] = interest[x]
  <2>1. CASE index_[c] = kAdded
    BY <2>1 DEF RemoveChannel, Del, Restrict
  <2>2. CASE index_[c] # kAdded
    <3>1. interest' = interest
      BY <2>2 DEF RemoveChannel
    <3>2. ASSUME Fd[c] \in DOMAIN interest
          PROVE  FALSE
      <4>1. channels_[Fd[c]] = interest[Fd[c]][1] /\ index_[interest[Fd[c]][1]] = kAdded
        BY <3>2, ListedAreRegistered
      <4> QED BY <2>2, <4>1, <1>5 DEF Registered
    <3> QED BY <3>1, <3>2
  <2> QED BY <2>1, <2>2
<1>8. TypeOK'
  <2>1. PollerTypeOK'
    BY <1>1, <1>2 DEF TypeOK, PollerTypeOK, Range
  <2> QED BY <2>1, <1>3, <1>7 DEF TypeOK, Range
<1>9. FiledByFd'
  BY <1>2, <1>7 DEF BooksAgree, FiledByFd
<1>10. IndexAgrees'
  BY <1>2, <1>3, <1>4, <1>6, <1>7 DEF IndexAgrees, Registered
<1>11. ListedAsWanted'
  BY <1>1, <1>3, <1>4, <1>6, <1>7 DEF ListedAsWanted
<1> QED BY <1>8, <1>9, <1>10, <1>11 DEF BooksAgree

-----------------------------------------------------------------------------
(* Calls of the poller from callbacks leave the active channels valid: an  *)
(* update registers more, and a removal takes out a channel that is not    *)
(* active, and no other one with it.                                       *)
LEMMA UpdateKeepsRound ==
  ASSUME IInv, NEW c \in Channels, UpdateChannel(c)
  PROVE  RoundInv'
<1>1. UNCHANGED <<activeChannels_, handling, phase>>
  BY DEF UpdateChannel
<1>2. \A d \in Channels : Registered(d) => Registered(d)'
  <2>1. CASE channels_' = channels_
    BY <2>1 DEF Registered
  <2>2. CASE channels_' = Put(channels_, Fd[c], c) /\ index_[c] = kNew /\ MayUpdate(c)
    BY <2>2 DEF IInv, BooksAgree, IndexAgrees, MayUpdate, Registered, Put
  <2> QED BY <2>1, <2>2 DEF UpdateChannel
<1>3. activeChannels_ \subseteq Channels
  BY DEF IInv, TypeOK, PollerTypeOK
<1> QED BY <1>1, <1>2, <1>3 DEF IInv, RoundInv, ActiveAreRegistered

(* Removing a channel leaves the round of active channels sound.           *)
LEMMA RemoveKeepsRound ==
  ASSUME IInv, NEW c \in Channels, RemoveChannel(c)
  PROVE  RoundInv'
<1>1. UNCHANGED <<activeChannels_, handling, phase>>
  BY DEF RemoveChannel
<1>2. Registered(c) /\ c \notin activeChannels_
  BY DEF RemoveChannel, MayRemove, IInv, RoundInv
<1>3. \A d \in Channels : Registered(d) /\ d # c => Registered(d)'
  BY <1>2 DEF RemoveChannel, Registered, Restrict
<1>4. activeChannels_ \subseteq Channels
  BY DEF IInv, TypeOK, PollerTypeOK
<1> QED BY <1>1, <1>2, <1>3, <1>4 DEF IInv, RoundInv, ActiveAreRegistered

(* poll() reports registered channels only.                                *)
LEMMA PollKeepsInv ==
  ASSUME IInv, Poll
  PROVE  IInv'
<1>1. /\ phase = "poll" /\ phase' = "events"
      /\ activeChannels_' \subseteq {interest[fd][1] : fd \in DOMAIN interest}
      /\ UNCHANGED <<events_, channels_, handling, index_, interest>>
  BY DEF Poll, PollReturns
<1>2. \A c \in activeChannels_' : c \in Channels /\ Registered(c)
  BY <1>1, ListedAreRegistered DEF IInv
<1>3. handling' = NoChannel
  BY <1>1 DEF IInv, RoundInv
<1>4. TypeOK'
  BY <1>1, <1>2 DEF IInv, TypeOK, PollerTypeOK
<1>5. BooksAgree'
  BY <1>1 DEF IInv, BooksAgree, IndexAgrees, FiledByFd, ListedAsWanted, Registered
<1>6. RoundInv'
  BY <1>1, <1>2, <1>3, PollerAssumption
     DEF RoundInv, ActiveAreRegistered, Registered
<1> QED BY <1>4, <1>5, <1>6 DEF IInv

(* The loop's own steps take channels off the active list, one by one.     *)
LEMMA LoopKeepsInv ==
  ASSUME IInv, LoopStep, UNCHANGED <<index_, interest>>
  PROVE  IInv'
<1>. USE DEF IInv, RoundInv, ActiveAreRegistered
<1>1. UNCHANGED <<events_, channels_>>
  BY DEF LoopStep, HandleEvent, HandleEventReturn, StartFunctors, StartPoll
<1>2. BooksAgree'
  BY <1>1 DEF BooksAgree, IndexAgrees, FiledByFd, ListedAsWanted, Registered
<1>3. ASSUME NEW c \in activeChannels_, HandleEvent(c)
      PROVE  TypeOK' /\ RoundInv'
  BY <1>1, <1>3 DEF HandleEvent, TypeOK, PollerTypeOK, Registered
<1>4. CASE HandleEventReturn
  BY <1>1, <1>2, <1>4, PollerAssumption
     DEF HandleEventReturn, TypeOK, PollerTypeOK, Registered
<1>5. CASE StartFunctors
  BY <1>1, <1>2, <1>5 DEF StartFunctors, TypeOK, PollerTypeOK, Registered
<1>6. CASE StartPoll
  BY <1>1, <1>2, <1>6 DEF StartPoll, TypeOK, PollerTypeOK, Registered
<1> QED BY <1>2, <1>3, <1>4, <1>5, <1>6 DEF LoopStep

-----------------------------------------------------------------------------
(* The books and the round together are inductive, for any channels.       *)
THEOREM InductiveInvariant == Spec => []IInv
<1>1. Init => IInv
  <2> SUFFICES ASSUME Init
               PROVE  IInv
    OBVIOUS
  <2>1. DOMAIN channels_ = {} /\ DOMAIN interest = {}
    <3>1. channels_ = <<>> /\ interest = <<>>
      BY DEF Init, PollerInit
    <3> QED BY <3>1
  <2>2. /\ events_ = [c \in Channels |-> {}]
        /\ index_ = [c \in Channels |-> kNew]
        /\ activeChannels_ = {} /\ handling = NoChannel /\ phase = "functors"
    BY DEF Init, PollerInit
  <2>3. TypeOK
    BY <2>1, <2>2, PollerAssumption DEF TypeOK, PollerTypeOK, Range
  <2>4. BooksAgree
    BY <2>1, <2>2 DEF BooksAgree, IndexAgrees, FiledByFd, ListedAsWanted,
                      Registered, kNew, kAdded, kDeleted
  <2>5. RoundInv
    BY <2>2 DEF RoundInv, ActiveAreRegistered
  <2> QED BY <2>3, <2>4, <2>5 DEF IInv
<1>2. IInv /\ [Next]_vars => IInv'
  <2> SUFFICES ASSUME IInv, [Next]_vars
               PROVE  IInv'
    OBVIOUS
  <2>1. CASE Poll
    BY <2>1, PollKeepsInv
  <2>2. CASE LoopStep /\ UNCHANGED <<index_, interest>>
    BY <2>2, LoopKeepsInv
  <2>3. ASSUME NEW c \in Channels, UpdateChannel(c)
        PROVE  IInv'
    BY <2>3, UpdateKeepsBooks, UpdateKeepsRound DEF IInv
  <2>4. ASSUME NEW c \in Channels, RemoveChannel(c)
        PROVE  IInv'
    BY <2>4, RemoveKeepsBooks, RemoveKeepsRound DEF IInv
  <2>5. CASE UNCHANGED vars
    BY <2>5 DEF vars, pollerVars, IInv, TypeOK, PollerTypeOK, BooksAgree,
                IndexAgrees, FiledByFd, ListedAsWanted, Registered, RoundInv,
                ActiveAreRegistered
  <2> QED BY <2>1, <2>2, <2>3, <2>4, <2>5 DEF Next
<1> QED BY <1>1, <1>2, PTL DEF Spec

(* The poller keeps its types: index_ holds one of its three values, and   *)
(* the map and the kernel's list hold channels and descriptors that exist. *)
THEOREM TypeCorrect == Spec => []TypeOK
<1>1. IInv => TypeOK
  BY DEF IInv
<1> QED BY <1>1, InductiveInvariant, PTL

(* index_, channels_ and the kernel's list agree at all times, so that no  *)
(* assert of updateChannel or removeChannel fails.                         *)
THEOREM BooksCorrect == Spec => []IndexAgrees
<1>1. IInv => IndexAgrees
  BY DEF IInv, BooksAgree
<1> QED BY <1>1, InductiveInvariant, PTL

(* The kernel watches every registered channel for what it wants.          *)
THEOREM WatchedAsWanted == Spec => []WatchesWhatIsWanted
<1>1. IInv => WatchesWhatIsWanted
  <2> SUFFICES ASSUME IInv, NEW c \in Channels, Registered(c)
               PROVE  IF Fd[c] \in DOMAIN interest
                        THEN interest[Fd[c]] = <<c, events_[c]>>
                        ELSE events_[c] = {}
    BY DEF WatchesWhatIsWanted
  <2>1. CASE Fd[c] \in DOMAIN interest
    <3>1. /\ interest[Fd[c]] = <<interest[Fd[c]][1], interest[Fd[c]][2]>>
          /\ interest[Fd[c]][1] = c
          /\ index_[c] = kAdded
      BY <2>1, ListedAreRegistered DEF IInv, Registered
    <3>2. interest[Fd[c]][2] = events_[c]
      BY <3>1 DEF IInv, BooksAgree, ListedAsWanted
    <3> QED BY <2>1, <3>1, <3>2
  <2>2. CASE Fd[c] \notin DOMAIN interest
    <3>1. index_[c] = kDeleted
      BY <2>2 DEF IInv, TypeOK, BooksAgree, IndexAgrees
    <3> QED BY <2>2, <3>1 DEF IInv, BooksAgree, ListedAsWanted
  <2> QED BY <2>1, <2>2
<1> QED BY <1>1, InductiveInvariant, PTL

(* The kernel never holds a pointer to a removed channel.                  *)
THEOREM NothingDangles == Spec => []NoDanglingInterest
<1>1. IInv => NoDanglingInterest
  BY ListedAreRegistered DEF IInv, NoDanglingInterest
<1> QED BY <1>1, InductiveInvariant, PTL

(* No stale pointer is ever left among the active channels.                *)
THEOREM ActiveStayRegistered == Spec => []ActiveAreRegistered
<1>1. IInv => ActiveAreRegistered
  BY DEF IInv, RoundInv
<1> QED BY <1>1, InductiveInvariant, PTL
==============================================================================
