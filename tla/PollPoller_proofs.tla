-------------------------- MODULE PollPoller_proofs --------------------------
(***************************************************************************)
(* Theorems about PollPoller, for any number of channels and descriptors,  *)
(* and any assignment of descriptors to channels.                          *)
(***************************************************************************)
EXTENDS PollPoller, SequenceTheorems, FiniteSetTheorems, TLAPS

(* The map files a channel under its own descriptor, ...                   *)
FiledByFd ==
  /\ IsFiniteSet(DOMAIN channels_)
  /\ \A fd \in DOMAIN channels_ : Fd[channels_[fd]] = fd

(* ... a channel has an index while it is registered, and may keep one     *)
(* after that, ...                                                         *)
RegisteredHaveIndex == \A c \in Channels : Registered(c) => index_[c] >= 0

(* ... and each entry of the array is that of a registered channel, whose  *)
(* index says so: what removeChannel finds at the end of the array.        *)
Owner(i) == channels_[Unsigned(pollfds_[i].fd)]
EntriesBelong ==
  \A i \in DOMAIN pollfds_ :
    /\ Unsigned(pollfds_[i].fd) \in DOMAIN channels_
    /\ Position(Owner(i)) = i

BooksAgree == FiledByFd /\ RegisteredHaveIndex /\ EntriesBelong /\ IndexAgrees

(* Channels are active only while the loop handles them, and the one whose *)
(* handleEvent is running is no longer among them.                         *)
RoundInv ==
  /\ phase # "events" => activeChannels_ = {} /\ handling = NoChannel
  /\ handling \notin activeChannels_
  /\ ActiveAreRegistered

IInv == TypeOK /\ BooksAgree /\ RoundInv

-----------------------------------------------------------------------------
(* Entries are found by their descriptors in either form.                  *)
LEMMA FoundInEitherForm ==
  ASSUME NEW fd \in Nat
  PROVE  /\ fd \in Int /\ Ignored(fd) \in Int
         /\ Unsigned(fd) = fd /\ Unsigned(Ignored(fd)) = fd
BY DEF Ignored, Unsigned

(* The last element moves into the hole.                                   *)
Filled(s, i) == SubSeq([s EXCEPT ![i] = s[Len(s)]], 1, Len(s) - 1)

(* Filling the place that becomes free with the last entry moves no other. *)
LEMMA FillTheHole ==
  ASSUME NEW S, NEW s \in Seq(S), NEW i \in 1 .. Len(s)
  PROVE  /\ Filled(s, i) \in Seq(S)
         /\ Len(Filled(s, i)) = Len(s) - 1
         /\ \A j \in 1 .. Len(s) - 1 :
              Filled(s, i)[j] = IF j = i THEN s[Len(s)] ELSE s[j]
<1>. DEFINE n == Len(s)
            t == [s EXCEPT ![i] = s[n]]
<1>1. n \in Nat /\ DOMAIN s = 1 .. n
  BY LenProperties
<1>2. n \in 1 .. n
  BY <1>1
<1>3. \A j \in 1 .. n : s[j] \in S
  BY ElementOfSeq
<1>4. \A j \in 1 .. n : t[j] = (IF j = i THEN s[n] ELSE s[j])
  BY <1>1
<1>. HIDE DEF n, t
<1>5. \A j \in 1 .. n - 1 : t[j] \in S
  BY <1>1, <1>2, <1>3, <1>4
<1>6. /\ SubSeq(t, 1, n - 1) \in Seq(S)
      /\ Len(SubSeq(t, 1, n - 1)) = IF 1 <= n - 1 THEN n - 1 - 1 + 1 ELSE 0
      /\ \A j \in 1 .. (n - 1) - 1 + 1 : SubSeq(t, 1, n - 1)[j] = t[1 + j - 1]
  <2>1. 1 \in Int /\ n - 1 \in Int
    BY <1>1
  <2> QED BY <1>5, <2>1, SubSeqProperties
<1>7. Len(SubSeq(t, 1, n - 1)) = n - 1
  BY <1>1, <1>2, <1>6
<1>8. \A j \in 1 .. n - 1 : SubSeq(t, 1, n - 1)[j] = t[j]
  BY <1>1, <1>6
<1>9. \A j \in 1 .. n - 1 : j \in 1 .. n
  BY <1>1
<1> QED BY <1>4, <1>6, <1>7, <1>8, <1>9 DEF Filled, n, t

-----------------------------------------------------------------------------
(* What the two branches of updateChannel do.                              *)
Adding(c, ev) ==
  /\ index_[c] < 0 /\ ev # {}
  /\ pollfds_' = Append(pollfds_, [fd |-> Fd[c], events |-> ev])
  /\ index_' = [index_ EXCEPT ![c] = Len(pollfds_)]
  /\ channels_' = Put(channels_, Fd[c], c)

Changing(c, ev) ==
  /\ index_[c] >= 0 /\ Registered(c)
  /\ pollfds_' = [pollfds_ EXCEPT ![index_[c] + 1] =
                    [fd |-> IF ev = {} THEN Ignored(Fd[c]) ELSE @.fd, events |-> ev]]
  /\ UNCHANGED <<index_, channels_>>

(* updateChannel() adds an entry or changes one.                           *)
LEMMA UpdateCases ==
  ASSUME TypeOK, BooksAgree, NEW c \in Channels, UpdateChannel(c)
  PROVE  \E ev \in SUBSET Events :
           /\ MayUpdate(c)
           /\ events_' = [events_ EXCEPT ![c] = ev]
           /\ Adding(c, ev) \/ Changing(c, ev)
           /\ UNCHANGED <<activeChannels_, handling, phase>>
<1>1. NewEvents(c) \subseteq SUBSET Events
  BY DEF NewEvents, TypeOK, PollerTypeOK
<1>2. ASSUME index_[c] < 0, NEW ev \in NewEvents(c)
      PROVE  ev # {}
  <2>1. ~Registered(c)
    <3>1. index_[c] \in Int
      BY DEF TypeOK
    <3> QED BY <1>2, <3>1 DEF BooksAgree, RegisteredHaveIndex
  <2> QED BY <1>2, <2>1 DEF NewEvents
<1> QED BY <1>1, <1>2 DEF UpdateChannel, Adding, Changing

(* What the books say of the entry of a registered channel, and of the     *)
(* others.                                                                 *)
Entries == [fd : Int, events : SUBSET Events]

(* What the books say of every entry of the array: its owner is found      *)
(* through the map and points back at it.                                  *)
LEMMA BooksSay ==
  ASSUME TypeOK, BooksAgree
  PROVE  /\ pollfds_ \in Seq(Entries) /\ Len(pollfds_) \in Nat
         /\ DOMAIN pollfds_ = 1 .. Len(pollfds_)
         /\ \A i \in 1 .. Len(pollfds_) : pollfds_[i] \in Entries
         /\ Fd \in [Channels -> Nat]
         /\ \A fd \in DOMAIN channels_ : channels_[fd] \in Channels /\ Fd[channels_[fd]] = fd
         /\ \A i \in 1 .. Len(pollfds_) :
              LET d == Owner(i)
              IN  /\ Unsigned(pollfds_[i].fd) \in DOMAIN channels_
                  /\ d \in Channels /\ Registered(d) /\ Position(d) = i
                  /\ Unsigned(pollfds_[i].fd) = Fd[d]
<1>1. pollfds_ \in Seq(Entries)
  BY DEF TypeOK, Entries
<1>2. Fd \in [Channels -> Nat]
  BY PollerAssumption
<1>3. \A fd \in DOMAIN channels_ : channels_[fd] \in Channels /\ Fd[channels_[fd]] = fd
  BY DEF TypeOK, PollerTypeOK, BooksAgree, FiledByFd, Range
<1>4. DOMAIN pollfds_ = 1 .. Len(pollfds_) /\ Len(pollfds_) \in Nat
  BY <1>1, LenProperties
<1>5. \A i \in 1 .. Len(pollfds_) : pollfds_[i] \in Entries
  BY <1>1, ElementOfSeq
<1>6. ASSUME NEW i \in 1 .. Len(pollfds_)
      PROVE  LET d == Owner(i)
             IN  /\ Unsigned(pollfds_[i].fd) \in DOMAIN channels_
                 /\ d \in Channels /\ Registered(d) /\ Position(d) = i
                 /\ Unsigned(pollfds_[i].fd) = Fd[d]
  <2>1. Unsigned(pollfds_[i].fd) \in DOMAIN channels_ /\ Position(Owner(i)) = i
    BY <1>4 DEF BooksAgree, EntriesBelong
  <2> QED BY <1>3, <2>1 DEF Owner, Registered
<1> QED BY <1>1, <1>2, <1>3, <1>4, <1>5, <1>6

(* It is enough to know, of the state after a step, ...                    *)
LEMMA BooksFollow ==
  ASSUME TypeOK,
         events_' \in [Channels -> SUBSET Events],
         UNCHANGED <<activeChannels_, handling, phase>>,
         index_' \in [Channels -> Nat \cup {-1}],
         pollfds_' \in Seq(Entries),
         IsFiniteSet(DOMAIN channels_)',
         \A fd \in DOMAIN channels_' :
           channels_'[fd] \in Channels /\ Fd[channels_'[fd]] = fd,
         RegisteredHaveIndex', EntriesBelong', IndexAgrees'
  PROVE  TypeOK' /\ BooksAgree'
<1>1. Fd \in [Channels -> Nat]
  BY PollerAssumption
<1>2. \A fd \in DOMAIN channels_' : fd \in Range(Fd)
  BY <1>1 DEF Range
<1>3. PollerTypeOK'
  BY <1>2 DEF TypeOK, PollerTypeOK, Range
<1>4. TypeOK'
  BY <1>3 DEF TypeOK, Entries
<1>5. FiledByFd'
  BY DEF FiledByFd
<1> QED BY <1>4, <1>5 DEF BooksAgree

(* The books agree after every updateChannel ...                           *)
LEMMA AddingKeepsBooks ==
  ASSUME TypeOK, BooksAgree, NEW c \in Channels, NEW ev \in SUBSET Events,
         MayUpdate(c), Adding(c, ev),
         events_' = [events_ EXCEPT ![c] = ev],
         UNCHANGED <<activeChannels_, handling, phase>>
  PROVE  TypeOK' /\ BooksAgree'
<1>. DEFINE n == Len(pollfds_)
            e == [fd |-> Fd[c], events |-> ev]
<1>1. /\ n \in Nat /\ Fd[c] \in Nat /\ Fd[c] \in Int
      /\ e \in Entries
  BY BooksSay DEF Entries
<1>2. /\ events_' \in [Channels -> SUBSET Events]
      /\ events_'[c] = ev
      /\ \A d \in Channels : d # c => events_'[d] = events_[d]
  BY DEF TypeOK, PollerTypeOK
<1>3. Fd[c] \notin DOMAIN channels_
  <2>1. index_[c] \in Int
    BY DEF TypeOK
  <2>2. ~Registered(c)
    BY <2>1 DEF Adding, BooksAgree, RegisteredHaveIndex
  <2> QED BY <2>2 DEF MayUpdate
<1>4. /\ pollfds_' \in Seq(Entries)
      /\ Len(pollfds_') = n + 1
      /\ DOMAIN pollfds_' = 1 .. n + 1
      /\ \A i \in 1 .. n : pollfds_'[i] = pollfds_[i]
      /\ pollfds_'[n + 1] = e
  <2>1. pollfds_ \in Seq(Entries) /\ pollfds_' = Append(pollfds_, e)
    BY BooksSay DEF Adding
  <2>. HIDE DEF e
  <2>2. /\ pollfds_' \in Seq(Entries)
        /\ Len(pollfds_') = n + 1
        /\ \A i \in 1 .. n : pollfds_'[i] = pollfds_[i]
        /\ pollfds_'[n + 1] = e
    BY <1>1, <2>1, AppendProperties
  <2>3. DOMAIN pollfds_' = 1 .. Len(pollfds_')
    BY <2>2, LenProperties
  <2> QED BY <2>2, <2>3
<1>5. /\ index_' \in [Channels -> Nat \cup {-1}]
      /\ index_'[c] = n
      /\ \A d \in Channels : d # c => index_'[d] = index_[d]
  BY <1>1 DEF Adding, TypeOK
<1>6. /\ DOMAIN channels_' = DOMAIN channels_ \cup {Fd[c]}
      /\ channels_'[Fd[c]] = c
      /\ \A fd \in DOMAIN channels_ : channels_'[fd] = channels_[fd]
  BY <1>3 DEF Adding, Put
<1>7. /\ IsFiniteSet(DOMAIN channels_)'
      /\ Cardinality(DOMAIN channels_') = Cardinality(DOMAIN channels_) + 1
  BY <1>3, <1>6, FS_AddElement DEF BooksAgree, FiledByFd
<1>8. \A fd \in DOMAIN channels_' :
        channels_'[fd] \in Channels /\ Fd[channels_'[fd]] = fd
  BY <1>6, BooksSay
<1>9. Registered(c)' /\ \A d \in Channels : d # c => (Registered(d)' <=> Registered(d))
  BY <1>3, <1>6 DEF Registered
<1>10. RegisteredHaveIndex'
  BY <1>1, <1>5, <1>9 DEF BooksAgree, RegisteredHaveIndex
<1>11. Unsigned(Fd[c]) = Fd[c]
  BY <1>1, FoundInEitherForm
<1>12. EntriesBelong'
  <2> SUFFICES ASSUME NEW i \in 1 .. n + 1
               PROVE  /\ Unsigned(pollfds_'[i].fd) \in DOMAIN channels_'
                      /\ index_'[channels_'[Unsigned(pollfds_'[i].fd)]] + 1 = i
    BY <1>4 DEF EntriesBelong, Owner, Position
  <2>1. CASE i = n + 1
    <3>1. pollfds_'[i].fd = Fd[c]
      BY <1>4, <2>1
    <3> QED BY <1>5, <1>6, <1>11, <2>1, <3>1
  <2>2. CASE i \in 1 .. n
    <3>1. pollfds_'[i] = pollfds_[i]
      BY <1>4, <2>2
    <3>2. /\ Unsigned(pollfds_[i].fd) \in DOMAIN channels_
          /\ Owner(i) \in Channels /\ Registered(Owner(i)) /\ Position(Owner(i)) = i
      BY <2>2, BooksSay
    <3>3. Owner(i) # c
      BY <1>3, <3>2 DEF Registered
    <3> QED BY <1>5, <1>6, <3>1, <3>2, <3>3 DEF Owner, Position
  <2> QED BY <1>1, <2>1, <2>2
<1>13. IndexAgrees'
  <2>1. Len(pollfds_') = Cardinality(DOMAIN channels_')
    BY <1>4, <1>7 DEF BooksAgree, IndexAgrees
  <2>2. ASSUME NEW d \in Channels, Registered(d)'
        PROVE  /\ index_'[d] + 1 \in DOMAIN pollfds_'
               /\ Unsigned(pollfds_'[index_'[d] + 1].fd) = Fd[d]
               /\ pollfds_'[index_'[d] + 1].events = events_'[d]
               /\ events_'[d] = {} => pollfds_'[index_'[d] + 1].fd = Ignored(Fd[d])
    <3>1. CASE d = c
      <4>1. index_'[d] + 1 = n + 1 /\ n + 1 \in 1 .. n + 1
        BY <1>1, <1>5, <3>1
      <4> QED BY <1>2, <1>4, <1>11, <3>1, <4>1 DEF Adding
    <3>2. CASE d # c
      <4>1. Registered(d)
        BY <1>9, <2>2, <3>2
      <4>2. /\ Position(d) \in 1 .. n
            /\ Unsigned(pollfds_[Position(d)].fd) = Fd[d]
            /\ pollfds_[Position(d)].events = events_[d]
            /\ events_[d] = {} => pollfds_[Position(d)].fd = Ignored(Fd[d])
        BY <4>1, BooksSay DEF BooksAgree, IndexAgrees
      <4>3. index_'[d] + 1 = Position(d) /\ pollfds_'[Position(d)] = pollfds_[Position(d)]
        BY <1>4, <1>5, <3>2, <4>2 DEF Position
      <4>4. Position(d) \in 1 .. n + 1
        BY <1>1, <4>2
      <4> QED BY <1>2, <1>4, <3>2, <4>2, <4>3, <4>4
    <3> QED BY <3>1, <3>2
  <2> QED BY <2>1, <2>2 DEF IndexAgrees, Position
<1> QED BY <1>2, <1>4, <1>5, <1>7, <1>8, <1>10, <1>12, <1>13, BooksFollow

(* Changing an entry in place leaves every other channel's as it was.      *)
LEMMA ChangingKeepsBooks ==
  ASSUME TypeOK, BooksAgree, NEW c \in Channels, NEW ev \in SUBSET Events,
         Changing(c, ev),
         events_' = [events_ EXCEPT ![c] = ev],
         UNCHANGED <<activeChannels_, handling, phase>>
  PROVE  TypeOK' /\ BooksAgree'
<1>. DEFINE n == Len(pollfds_)
            k == Position(c)
            e == [fd |-> IF ev = {} THEN Ignored(Fd[c]) ELSE pollfds_[k].fd,
                  events |-> ev]
<1>1. index_' = index_ /\ channels_' = channels_
  BY DEF Changing
<1>2. /\ events_' \in [Channels -> SUBSET Events]
      /\ events_'[c] = ev
      /\ \A d \in Channels : d # c => events_'[d] = events_[d]
  BY DEF TypeOK, PollerTypeOK
<1>3. Registered(c)
  BY DEF Changing
<1>4. k \in 1 .. n /\ Unsigned(pollfds_[k].fd) = Fd[c] /\ n \in Nat
  BY <1>3, BooksSay DEF BooksAgree, IndexAgrees
<1>5. Fd[c] \in Nat /\ pollfds_[k].fd \in Int
  BY <1>4, BooksSay DEF Entries
<1>6. e \in Entries /\ Unsigned(e.fd) = Fd[c]
  BY <1>4, <1>5, FoundInEitherForm DEF Entries
<1>7. /\ pollfds_' \in Seq(Entries) /\ Len(pollfds_') = n /\ DOMAIN pollfds_' = 1 .. n
      /\ pollfds_'[k] = e
      /\ \A i \in 1 .. n : i # k => pollfds_'[i] = pollfds_[i]
  <2>1. pollfds_' = [pollfds_ EXCEPT ![k] = e]
    BY DEF Changing, Position
  <2>2. pollfds_ \in Seq(Entries) /\ DOMAIN pollfds_ = 1 .. n
    BY BooksSay
  <2>. HIDE DEF e, k
  <2>3. pollfds_' \in Seq(Entries) /\ Len(pollfds_') = n
    BY <1>4, <1>6, <2>1, <2>2, ExceptSeq
  <2> QED BY <1>4, <2>1, <2>2, <2>3, LenProperties
<1>8. \A i \in 1 .. n : Unsigned(pollfds_'[i].fd) = Unsigned(pollfds_[i].fd)
  <2>. HIDE DEF e, k
  <2> QED BY <1>4, <1>6, <1>7
<1>9. \A fd \in DOMAIN channels_' :
        channels_'[fd] \in Channels /\ Fd[channels_'[fd]] = fd
  BY <1>1, BooksSay
<1>10. \A d \in Channels : Registered(d)' <=> Registered(d)
  BY <1>1 DEF Registered
<1>11. RegisteredHaveIndex'
  BY <1>1, <1>10 DEF BooksAgree, RegisteredHaveIndex
<1>12. EntriesBelong'
  BY <1>1, <1>7, <1>8, BooksSay DEF EntriesBelong, Owner, Position
<1>13. IndexAgrees'
  <2>1. Len(pollfds_') = Cardinality(DOMAIN channels_')
    BY <1>1, <1>7 DEF BooksAgree, IndexAgrees
  <2>2. ASSUME NEW d \in Channels, Registered(d)
        PROVE  /\ Position(d) \in DOMAIN pollfds_'
               /\ Unsigned(pollfds_'[Position(d)].fd) = Fd[d]
               /\ pollfds_'[Position(d)].events = events_'[d]
               /\ events_'[d] = {} => pollfds_'[Position(d)].fd = Ignored(Fd[d])
    <3>1. /\ Position(d) \in 1 .. n
          /\ Unsigned(pollfds_[Position(d)].fd) = Fd[d]
          /\ pollfds_[Position(d)].events = events_[d]
          /\ events_[d] = {} => pollfds_[Position(d)].fd = Ignored(Fd[d])
      BY <2>2, BooksSay DEF BooksAgree, IndexAgrees
    <3>2. CASE d = c
      BY <1>2, <1>6, <1>7, <3>1, <3>2
    <3>3. CASE d # c
      <4>1. Position(d) # k
        <5>1. channels_[Fd[d]] = d /\ channels_[Fd[c]] = c
          BY <1>3, <2>2 DEF Registered
        <5>. HIDE DEF k
        <5> QED BY <1>4, <3>1, <3>3, <5>1
      <4>. HIDE DEF k, e
      <4> QED BY <1>2, <1>7, <3>1, <3>3, <4>1
    <3> QED BY <3>2, <3>3
  <2> QED BY <1>1, <1>10, <2>1, <2>2 DEF IndexAgrees, Position
<1>14. IsFiniteSet(DOMAIN channels_)'
  BY <1>1 DEF BooksAgree, FiledByFd
<1>15. index_' \in [Channels -> Nat \cup {-1}]
  BY <1>1 DEF TypeOK
<1> QED BY <1>2, <1>7, <1>9, <1>11, <1>12, <1>13, <1>14, <1>15, BooksFollow

(* updateChannel(), in either case.                                        *)
LEMMA UpdateKeepsBooks ==
  ASSUME TypeOK, BooksAgree, NEW c \in Channels, UpdateChannel(c)
  PROVE  TypeOK' /\ BooksAgree'
BY UpdateCases, AddingKeepsBooks, ChangingKeepsBooks

(* ... and after every removeChannel.                                      *)
LEMMA RemoveKeepsBooks ==
  ASSUME TypeOK, BooksAgree, NEW c \in Channels, RemoveChannel(c)
  PROVE  TypeOK' /\ BooksAgree'
<1>. DEFINE n == Len(pollfds_)
            k == Position(c)
            last == Owner(n)
<1>1. Registered(c) /\ c \in Channels
  BY DEF RemoveChannel, MayRemove
<1>2. /\ n \in Nat /\ k \in 1 .. n
      /\ Unsigned(pollfds_[k].fd) = Fd[c] /\ Owner(k) = c
  BY <1>1, BooksSay DEF BooksAgree, IndexAgrees, Owner, Registered
<1>3. /\ last \in Channels /\ Registered(last) /\ Position(last) = n
      /\ Unsigned(pollfds_[n].fd) = Fd[last]
  <2>1. n \in 1 .. n
    BY <1>2
  <2> QED BY <2>1, BooksSay
<1>4. k # n => last # c
  BY <1>3
<1>5. /\ events_' = events_
      /\ UNCHANGED <<activeChannels_, handling, phase>>
      /\ pollfds_' = Filled(pollfds_, k)
      /\ index_' = [index_ EXCEPT ![last] = index_[c]]
  BY DEF RemoveChannel, Filled, Owner, Position
<1>. HIDE DEF n, k, last
<1>6. /\ pollfds_' \in Seq(Entries) /\ Len(pollfds_') = n - 1
      /\ DOMAIN pollfds_' = 1 .. n - 1
      /\ \A j \in 1 .. n - 1 :
           pollfds_'[j] = IF j = k THEN pollfds_[n] ELSE pollfds_[j]
  <2>1. pollfds_ \in Seq(Entries) /\ k \in 1 .. Len(pollfds_)
    BY <1>2, BooksSay DEF n
  <2>2. /\ Filled(pollfds_, k) \in Seq(Entries)
        /\ Len(Filled(pollfds_, k)) = Len(pollfds_) - 1
        /\ \A j \in 1 .. Len(pollfds_) - 1 :
             Filled(pollfds_, k)[j] =
               IF j = k THEN pollfds_[Len(pollfds_)] ELSE pollfds_[j]
    BY <2>1, FillTheHole
  <2>3. pollfds_' \in Seq(Entries) /\ Len(pollfds_') = n - 1
    BY <1>5, <2>2 DEF n
  <2>4. DOMAIN pollfds_' = 1 .. n - 1
    BY <2>3, LenProperties
  <2> QED BY <1>5, <2>2, <2>3, <2>4 DEF n
<1>7. /\ index_' \in [Channels -> Nat \cup {-1}]
      /\ index_'[last] + 1 = k
      /\ \A d \in Channels : d # last => index_'[d] = index_[d]
  <2>1. index_ \in [Channels -> Nat \cup {-1}] /\ k = index_[c] + 1
    BY DEF TypeOK, k, Position
  <2> QED BY <1>1, <1>3, <1>5, <2>1
<1>8. /\ DOMAIN channels_' = DOMAIN channels_ \ {Fd[c]}
      /\ \A fd \in DOMAIN channels_' : channels_'[fd] = channels_[fd]
  BY DEF RemoveChannel, Restrict
<1>9. /\ IsFiniteSet(DOMAIN channels_)'
      /\ Cardinality(DOMAIN channels_') = Cardinality(DOMAIN channels_) - 1
  <2>1. Fd[c] \in DOMAIN channels_ /\ IsFiniteSet(DOMAIN channels_)
    BY <1>1 DEF Registered, BooksAgree, FiledByFd
  <2> QED BY <1>8, <2>1, FS_RemoveElement
<1>10. \A fd \in DOMAIN channels_' :
         channels_'[fd] \in Channels /\ Fd[channels_'[fd]] = fd
  BY <1>8, BooksSay
<1>11. ~Registered(c)' /\ \A d \in Channels : d # c => (Registered(d)' <=> Registered(d))
  BY <1>1, <1>8 DEF Registered
<1>12. RegisteredHaveIndex'
  <2> SUFFICES ASSUME NEW d \in Channels, Registered(d)'
               PROVE  index_'[d] >= 0
    BY DEF RegisteredHaveIndex
  <2>1. Registered(d)
    BY <1>11
  <2>2. CASE d = last
    <3>1. index_'[d] \in Nat \cup {-1} /\ index_'[d] + 1 = k
      BY <1>7, <2>2
    <3> QED BY <1>2, <3>1
  <2>3. CASE d # last
    BY <1>7, <2>1, <2>3 DEF BooksAgree, RegisteredHaveIndex
  <2> QED BY <2>2, <2>3
<1>13. EntriesBelong'
  <2> SUFFICES ASSUME NEW i \in 1 .. n - 1
               PROVE  /\ Unsigned(pollfds_'[i].fd) \in DOMAIN channels_'
                      /\ index_'[channels_'[Unsigned(pollfds_'[i].fd)]] + 1 = i
    BY <1>6 DEF EntriesBelong, Owner, Position
  <2>1. CASE i = k
    <3>1. last # c
      BY <1>2, <1>4, <2>1
    <3>2. Unsigned(pollfds_'[i].fd) = Fd[last]
      BY <1>3, <1>6, <2>1
    <3>3. Fd[last] \in DOMAIN channels_' /\ channels_'[Fd[last]] = last
      BY <1>1, <1>3, <1>8, <3>1 DEF Registered
    <3> QED BY <1>7, <2>1, <3>1, <3>2, <3>3
  <2>2. CASE i # k
    <3>1. i \in 1 .. n /\ i # n
      BY <1>2
    <3>2. /\ Unsigned(pollfds_[i].fd) = Fd[Owner(i)]
          /\ Owner(i) \in Channels /\ Registered(Owner(i)) /\ Position(Owner(i)) = i
      BY <3>1, BooksSay DEF n
    <3>3. Owner(i) # c /\ Owner(i) # last
      BY <1>3, <2>2, <3>1, <3>2 DEF k
    <3>4. Unsigned(pollfds_'[i].fd) = Fd[Owner(i)]
      BY <1>6, <2>2, <3>2
    <3>5. Fd[Owner(i)] \in DOMAIN channels_' /\ channels_'[Fd[Owner(i)]] = Owner(i)
      BY <1>1, <1>8, <3>2, <3>3 DEF Registered
    <3>6. index_'[Owner(i)] + 1 = i
      BY <1>7, <3>2, <3>3 DEF Position
    <3> QED BY <3>4, <3>5, <3>6
  <2> QED BY <2>1, <2>2
<1>14. IndexAgrees'
  <2>1. Len(pollfds_') = Cardinality(DOMAIN channels_')
    BY <1>6, <1>9 DEF BooksAgree, IndexAgrees, n
  <2>2. ASSUME NEW d \in Channels, Registered(d)'
        PROVE  /\ index_'[d] + 1 \in DOMAIN pollfds_'
               /\ Unsigned(pollfds_'[index_'[d] + 1].fd) = Fd[d]
               /\ pollfds_'[index_'[d] + 1].events = events_'[d]
               /\ events_'[d] = {} => pollfds_'[index_'[d] + 1].fd = Ignored(Fd[d])
    <3>1. d # c /\ Registered(d)
      BY <1>11, <2>2
    <3>2. /\ Position(d) \in 1 .. n
          /\ Unsigned(pollfds_[Position(d)].fd) = Fd[d]
          /\ pollfds_[Position(d)].events = events_[d]
          /\ events_[d] = {} => pollfds_[Position(d)].fd = Ignored(Fd[d])
      BY <3>1, BooksSay DEF BooksAgree, IndexAgrees, n
    <3>3. Owner(Position(d)) = d
      BY <3>1, <3>2 DEF Owner, Registered
    <3>4. CASE d = last
      <4>1. k # n
        BY <1>2, <3>1, <3>4 DEF last
      <4>2. k \in 1 .. n - 1
        BY <1>2, <4>1
      <4>3. index_'[d] + 1 = k /\ pollfds_'[k] = pollfds_[n] /\ Position(d) = n
        BY <1>3, <1>6, <1>7, <3>1, <3>4, <4>2
      <4> QED BY <1>5, <1>6, <3>2, <4>2, <4>3
    <3>5. CASE d # last
      <4>1. Position(d) # n /\ Position(d) # k
        BY <1>2, <3>1, <3>3, <3>5 DEF last
      <4>2. Position(d) \in 1 .. n - 1
        BY <1>2, <3>2, <4>1
      <4>3. index_'[d] + 1 = Position(d) /\ pollfds_'[Position(d)] = pollfds_[Position(d)]
        BY <1>6, <1>7, <3>1, <3>5, <4>1, <4>2 DEF Position
      <4> QED BY <1>5, <1>6, <3>2, <4>2, <4>3
    <3> QED BY <3>4, <3>5
  <2> QED BY <2>1, <2>2 DEF IndexAgrees, Position
<1>15. events_' \in [Channels -> SUBSET Events]
  BY <1>5 DEF TypeOK, PollerTypeOK
<1> QED BY <1>5, <1>6, <1>7, <1>9, <1>10, <1>12, <1>13, <1>14, <1>15, BooksFollow

(* A channel that is not in the map has no part in the books: the one      *)
(* constructed in its place may start from index -1.                       *)
LEMMA ConstructKeepsBooks ==
  ASSUME TypeOK, BooksAgree, NEW c \in Channels, Construct(c)
  PROVE  TypeOK' /\ BooksAgree'
<1>1. /\ UNCHANGED <<events_, channels_, activeChannels_, handling, phase, pollfds_>>
      /\ ~Registered(c)
      /\ index_' = [index_ EXCEPT ![c] = -1]
  BY DEF Construct, pollerVars
<1>2. /\ index_' \in [Channels -> Nat \cup {-1}]
      /\ \A d \in Channels : Registered(d) => index_'[d] = index_[d]
  BY <1>1 DEF TypeOK
<1>3. /\ \A d \in Channels : Registered(d)' <=> Registered(d)
      /\ \A d \in Channels : Registered(d) => Position(d)' = Position(d)
  BY <1>1, <1>2 DEF Registered, Position
<1>4. TypeOK'
  BY <1>1, <1>2 DEF TypeOK, PollerTypeOK
<1>5. FiledByFd'
  BY <1>1 DEF BooksAgree, FiledByFd
<1>6. RegisteredHaveIndex'
  BY <1>2, <1>3 DEF BooksAgree, RegisteredHaveIndex
<1>7. EntriesBelong'
  <2>1. \A i \in DOMAIN pollfds_ :
          /\ Unsigned(pollfds_[i].fd) \in DOMAIN channels_
          /\ Owner(i) \in Channels /\ Registered(Owner(i)) /\ Position(Owner(i)) = i
    BY BooksSay
  <2>2. \A i \in DOMAIN pollfds_ : index_'[Owner(i)] + 1 = i
    BY <1>2, <2>1 DEF Position
  <2> QED BY <1>1, <2>1, <2>2 DEF EntriesBelong, Owner, Position
<1>8. IndexAgrees'
  BY <1>1, <1>3 DEF BooksAgree, IndexAgrees
<1> QED BY <1>4, <1>5, <1>6, <1>7, <1>8 DEF BooksAgree

-----------------------------------------------------------------------------
(* A callback that updates a channel, or removes its own, leaves the       *)
(* active channels registered.                                             *)
LEMMA UpdateKeepsRound ==
  ASSUME IInv, NEW c \in Channels, UpdateChannel(c)
  PROVE  RoundInv'
<1>1. UNCHANGED <<activeChannels_, handling, phase>>
  BY DEF UpdateChannel
<1>2. \A d \in Channels : Registered(d) => Registered(d)'
  <2>1. CASE channels_' = channels_
    BY <2>1 DEF Registered
  <2>2. CASE channels_' = Put(channels_, Fd[c], c) /\ MayUpdate(c)
    BY <2>2 DEF MayUpdate, Registered, Put
  <2> QED BY <2>1, <2>2 DEF UpdateChannel
<1>3. activeChannels_ \subseteq Channels
  BY DEF IInv, TypeOK, PollerTypeOK
<1> QED BY <1>1, <1>2, <1>3 DEF IInv, RoundInv, ActiveAreRegistered

(* Removing a channel leaves the round of active channels sound.           *)
LEMMA RemoveKeepsRound ==
  ASSUME IInv, NEW c \in Channels, RemoveChannel(c)
  PROVE  RoundInv'
<1>1. UNCHANGED <<activeChannels_, handling, phase>>
  BY DEF RemoveChannel
<1>2. Registered(c) /\ c \notin activeChannels_
  BY DEF RemoveChannel, MayRemove, IInv, RoundInv
<1>3. \A d \in Channels : Registered(d) /\ d # c => Registered(d)'
  BY <1>2 DEF RemoveChannel, Registered, Restrict
<1>4. activeChannels_ \subseteq Channels
  BY DEF IInv, TypeOK, PollerTypeOK
<1> QED BY <1>1, <1>2, <1>3, <1>4 DEF IInv, RoundInv, ActiveAreRegistered

(* Constructing a channel leaves the round alone.                          *)
LEMMA ConstructKeepsRound ==
  ASSUME IInv, NEW c \in Channels, Construct(c)
  PROVE  RoundInv'
BY DEF Construct, pollerVars, IInv, RoundInv, ActiveAreRegistered, Registered

(* The books name no variable of the round.                                *)
LEMMA BooksKept ==
  ASSUME BooksAgree, UNCHANGED <<events_, channels_, index_, pollfds_>>
  PROVE  BooksAgree'
BY DEF BooksAgree, FiledByFd, RegisteredHaveIndex, EntriesBelong, IndexAgrees,
       Registered, Owner, Position

(* A descriptor poll(2) reports is not negative, and is in the map: the    *)
(* assert of fillActiveChannels.                                           *)
LEMMA ReportedAreRegistered ==
  ASSUME TypeOK, BooksAgree, NEW i \in DOMAIN pollfds_, pollfds_[i].fd >= 0
  PROVE  /\ channels_[pollfds_[i].fd] \in Channels
         /\ Registered(channels_[pollfds_[i].fd])
<1>1. /\ Unsigned(pollfds_[i].fd) \in DOMAIN channels_
      /\ Owner(i) \in Channels /\ Registered(Owner(i))
      /\ pollfds_[i].fd \in Int
  BY BooksSay DEF Entries
<1>2. Unsigned(pollfds_[i].fd) = pollfds_[i].fd
  BY <1>1 DEF Unsigned
<1> QED BY <1>1, <1>2 DEF Owner

(* fillActiveChannels() finds registered channels only.                    *)
LEMMA PollKeepsInv ==
  ASSUME IInv, Poll
  PROVE  IInv'
<1>1. /\ phase = "poll" /\ phase' = "events"
      /\ \A c \in activeChannels_' :
           \E i \in DOMAIN pollfds_ : pollfds_[i].fd >= 0 /\ c = channels_[pollfds_[i].fd]
      /\ UNCHANGED <<events_, channels_, handling, index_, pollfds_>>
  BY DEF Poll, PollReturns
<1>2. \A c \in activeChannels_' : c \in Channels /\ Registered(c)
  BY <1>1, ReportedAreRegistered DEF IInv
<1>3. handling' = NoChannel
  BY <1>1 DEF IInv, RoundInv
<1>4. TypeOK'
  BY <1>1, <1>2 DEF IInv, TypeOK, PollerTypeOK
<1>5. BooksAgree'
  BY <1>1, BooksKept DEF IInv
<1>6. RoundInv'
  BY <1>1, <1>2, <1>3, PollerAssumption
     DEF RoundInv, ActiveAreRegistered, Registered
<1> QED BY <1>4, <1>5, <1>6 DEF IInv

(* The loop's own steps take channels off the active list, one by one.     *)
LEMMA LoopKeepsInv ==
  ASSUME IInv, LoopStep, UNCHANGED <<index_, pollfds_>>
  PROVE  IInv'
<1>. USE DEF IInv, RoundInv, ActiveAreRegistered
<1>1. UNCHANGED <<events_, channels_>>
  BY DEF LoopStep, HandleEvent, HandleEventReturn, StartFunctors, StartPoll
<1>2. BooksAgree'
  BY <1>1, BooksKept
<1>3. ASSUME NEW c \in activeChannels_, HandleEvent(c)
      PROVE  TypeOK' /\ RoundInv'
  BY <1>1, <1>3 DEF HandleEvent, TypeOK, PollerTypeOK, Registered
<1>4. CASE HandleEventReturn
  BY <1>1, <1>2, <1>4, PollerAssumption
     DEF HandleEventReturn, TypeOK, PollerTypeOK, Registered
<1>5. CASE StartFunctors
  BY <1>1, <1>2, <1>5 DEF StartFunctors, TypeOK, PollerTypeOK, Registered
<1>6. CASE StartPoll
  BY <1>1, <1>2, <1>6 DEF StartPoll, TypeOK, PollerTypeOK, Registered
<1> QED BY <1>2, <1>3, <1>4, <1>5, <1>6 DEF LoopStep

-----------------------------------------------------------------------------
(* The books and the round together are inductive, for any channels.       *)
THEOREM InductiveInvariant == Spec => []IInv
<1>1. Init => IInv
  <2> SUFFICES ASSUME Init
               PROVE  IInv
    OBVIOUS
  <2>1. /\ channels_ = <<>> /\ pollfds_ = <<>>
        /\ events_ = [c \in Channels |-> {}]
        /\ index_ = [c \in Channels |-> -1]
        /\ activeChannels_ = {} /\ handling = NoChannel /\ phase = "functors"
    BY DEF Init, PollerInit
  <2>2. DOMAIN channels_ = {} /\ DOMAIN pollfds_ = {}
    BY <2>1
  <2>3. /\ Len(pollfds_) = 0 /\ pollfds_ \in Seq([fd : Int, events : SUBSET Events])
        /\ Cardinality(DOMAIN channels_) = 0 /\ IsFiniteSet(DOMAIN channels_)
    BY <2>1, <2>2, FS_EmptySet
  <2>4. TypeOK
    BY <2>1, <2>2, <2>3, PollerAssumption DEF TypeOK, PollerTypeOK, Range
  <2>5. BooksAgree
    BY <2>1, <2>2, <2>3 DEF BooksAgree, IndexAgrees, FiledByFd, RegisteredHaveIndex,
                            EntriesBelong, Registered
  <2>6. RoundInv
    BY <2>1 DEF RoundInv, ActiveAreRegistered
  <2> QED BY <2>4, <2>5, <2>6 DEF IInv
<1>2. IInv /\ [Next]_vars => IInv'
  <2> SUFFICES ASSUME IInv, [Next]_vars
               PROVE  IInv'
    OBVIOUS
  <2>1. CASE Poll
    BY <2>1, PollKeepsInv
  <2>2. CASE LoopStep /\ UNCHANGED <<index_, pollfds_>>
    BY <2>2, LoopKeepsInv
  <2>3. ASSUME NEW c \in Channels, UpdateChannel(c)
        PROVE  IInv'
    BY <2>3, UpdateKeepsBooks, UpdateKeepsRound DEF IInv
  <2>4. ASSUME NEW c \in Channels, RemoveChannel(c)
        PROVE  IInv'
    BY <2>4, RemoveKeepsBooks, RemoveKeepsRound DEF IInv
  <2>5. ASSUME NEW c \in Channels, Construct(c)
        PROVE  IInv'
    BY <2>5, ConstructKeepsBooks, ConstructKeepsRound DEF IInv
  <2>6. CASE UNCHANGED vars
    <3>1. UNCHANGED <<events_, channels_, index_, pollfds_, activeChannels_, handling, phase>>
      BY <2>6 DEF vars, pollerVars
    <3>2. BooksAgree'
      BY <3>1, BooksKept DEF IInv
    <3> QED BY <3>1, <3>2 DEF IInv, TypeOK, PollerTypeOK, RoundInv,
                              ActiveAreRegistered, Registered
  <2> QED BY <2>1, <2>2, <2>3, <2>4, <2>5, <2>6 DEF Next
<1> QED BY <1>1, <1>2, PTL DEF Spec

(* The poller keeps its types.                                             *)
THEOREM TypeCorrect == Spec => []TypeOK
<1>1. IInv => TypeOK
  BY DEF IInv
<1> QED BY <1>1, InductiveInvariant, PTL

(* Whatever is added, disabled, enabled and removed, and in whatever       *)
(* order, a registered channel's index_ is the position of its own entry,  *)
(* the entry stores the events the channel wants, and the array has no     *)
(* other entries.  The entry's descriptor may be negated although the      *)
(* channel wants events, and poll(2) ignores it then.                      *)
THEOREM PositionsCorrect == Spec => []IndexAgrees
<1>1. IInv => IndexAgrees
  BY DEF IInv, BooksAgree
<1> QED BY <1>1, InductiveInvariant, PTL

(* No stale pointer is ever left among the active channels.                *)
THEOREM ActiveStayRegistered == Spec => []ActiveAreRegistered
<1>1. IInv => ActiveAreRegistered
  BY DEF IInv, RoundInv
<1> QED BY <1>1, InductiveInvariant, PTL
==============================================================================
