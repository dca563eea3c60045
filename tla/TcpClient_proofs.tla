--------------------------- MODULE TcpClient_proofs ---------------------------
(***************************************************************************)
(* Theorems about TcpClient and the Connector it owns, for any number of   *)
(* threads, attempts and calls: one pursuit of one connection at a time,   *)
(* no failing assert, no descriptor left behind, a retry under way when    *)
(* one is due, and a stop() that holds.                                    *)
(***************************************************************************)
EXTENDS TcpClient, SequenceTheorems, FiniteSetTheorems, TLAPS

Ops == {"startInLoop", "resetChannel", "cancel", "connDestroyed"}
Functors == [op : Ops, arg : Sockets \cup {0}]

(* What the loop has still to run, in order.                               *)
Queue == functors \o pendingFunctors_
At(q, op) == {i \in DOMAIN q : q[i].op = op}
NoCancel(q) == \A i \in DOMAIN q : q[i].op = "cancel" => q[i].arg = NoTimer

Starts == At(Queue, "startInLoop")
Resets == At(Queue, "resetChannel")
CancelsNothing == NoCancel(Queue)
Starters == {t \in Threads : pc[t] = "start"}
Live == {fd \in Sockets : conns[fd] \in {"up", "shut"}}
Single(S) == \A x, y \in S : x = y

(* Until startInLoop runs for the first time the connector is untouched.   *)
Untouched ==
  /\ state_ = "kDisconnected" /\ channel_ = NoChannel /\ loopPc = "loop"
  /\ timers = {} /\ Live = {} /\ open = {} /\ Resets = {}

ConnectInv ==
  /\ connects = 0 => Starters = {} /\ Starts = {}
  /\ Single(Starters) /\ Single(Starts)
  /\ Starters # {} => Starts = {}
  /\ connects = 0 \/ Starters # {} \/ Starts # {} => Untouched

(* From then on the loop, a timer, the channel and the connection hand the *)
(* pursuit to each other, and each is done with the last socket.           *)
PursuitInv ==
  /\ loopPc # "loop" =>
       channel_ = NoChannel /\ timers = {} /\ Live = {} /\ open = {} /\ Resets = {}
  /\ loopPc = "start" => state_ = "kDisconnected"
  /\ timers # {} => ~Watching /\ Live = {} /\ open = {}
  /\ Single(timers)
  /\ Watching => Live = {} /\ state_ = "kConnecting" /\ channel_.fd = attempts
  /\ Live # {} => open = {} /\ state_ = "kConnected"
  /\ \A fd \in Live : connection_ = fd
  /\ channel_ # NoChannel => Watching \/ Resets # {}
  /\ open \subseteq {attempts}

(* Nothing left by an earlier stop() cancels the timer of a client that is *)
(* to connect.                                                             *)
Wanted == connects = 1 /\ ~overlap /\ clientConnect_
RetryInv ==
  /\ connects = 0 => timerId_ = NoTimer
  /\ connects = 0 \/ Wanted => CancelsNothing
  /\ Wanted => ~StopUnderWay
  /\ Wanted /\ connect_ /\ ~gaveUp /\ state_ = "kDisconnected" =>
       Starters # {} \/ Starts # {} \/ loopPc # "loop" \/ timers # {}

OneConnectInv == connects <= 1 => ~crashed /\ ConnectInv /\ PursuitInv /\ RetryInv

(* After a stop() that holds nothing sets the connector's flag again.      *)
StopInv ==
  /\ stopped => ~connect_ /\ ~clientConnect_ /\ NobodyStarts /\ loopPc # "restart"
  /\ ~overlap /\ clientConnect_ => \A t \in Threads : pc[t] # "stop"

IInv == TypeOK /\ OneConnectInv /\ StopInv

-----------------------------------------------------------------------------
(* The loop's queue.                                                       *)
LEMMA AppendOne ==
  ASSUME NEW S, NEW q \in Seq(S), NEW f \in S
  PROVE  /\ \A op : f.op # op => At(Append(q, f), op) = At(q, op)
         /\ \A op : f.op = op => At(Append(q, f), op) # {}
         /\ \A op : f.op = op /\ At(q, op) = {} => Single(At(Append(q, f), op))
         /\ NoCancel(q) /\ (f.op = "cancel" => f.arg = NoTimer) => NoCancel(Append(q, f))
<1>. DEFINE r == Append(q, f)
<1>1. /\ DOMAIN r = DOMAIN q \cup {Len(q) + 1}
      /\ Len(q) + 1 \notin DOMAIN q
      /\ r[Len(q) + 1] = f
      /\ \A i \in DOMAIN q : r[i] = q[i]
  BY AppendProperties
<1>. HIDE DEF r
<1>2. \A op : f.op # op => At(r, op) = At(q, op)
  BY <1>1 DEF At
<1>3. \A op : f.op = op => At(r, op) = At(q, op) \cup {Len(q) + 1}
  BY <1>1 DEF At
<1>4. NoCancel(q) /\ (f.op = "cancel" => f.arg = NoTimer) => NoCancel(r)
  BY <1>1 DEF NoCancel
<1> QED BY <1>2, <1>3, <1>4 DEF r, Single

(* Taking the first functor adds none of any kind, and removes one of its  *)
(* own kind only.                                                          *)
LEMMA TakeOne ==
  ASSUME NEW S, NEW q \in Seq(S), q # <<>>
  PROVE  /\ \A op : At(q, op) = {} => At(Tail(q), op) = {}
         /\ \A op : Single(At(q, op)) => Single(At(Tail(q), op))
         /\ \A op : Head(q).op # op /\ At(q, op) # {} => At(Tail(q), op) # {}
         /\ \A op : Head(q).op = op => At(q, op) # {}
         /\ \A op : Head(q).op = op /\ Single(At(q, op)) => At(Tail(q), op) = {}
         /\ NoCancel(q) => /\ NoCancel(Tail(q))
                           /\ Head(q).op = "cancel" => Head(q).arg = NoTimer
<1>. DEFINE f == Head(q)
            r == Tail(q)
<1>1. /\ r \in Seq(S) /\ f = q[1] /\ Len(r) = Len(q) - 1
      /\ \A i \in 1 .. Len(r) : r[i] = q[i + 1]
  BY HeadTailProperties
<1>2. DOMAIN q = 1 .. Len(q) /\ DOMAIN r = 1 .. Len(r) /\ Len(q) \in Nat \ {0}
  BY <1>1, LenProperties, EmptySeq
<1>. HIDE DEF f, r
<1>3. /\ 1 \in DOMAIN q /\ q[1] = f
      /\ \A i \in DOMAIN r : /\ i \in Int /\ i + 1 \in DOMAIN q /\ i + 1 # 1
                             /\ r[i] = q[i + 1]
      /\ \A i \in DOMAIN q : i = 1 \/ (i - 1 \in DOMAIN r /\ r[i - 1] = q[i])
  BY <1>1, <1>2
<1>4. ASSUME NEW op
      PROVE  /\ \A i \in At(r, op) : i \in Int /\ i + 1 \in At(q, op) /\ i + 1 # 1
             /\ \A i \in At(q, op) : i = 1 \/ i - 1 \in At(r, op)
             /\ f.op = op <=> 1 \in At(q, op)
  BY <1>3 DEF At
<1>5. ASSUME NEW op, Single(At(q, op))
      PROVE  Single(At(r, op)) /\ (f.op = op => At(r, op) = {})
  <2>1. \A i, j \in At(r, op) : i + 1 = j + 1 /\ i \in Int /\ j \in Int
    BY <1>4, <1>5 DEF Single
  <2>2. \A i, j \in At(r, op) : i = j
    BY <2>1
  <2> QED BY <1>4, <1>5, <2>2 DEF Single
<1>6. ASSUME NEW op
      PROVE  /\ At(q, op) = {} => At(r, op) = {}
             /\ f.op # op /\ At(q, op) # {} => At(r, op) # {}
             /\ f.op = op => At(q, op) # {}
  BY <1>4
<1>7. NoCancel(q) => NoCancel(r) /\ (f.op = "cancel" => f.arg = NoTimer)
  BY <1>3 DEF NoCancel
<1> QED BY <1>5, <1>6, <1>7 DEF f, r

(* Taking from the batch is taking from batch and queue together, ...      *)
LEMMA TailOfBoth ==
  ASSUME NEW S, NEW p \in Seq(S), NEW q \in Seq(S), p # <<>>
  PROVE  /\ p \o q \in Seq(S) /\ p \o q # <<>>
         /\ Head(p \o q) = Head(p)
         /\ Tail(p) \o q = Tail(p \o q)
<1>. DEFINE pq == p \o q
            t == Tail(p)
            x == t \o q
            y == Tail(pq)
<1>1. Len(p) \in Nat \ {0} /\ Len(q) \in Nat
  BY LenProperties, EmptySeq
<1>2. /\ pq \in Seq(S) /\ Len(pq) = Len(p) + Len(q)
      /\ \A i \in 1 .. Len(p) + Len(q) : pq[i] = IF i <= Len(p) THEN p[i] ELSE q[i - Len(p)]
  BY ConcatProperties
<1>3. /\ t \in Seq(S) /\ Len(t) = Len(p) - 1
      /\ \A i \in 1 .. Len(t) : t[i] = p[i + 1]
  BY HeadTailProperties
<1>. HIDE DEF pq, t
<1>4. pq # <<>>
  BY <1>1, <1>2
<1>5. /\ y \in Seq(S) /\ Len(y) = Len(pq) - 1
      /\ \A i \in 1 .. Len(y) : y[i] = pq[i + 1]
  BY <1>2, <1>4, HeadTailProperties
<1>6. /\ x \in Seq(S) /\ Len(x) = Len(t) + Len(q)
      /\ \A i \in 1 .. Len(t) + Len(q) : x[i] = IF i <= Len(t) THEN t[i] ELSE q[i - Len(t)]
  BY <1>3, ConcatProperties
<1>. HIDE DEF x, y
<1>7. ASSUME NEW i \in 1 .. Len(x)
      PROVE  x[i] = y[i]
  <2>1. i + 1 \in 1 .. Len(p) + Len(q) /\ i \in 1 .. Len(y) /\ i \in 1 .. Len(t) + Len(q)
    BY <1>1, <1>2, <1>3, <1>5, <1>6
  <2>2. CASE i <= Len(t)
    <3>1. i \in 1 .. Len(t) /\ i + 1 <= Len(p)
      BY <1>1, <1>3, <2>1, <2>2
    <3> QED BY <1>2, <1>3, <1>5, <1>6, <2>1, <2>2, <3>1
  <2>3. CASE i > Len(t)
    <3>1. ~(i <= Len(t)) /\ ~(i + 1 <= Len(p)) /\ (i + 1) - Len(p) = i - Len(t)
      BY <1>1, <1>3, <2>1, <2>3
    <3> QED BY <1>2, <1>5, <1>6, <2>1, <3>1
  <2> QED BY <1>1, <1>3, <2>2, <2>3
<1>8. Len(x) = Len(y)
  BY <1>1, <1>2, <1>3, <1>5, <1>6
<1>9. x = y
  BY <1>5, <1>6, <1>7, <1>8, SeqEqual
<1>10. Head(pq) = Head(p)
  <2>1. 1 \in 1 .. Len(p) + Len(q) /\ 1 <= Len(p)
    BY <1>1
  <2> QED BY <1>2, <2>1
<1> QED BY <1>2, <1>4, <1>9, <1>10 DEF pq, t, x, y

(* ... and so is appending to the queue.                                   *)
LEMMA EndOfBoth ==
  ASSUME NEW S, NEW p \in Seq(S), NEW q \in Seq(S), NEW f \in S
  PROVE  p \o Append(q, f) = Append(p \o q, f)
<1>. DEFINE e == <<f>>
<1>1. e \in Seq(S) /\ Append(q, f) = q \o e
  BY AppendIsConcat
<1>2. p \o q \in Seq(S)
  BY ConcatProperties
<1>3. Append(p \o q, f) = (p \o q) \o e
  BY <1>2, AppendIsConcat
<1>. HIDE DEF e
<1>4. (p \o q) \o e = p \o (q \o e)
  BY <1>1, ConcatAssociative
<1> QED BY <1>1, <1>3, <1>4

(* A functor of some kind is in one of the two or in the other.            *)
LEMMA EitherOrder ==
  ASSUME NEW S, NEW p \in Seq(S), NEW q \in Seq(S), NEW op
  PROVE  At(p \o q, op) = {} <=> At(p, op) = {} /\ At(q, op) = {}
<1>. DEFINE pq == p \o q
<1>1. /\ pq \in Seq(S) /\ Len(pq) = Len(p) + Len(q)
      /\ \A i \in 1 .. Len(p) + Len(q) : pq[i] = IF i <= Len(p) THEN p[i] ELSE q[i - Len(p)]
  BY ConcatProperties
<1>2. Len(p) \in Nat /\ Len(q) \in Nat
  BY LenProperties
<1>. HIDE DEF pq
<1>3. /\ DOMAIN pq = 1 .. Len(p) + Len(q)
      /\ DOMAIN p = 1 .. Len(p) /\ DOMAIN q = 1 .. Len(q)
  BY <1>1, LenProperties
<1>4. /\ \A i \in DOMAIN p : i \in DOMAIN pq /\ pq[i] = p[i]
      /\ \A i \in DOMAIN q : i + Len(p) \in DOMAIN pq /\ pq[i + Len(p)] = q[i]
      /\ \A i \in DOMAIN pq : \/ i \in DOMAIN p /\ pq[i] = p[i]
                              \/ i - Len(p) \in DOMAIN q /\ pq[i] = q[i - Len(p)]
  <2>1. ASSUME NEW i \in DOMAIN p
        PROVE  i \in DOMAIN pq /\ pq[i] = p[i]
    BY <1>1, <1>2, <1>3
  <2>2. ASSUME NEW i \in DOMAIN q
        PROVE  i + Len(p) \in DOMAIN pq /\ pq[i + Len(p)] = q[i]
    <3>1. /\ i + Len(p) \in 1 .. Len(p) + Len(q) /\ ~(i + Len(p) <= Len(p))
          /\ (i + Len(p)) - Len(p) = i
      BY <1>2, <1>3
    <3> QED BY <1>1, <1>3, <3>1
  <2>3. ASSUME NEW i \in DOMAIN pq
        PROVE  \/ i \in DOMAIN p /\ pq[i] = p[i]
               \/ i - Len(p) \in DOMAIN q /\ pq[i] = q[i - Len(p)]
    BY <1>1, <1>2, <1>3
  <2> QED BY <2>1, <2>2, <2>3
<1>5. At(pq, op) = {} <=> At(p, op) = {} /\ At(q, op) = {}
  BY <1>4 DEF At
<1> QED BY <1>5 DEF pq

(* The queue of functors, batch first, is a sequence of functors.          *)
LEMMA QueueType ==
  ASSUME TypeOK
  PROVE  functors \in Seq(Functors) /\ pendingFunctors_ \in Seq(Functors) /\ Queue \in Seq(Functors)
<1>1. functors \in Seq(Functors) /\ pendingFunctors_ \in Seq(Functors)
  BY DEF TypeOK, Functors, Ops
<1> QED BY <1>1, ConcatProperties DEF Queue

(* Waiting, in terms of the queue as a whole.                              *)
LEMMA WaitingIs ==
  ASSUME TypeOK
  PROVE  Waiting("resetChannel") <=> Resets # {}
<1>. DEFINE p == pendingFunctors_
            q == functors
<1>1. p \in Seq(Functors) /\ q \in Seq(Functors)
  BY QueueType
<1>. HIDE DEF p, q
<1>2. At(p \o q, "resetChannel") = {} <=> At(q \o p, "resetChannel") = {}
  BY <1>1, EitherOrder
<1>3. Waiting("resetChannel") <=> At(p \o q, "resetChannel") # {}
  BY DEF Waiting, Elements, At, p, q
<1> QED BY <1>2, <1>3 DEF Resets, Queue, p, q

(* What the queue says stays the same when nobody touches it, ...          *)
LEMMA SameQueue ==
  ASSUME UNCHANGED <<functors, pendingFunctors_>>
  PROVE  Starts' = Starts /\ Resets' = Resets /\ (CancelsNothing' <=> CancelsNothing)
BY DEF Starts, Resets, CancelsNothing, Queue

(* ... when the pending functors become the batch, ...                     *)
LEMMA BatchQueue ==
  ASSUME TypeOK, StartBatch
  PROVE  Starts' = Starts /\ Resets' = Resets /\ (CancelsNothing' <=> CancelsNothing)
<1>1. functors = <<>> /\ functors' = pendingFunctors_ /\ pendingFunctors_' = <<>>
  BY DEF StartBatch, HandlingEvents
<1>2. Queue' = Queue
  BY <1>1, QueueType, ConcatEmptySeq DEF Queue
<1> QED BY <1>2 DEF Starts, Resets, CancelsNothing

(* ... and changes by at most the functor pushed, ...                      *)
LEMMA PushedQueue ==
  ASSUME TypeOK, NEW f \in Functors, Push(f), UNCHANGED functors
  PROVE  /\ pendingFunctors_' \in Seq(Functors)
         /\ f.op # "startInLoop" => Starts' = Starts
         /\ f.op = "startInLoop" => Starts' # {} /\ (Starts = {} => Single(Starts'))
         /\ f.op # "resetChannel" => Resets' = Resets
         /\ f.op = "resetChannel" => Resets' # {}
         /\ CancelsNothing /\ (f.op = "cancel" => f.arg = NoTimer) => CancelsNothing'
<1>1. pendingFunctors_' = Append(pendingFunctors_, f) /\ functors' = functors
  BY DEF Push
<1>2. Queue' = Append(Queue, f) /\ Queue \in Seq(Functors)
  BY <1>1, QueueType, EndOfBoth DEF Queue
<1>3. pendingFunctors_' \in Seq(Functors)
  BY <1>1, QueueType, AppendProperties
<1>4. /\ Starts = At(Queue, "startInLoop") /\ Starts' = At(Queue', "startInLoop")
      /\ Resets = At(Queue, "resetChannel") /\ Resets' = At(Queue', "resetChannel")
      /\ CancelsNothing = NoCancel(Queue) /\ CancelsNothing' = NoCancel(Queue')
  BY DEF Starts, Resets, CancelsNothing
<1>. DEFINE q == Queue
            r == Append(q, f)
<1>5. /\ \A op : f.op # op => At(r, op) = At(q, op)
      /\ \A op : f.op = op => At(r, op) # {}
      /\ \A op : f.op = op /\ At(q, op) = {} => Single(At(r, op))
      /\ NoCancel(q) /\ (f.op = "cancel" => f.arg = NoTimer) => NoCancel(r)
  BY <1>2, AppendOne
<1>6. Queue' = r /\ Queue = q
  BY <1>2
<1>. HIDE DEF q, r
<1> QED BY <1>3, <1>4, <1>5, <1>6

(* ... or by the functor taken.                                            *)
LEMMA TakenQueue ==
  ASSUME TypeOK, functors # <<>>, functors' = Tail(functors), UNCHANGED pendingFunctors_
  PROVE  LET f == Head(functors)
         IN  /\ f \in Functors /\ functors' \in Seq(Functors)
             /\ Starts = {} => Starts' = {}
             /\ Single(Starts) => Single(Starts')
             /\ f.op # "startInLoop" /\ Starts # {} => Starts' # {}
             /\ f.op = "startInLoop" => Starts # {} /\ (Single(Starts) => Starts' = {})
             /\ f.op # "resetChannel" /\ Resets # {} => Resets' # {}
             /\ Resets = {} => Resets' = {}
             /\ CancelsNothing => CancelsNothing' /\ (f.op = "cancel" => f.arg = NoTimer)
<1>. DEFINE f == Head(functors)
<1>1. functors \in Seq(Functors) /\ pendingFunctors_ \in Seq(Functors)
  BY QueueType
<1>2. f \in Functors /\ functors' \in Seq(Functors)
  BY <1>1, HeadTailProperties
<1>3. Queue \in Seq(Functors) /\ Queue # <<>> /\ Head(Queue) = f /\ Queue' = Tail(Queue)
  <2>. DEFINE p == functors
              q == pendingFunctors_
  <2>1. /\ p \o q \in Seq(Functors) /\ p \o q # <<>>
        /\ Head(p \o q) = Head(p) /\ Tail(p) \o q = Tail(p \o q)
    BY <1>1, TailOfBoth
  <2> QED BY <2>1 DEF Queue
<1>4. /\ Starts = At(Queue, "startInLoop") /\ Starts' = At(Queue', "startInLoop")
      /\ Resets = At(Queue, "resetChannel") /\ Resets' = At(Queue', "resetChannel")
      /\ CancelsNothing = NoCancel(Queue) /\ CancelsNothing' = NoCancel(Queue')
  BY DEF Starts, Resets, CancelsNothing
<1>. DEFINE q == Queue
            r == Tail(q)
            h == Head(q)
<1>5. /\ \A op : At(q, op) = {} => At(r, op) = {}
      /\ \A op : Single(At(q, op)) => Single(At(r, op))
      /\ \A op : h.op # op /\ At(q, op) # {} => At(r, op) # {}
      /\ \A op : h.op = op => At(q, op) # {}
      /\ \A op : h.op = op /\ Single(At(q, op)) => At(r, op) = {}
      /\ NoCancel(q) => /\ NoCancel(r)
                        /\ h.op = "cancel" => h.arg = NoTimer
  BY <1>3, TakeOne
<1>6. Queue' = r /\ Queue = q /\ f = h
  BY <1>3
<1>. HIDE DEF q, r, h
<1> QED BY <1>2, <1>4, <1>5, <1>6

-----------------------------------------------------------------------------
(* Every member keeps its type.                                            *)
LEMMA RetryType ==
  ASSUME TypeOK, NEW fd \in Sockets, Retry(fd)
  PROVE  /\ state_' = "kDisconnected" /\ retryDelayMs_' \in kInitRetryDelayMs .. kMaxRetryDelayMs
         /\ timerId_' \in Sockets \cup {NoTimer} /\ timers' \subseteq Sockets
         /\ open' \subseteq Sockets
<1>1. /\ connect_ \in BOOLEAN /\ retryDelayMs_ \in kInitRetryDelayMs .. kMaxRetryDelayMs
      /\ timerId_ \in Sockets \cup {NoTimer} /\ timers \subseteq Sockets
      /\ open \subseteq Sockets
  BY DEF TypeOK, ConnectorTypeOK
<1>2. Doubled(retryDelayMs_) \in kInitRetryDelayMs .. kMaxRetryDelayMs
  BY <1>1, ConnectorAssumption DEF Doubled
<1> QED BY <1>1, <1>2 DEF Retry

(* connect() and both of its outcomes keep the types.                      *)
LEMMA ConnectType ==
  ASSUME TypeOK, Connect, UNCHANGED pendingFunctors_, UNCHANGED functors,
         loopPc' = "loop", UNCHANGED <<clientVars, userVars>>
  PROVE  TypeOK'
<1>1. ConnectorTypeOK
  BY DEF TypeOK
<1>. DEFINE fd == attempts + 1
<1>2. CASE /\ attempts < MaxAttempts
           /\ attempts' = fd
           /\ state_' = "kConnecting"
           /\ crashed' = (channel_ # NoChannel)
           /\ channel_' = [fd |-> fd, watched |-> TRUE]
           /\ open' = open \cup {fd}
           /\ UNCHANGED <<retryDelayMs_, timerId_, timers, gaveUp>>
  <2>1. fd \in Sockets /\ fd \in 0 .. MaxAttempts
    BY <1>1, <1>2, ConnectorAssumption DEF ConnectorTypeOK, Sockets
  <2>2. connect_' = connect_
    BY DEF Connect
  <2>. HIDE DEF fd
  <2>3. ConnectorTypeOK'
    BY <1>1, <1>2, <2>1, <2>2 DEF ConnectorTypeOK
  <2> QED BY <2>3 DEF TypeOK, clientVars, userVars
<1>3. CASE /\ attempts < MaxAttempts
           /\ attempts' = fd
           /\ Retry(fd)
           /\ UNCHANGED <<channel_, gaveUp, crashed>>
  <2>1. fd \in Sockets /\ fd \in 0 .. MaxAttempts
    BY <1>1, <1>3, ConnectorAssumption DEF ConnectorTypeOK, Sockets
  <2>2. connect_' = connect_
    BY DEF Connect
  <2>. HIDE DEF fd
  <2>3. ConnectorTypeOK'
    BY <1>1, <1>3, <2>1, <2>2, RetryType DEF ConnectorTypeOK
  <2> QED BY <2>3 DEF TypeOK, clientVars, userVars
<1>4. CASE /\ gaveUp' = TRUE
           /\ UNCHANGED <<state_, channel_, retryDelayMs_, timerId_, timers,
                          attempts, open, crashed>>
  <2>1. connect_' = connect_
    BY DEF Connect
  <2>3. ConnectorTypeOK'
    BY <1>1, <1>4, <2>1 DEF ConnectorTypeOK
  <2> QED BY <2>3 DEF TypeOK, clientVars, userVars
<1> QED BY <1>2, <1>3, <1>4 DEF Connect

(* A watched channel has a socket; disabling it leaves the same channel,   *)
(* unwatched.                                                              *)
LEMMA WatchedSocket ==
  ASSUME TypeOK, Watching
  PROVE  channel_.fd \in Sockets /\ [channel_ EXCEPT !.watched = FALSE] \in
           [fd : Sockets, watched : BOOLEAN] /\ channel_ # NoChannel
         /\ [channel_ EXCEPT !.watched = FALSE] # NoChannel
         /\ [channel_ EXCEPT !.watched = FALSE].watched = FALSE
<1>1. channel_ \in [fd : Sockets, watched : BOOLEAN] \cup {NoChannel} /\ channel_.watched
  BY DEF TypeOK, ConnectorTypeOK, Watching
<1>2. channel_ # NoChannel
  BY <1>1 DEF NoChannel
<1>3. channel_ \in [fd : Sockets, watched : BOOLEAN]
  BY <1>1, <1>2
<1>4. 0 \notin Sockets
  BY ConnectorAssumption DEF Sockets
<1> QED BY <1>2, <1>3, <1>4 DEF NoChannel

(* removeAndResetChannel() stops watching and leaves a resetChannel        *)
(* behind.                                                                 *)
LEMMA RemoveType ==
  ASSUME TypeOK, Watching, RemoveAndResetChannel, UNCHANGED functors
  PROVE  /\ channel_' \in [fd : Sockets, watched : BOOLEAN] \cup {NoChannel}
         /\ channel_' # NoChannel /\ ~Watching'
         /\ pendingFunctors_' \in Seq(Functors)
         /\ Starts' = Starts /\ Resets' # {} /\ (CancelsNothing => CancelsNothing')
<1>. DEFINE f == Functor("resetChannel", 0)
<1>1. f \in Functors /\ f.op = "resetChannel"
  BY DEF Functor, Functors, Ops
<1>2. Push(f) /\ channel_' = [channel_ EXCEPT !.watched = FALSE]
  BY DEF RemoveAndResetChannel
<1>. HIDE DEF f
<1>3. /\ pendingFunctors_' \in Seq(Functors)
      /\ Starts' = Starts /\ Resets' # {} /\ (CancelsNothing => CancelsNothing')
  BY <1>1, <1>2, PushedQueue
<1> QED BY <1>2, <1>3, WatchedSocket DEF Watching

(* The handlers of the channel and of the retry timer keep the types.      *)
LEMMA EventType ==
  ASSUME TypeOK,
         \/ HandleError \/ HandleSelfConnection \/ HandleLateError
         \/ \E id \in timers : TimerExpires(id),
         UNCHANGED <<clientVars, userVars>>
  PROVE  TypeOK'
<1>1. CASE HandleError \/ HandleSelfConnection \/ HandleLateError
  <2>1. /\ Watching /\ RemoveAndResetChannel
        /\ Retry(channel_.fd) \/ UNCHANGED <<state_, retryDelayMs_, timerId_, timers, open>>
        /\ UNCHANGED <<connect_, attempts, gaveUp, functors, loopPc, crashed>>
    BY <1>1 DEF HandleError, HandleSelfConnection, HandleLateError
  <2>2. channel_.fd \in Sockets
    BY <2>1, WatchedSocket
  <2>3. /\ state_' \in {"kDisconnected", "kConnecting", "kConnected"}
        /\ retryDelayMs_' \in kInitRetryDelayMs .. kMaxRetryDelayMs
        /\ timerId_' \in Sockets \cup {NoTimer} /\ timers' \subseteq Sockets
        /\ open' \subseteq Sockets
    <3>1. CASE Retry(channel_.fd)
      BY <2>2, <3>1, RetryType
    <3>2. CASE UNCHANGED <<state_, retryDelayMs_, timerId_, timers, open>>
      BY <3>2 DEF TypeOK, ConnectorTypeOK
    <3> QED BY <2>1, <3>1, <3>2
  <2>4. channel_' \in [fd : Sockets, watched : BOOLEAN] \cup {NoChannel}
        /\ pendingFunctors_' \in Seq(Functors)
    BY <2>1, RemoveType
  <2>5. ConnectorTypeOK'
    BY <2>1, <2>3, <2>4 DEF TypeOK, ConnectorTypeOK
  <2> QED BY <2>1, <2>4, <2>5 DEF TypeOK, clientVars, userVars, Functors, Ops
<1>2. ASSUME NEW id \in timers, TimerExpires(id)
      PROVE  TypeOK'
  BY <1>2 DEF TimerExpires, TypeOK, ConnectorTypeOK, clientVars, userVars
<1> QED BY <1>1, <1>2

(* The connection's coming and going keeps the types.                      *)
LEMMA ConnectionType ==
  ASSUME TypeOK, NewConnection \/ \E fd \in Sockets : PeerCloses(fd)
  PROVE  TypeOK'
<1>1. CASE NewConnection
  <2>1. /\ Watching /\ RemoveAndResetChannel /\ UNCHANGED functors
    BY <1>1 DEF NewConnection, HandleConnected
  <2>2. /\ channel_' \in [fd : Sockets, watched : BOOLEAN] \cup {NoChannel}
        /\ pendingFunctors_' \in Seq(Functors) /\ channel_.fd \in Sockets
    BY <2>1, RemoveType, WatchedSocket
  <2>3. ConnectorTypeOK'
    BY <1>1, <2>2 DEF NewConnection, HandleConnected, TypeOK, ConnectorTypeOK
  <2>4. /\ connection_' \in Sockets \cup {0}
        /\ conns' \in [Sockets -> {"none", "up", "shut", "closing", "down"}]
    BY <1>1, <2>2 DEF NewConnection, TypeOK
  <2> QED BY <1>1, <2>2, <2>3, <2>4
      DEF NewConnection, HandleConnected, TypeOK, userVars, Functors, Ops
<1>2. ASSUME NEW fd \in Sockets, PeerCloses(fd)
      PROVE  TypeOK'
  <2>. DEFINE f == Functor("connDestroyed", fd)
  <2>1. f \in Functors
    BY DEF Functor, Functors, Ops
  <2>2. Push(f) /\ UNCHANGED functors /\ UNCHANGED connectorVars
    BY <1>2 DEF PeerCloses, RemoveConnection
  <2>. HIDE DEF f
  <2>3. pendingFunctors_' \in Seq(Functors)
    BY <2>1, <2>2, PushedQueue
  <2>4. ConnectorTypeOK'
    BY <1>2, <2>2 DEF PeerCloses, RemoveConnection, TypeOK, ConnectorTypeOK, connectorVars
  <2> QED BY <1>2, <2>3, <2>4
      DEF PeerCloses, RemoveConnection, TypeOK, userVars, Functors, Ops
<1> QED BY <1>1, <1>2

(* Every functor keeps the types.                                          *)
LEMMA FunctorType ==
  ASSUME TypeOK, RunFunctor
  PROVE  TypeOK'
<1>. DEFINE f == Head(functors)
<1>1. functors # <<>> /\ functors' = Tail(functors) /\ UNCHANGED pendingFunctors_
      /\ UNCHANGED userVars
  BY DEF RunFunctor
<1>2. f \in Functors /\ functors' \in Seq(Functors) /\ pendingFunctors_' \in Seq(Functors)
  BY <1>1, TakenQueue, QueueType
<1>. HIDE DEF f
<1>3. \/ /\ loopPc' = "start"
         /\ UNCHANGED <<connectorVars, crashed, clientVars>>
      \/ /\ channel_' = NoChannel
         /\ UNCHANGED <<connect_, state_, retryDelayMs_, timerId_, timers,
                        attempts, open, gaveUp, loopPc, crashed, clientVars>>
      \/ /\ timers' = timers \ {f.arg}
         /\ UNCHANGED <<connect_, state_, channel_, retryDelayMs_, timerId_,
                        attempts, open, gaveUp, loopPc, crashed, clientVars>>
      \/ /\ conns' = [conns EXCEPT ![f.arg] = "down"]
         /\ UNCHANGED <<connectorVars, loopPc, crashed,
                        clientConnect_, retry_, connection_>>
  BY DEF RunFunctor, f
<1>4. ConnectorTypeOK'
  BY <1>3 DEF TypeOK, ConnectorTypeOK, connectorVars
<1>5. /\ clientConnect_' \in BOOLEAN /\ retry_' \in BOOLEAN /\ connection_' \in Sockets \cup {0}
      /\ conns' \in [Sockets -> {"none", "up", "shut", "closing", "down"}]
  BY <1>3 DEF TypeOK, clientVars
<1> QED BY <1>1, <1>2, <1>4, <1>5 DEF TypeOK, userVars, Functors, Ops

(* The functions the loop calls by itself keep the types.                  *)
LEMMA LoopType ==
  ASSUME TypeOK, StartInLoop \/ Restart \/ ConnectAgain \/ StartBatch,
         UNCHANGED <<clientVars, userVars>>
  PROVE  TypeOK'
<1>1. CASE StartInLoop
  <2>1. CASE Connect
    BY <1>1, <2>1, ConnectType DEF StartInLoop
  <2>2. CASE UNCHANGED connectorVars /\ crashed' = (state_ # "kDisconnected")
    BY <1>1, <2>2 DEF StartInLoop, TypeOK, ConnectorTypeOK, connectorVars, clientVars, userVars
  <2> QED BY <1>1, <2>1, <2>2 DEF StartInLoop
<1>2. CASE Restart
  BY <1>2, ConnectorAssumption
  DEF Restart, TypeOK, ConnectorTypeOK, clientVars, userVars
<1>3. CASE ConnectAgain
  BY <1>3, ConnectType DEF ConnectAgain
<1>4. CASE StartBatch
  <2>1. functors' \in Seq(Functors) /\ pendingFunctors_' \in Seq(Functors)
    BY <1>4, QueueType, EmptySeq DEF StartBatch
  <2>2. ConnectorTypeOK'
    BY <1>4 DEF StartBatch, TypeOK, ConnectorTypeOK, connectorVars
  <2> QED BY <2>1, <2>2 DEF TypeOK, clientVars, userVars, Functors, Ops
<1> QED BY <1>1, <1>2, <1>3, <1>4

(* Calls of users on the loop's thread keep the types.                     *)
LEMMA LoopUserType ==
  ASSUME TypeOK, LoopConnect \/ LoopStop \/ LoopDisconnect
  PROVE  TypeOK'
<1>1. CASE LoopConnect
  <2>1. ConnectorTypeOK'
    BY <1>1 DEF LoopConnect, TypeOK, ConnectorTypeOK
  <2>2. overlap' \in BOOLEAN /\ connects' \in 0 .. MaxConnects
    BY <1>1, ClientAssumption DEF LoopConnect, TypeOK, StopUnderWay
  <2> QED BY <1>1, <2>1, <2>2 DEF LoopConnect, TypeOK
<1>2. CASE LoopStop
  <2>1. stopped' \in BOOLEAN
    BY <1>2 DEF LoopStop, NobodyStarts
  <2>2. ConnectorTypeOK'
    BY <1>2 DEF LoopStop, TypeOK, ConnectorTypeOK
  <2>3. calls' \in 0 .. MaxCalls
    BY <1>2, ClientAssumption DEF LoopStop, TypeOK
  <2> QED BY <1>2, <2>1, <2>2, <2>3 DEF LoopStop, TypeOK
<1>3. CASE LoopDisconnect
  <2>1. conns' \in [Sockets -> {"none", "up", "shut", "closing", "down"}]
    BY <1>3 DEF LoopDisconnect, Shutdown, TypeOK
  <2>2. ConnectorTypeOK'
    BY <1>3 DEF LoopDisconnect, connectorVars, TypeOK, ConnectorTypeOK
  <2>3. calls' \in 0 .. MaxCalls
    BY <1>3, ClientAssumption DEF LoopDisconnect, TypeOK
  <2> QED BY <1>3, <2>1, <2>2, <2>3 DEF LoopDisconnect, TypeOK
<1> QED BY <1>1, <1>2, <1>3

(* Calls of users on other threads keep the types.                         *)
LEMMA ThreadType ==
  ASSUME TypeOK, NEW t \in Threads, ThreadStep(t)
  PROVE  TypeOK'
<1>1. CASE BeginConnect(t)
  <2>1. ConnectorTypeOK'
    BY <1>1 DEF BeginConnect, connectorVars, TypeOK, ConnectorTypeOK
  <2>2. overlap' \in BOOLEAN /\ connects' \in 0 .. MaxConnects
    BY <1>1, ClientAssumption DEF BeginConnect, TypeOK, StopUnderWay
  <2> QED BY <1>1, <2>1, <2>2 DEF BeginConnect, TypeOK
<1>2. CASE Start(t)
  <2>. DEFINE f == Functor("startInLoop", 0)
  <2>1. f \in Functors
    BY DEF Functor, Functors, Ops
  <2>2. Push(f) /\ UNCHANGED functors
    BY <1>2 DEF Start
  <2>. HIDE DEF f
  <2>3. pendingFunctors_' \in Seq(Functors)
    BY <2>1, <2>2, PushedQueue
  <2>4. ConnectorTypeOK'
    BY <1>2 DEF Start, TypeOK, ConnectorTypeOK
  <2> QED BY <1>2, <2>3, <2>4 DEF Start, TypeOK, clientVars, Functors, Ops
<1>3. CASE BeginCall(t)
  <2>1. ConnectorTypeOK'
    BY <1>3 DEF BeginCall, connectorVars, TypeOK, ConnectorTypeOK
  <2>2. calls' \in 0 .. MaxCalls
    BY <1>3, ClientAssumption DEF BeginCall, TypeOK
  <2> QED BY <1>3, <2>1, <2>2 DEF BeginCall, TypeOK
<1>4. CASE Stop(t)
  <2>1. ConnectorTypeOK'
    BY <1>4 DEF Stop, TypeOK, ConnectorTypeOK
  <2>2. stopped' \in BOOLEAN
    BY <1>4 DEF Stop, NobodyStarts
  <2> QED BY <1>4, <2>1, <2>2 DEF Stop, TypeOK, clientVars
<1>5. CASE Cancel(t)
  <2>. DEFINE f == Functor("cancel", timerId_)
  <2>1. f \in Functors
    BY DEF Functor, Functors, Ops, TypeOK, ConnectorTypeOK, NoTimer
  <2>2. Push(f) /\ UNCHANGED functors
    BY <1>5 DEF Cancel
  <2>. HIDE DEF f
  <2>3. pendingFunctors_' \in Seq(Functors)
    BY <2>1, <2>2, PushedQueue
  <2>4. ConnectorTypeOK'
    BY <1>5 DEF Cancel, connectorVars, TypeOK, ConnectorTypeOK
  <2> QED BY <1>5, <2>3, <2>4 DEF Cancel, TypeOK, clientVars, Functors, Ops
<1>6. CASE Disconnect(t)
  <2>1. conns' \in [Sockets -> {"none", "up", "shut", "closing", "down"}]
    BY <1>6 DEF Disconnect, Shutdown, TypeOK
  <2>2. ConnectorTypeOK'
    BY <1>6 DEF Disconnect, connectorVars, TypeOK, ConnectorTypeOK
  <2> QED BY <1>6, <2>1, <2>2 DEF Disconnect, TypeOK
<1> QED BY <1>1, <1>2, <1>3, <1>4, <1>5, <1>6 DEF ThreadStep

(* The type invariant is inductive by itself.                              *)
LEMMA TypeStep ==
  ASSUME TypeOK, [Next]_vars
  PROVE  TypeOK'
<1>1. CASE Proceed
  BY <1>1, FunctorType, LoopType DEF Proceed
<1>2. CASE ConnectorEvent
  BY <1>2, EventType DEF ConnectorEvent
<1>3. CASE NewConnection \/ \E fd \in Sockets : PeerCloses(fd)
  BY <1>3, ConnectionType
<1>4. CASE LoopConnect \/ LoopStop \/ LoopDisconnect
  BY <1>4, LoopUserType
<1>5. ASSUME NEW t \in Threads, ThreadStep(t)
      PROVE  TypeOK'
  BY <1>5, ThreadType
<1>6. CASE UNCHANGED vars
  BY <1>6 DEF vars, connectorVars, clientVars, userVars, TypeOK, ConnectorTypeOK
<1> QED BY <1>1, <1>2, <1>3, <1>4, <1>5, <1>6 DEF Next

-----------------------------------------------------------------------------
(* stop().                                                                 *)
LEMMA StopStep ==
  ASSUME TypeOK, StopInv, [Next]_vars
  PROVE  StopInv'
<1>1. CASE RunFunctor
  BY <1>1 DEF RunFunctor, StopInv, NobodyStarts, userVars, clientVars, connectorVars
<1>2. CASE /\ StartInLoop \/ Restart \/ ConnectAgain \/ StartBatch
           /\ UNCHANGED <<clientVars, userVars>>
  <2>1. \/ connect_' = connect_ /\ loopPc' # "restart"
        \/ connect_' = connect_ /\ loopPc' = loopPc
        \/ loopPc = "restart" /\ loopPc' = "start"
    BY <1>2 DEF StartInLoop, Restart, ConnectAgain, StartBatch, Connect, connectorVars
  <2> QED BY <1>2, <2>1 DEF StopInv, NobodyStarts, userVars, clientVars
<1>3. CASE ConnectorEvent
  BY <1>3 DEF ConnectorEvent, HandleError, HandleSelfConnection, HandleLateError,
              TimerExpires, StopInv, NobodyStarts, userVars, clientVars
<1>4. CASE NewConnection
  BY <1>4 DEF NewConnection, HandleConnected, StopInv, NobodyStarts, userVars
<1>5. ASSUME NEW fd \in Sockets, PeerCloses(fd)
      PROVE  StopInv'
  BY <1>5 DEF PeerCloses, RemoveConnection, StopInv, NobodyStarts, userVars, connectorVars
<1>6. CASE LoopConnect
  BY <1>6 DEF LoopConnect, StopInv, NobodyStarts, StopUnderWay
<1>7. CASE LoopStop
  BY <1>7 DEF LoopStop, StopInv, NobodyStarts
<1>8. CASE LoopDisconnect
  BY <1>8 DEF LoopDisconnect, StopInv, NobodyStarts, connectorVars
<1>9. ASSUME NEW t \in Threads, ThreadStep(t)
      PROVE  StopInv'
  <2>1. pc \in [Threads -> {"idle", "start", "stop", "cancel", "shutdown"}]
    BY DEF TypeOK
  <2>2. CASE BeginConnect(t)
    BY <2>1, <2>2 DEF BeginConnect, StopInv, NobodyStarts, StopUnderWay
  <2>3. CASE Start(t)
    BY <2>1, <2>3 DEF Start, StopInv, NobodyStarts, clientVars
  <2>4. CASE BeginCall(t)
    BY <2>1, <2>4 DEF BeginCall, StopInv, NobodyStarts, connectorVars
  <2>5. CASE Stop(t)
    BY <2>1, <2>5 DEF Stop, StopInv, NobodyStarts, clientVars
  <2>6. CASE Cancel(t)
    BY <2>1, <2>6 DEF Cancel, StopInv, NobodyStarts, clientVars, connectorVars
  <2>7. CASE Disconnect(t)
    BY <2>1, <2>7 DEF Disconnect, StopInv, NobodyStarts, connectorVars
  <2> QED BY <1>9, <2>2, <2>3, <2>4, <2>5, <2>6, <2>7 DEF ThreadStep
<1>10. CASE UNCHANGED vars
  BY <1>10 DEF vars, connectorVars, clientVars, userVars, StopInv, NobodyStarts
<1> QED BY <1>1, <1>2, <1>3, <1>4, <1>5, <1>6, <1>7, <1>8, <1>9, <1>10
    DEF Next, Proceed

-----------------------------------------------------------------------------
(* The client that calls connect() once.                                   *)
Core == ~crashed /\ ConnectInv /\ PursuitInv /\ RetryInv

(* What is known of the users' calls depends on their program counters     *)
(* only.                                                                   *)
LEMMA SameUsers ==
  ASSUME UNCHANGED pc
  PROVE  Starters' = Starters /\ (StopUnderWay' <=> StopUnderWay)
BY DEF Starters, StopUnderWay

(* The pursuit through a functor.                                          *)
LEMMA FunctorStep ==
  ASSUME TypeOK, Core, RunFunctor
  PROVE  Core'
<1>. DEFINE f == Head(functors)
<1>1. /\ loopPc = "loop"
      /\ functors # <<>> /\ functors' = Tail(functors) /\ UNCHANGED pendingFunctors_
      /\ UNCHANGED userVars
  BY DEF RunFunctor
<1>2. /\ f \in Functors
      /\ Starts = {} => Starts' = {}
      /\ Single(Starts) => Single(Starts')
      /\ f.op # "startInLoop" /\ Starts # {} => Starts' # {}
      /\ f.op = "startInLoop" => Starts # {} /\ (Single(Starts) => Starts' = {})
      /\ f.op # "resetChannel" /\ Resets # {} => Resets' # {}
      /\ Resets = {} => Resets' = {}
      /\ CancelsNothing => CancelsNothing' /\ (f.op = "cancel" => f.arg = NoTimer)
  BY <1>1, TakenQueue
<1>. HIDE DEF f
<1>3. \/ /\ f.op = "startInLoop"
         /\ loopPc' = "start"
         /\ UNCHANGED <<connectorVars, pendingFunctors_, crashed, clientVars>>
      \/ /\ f.op = "resetChannel"
         /\ channel_' = NoChannel
         /\ UNCHANGED <<connect_, state_, retryDelayMs_, timerId_, timers,
                        attempts, open, gaveUp, pendingFunctors_, loopPc,
                        crashed, clientVars>>
      \/ /\ f.op = "cancel"
         /\ timers' = timers \ {f.arg}
         /\ UNCHANGED <<connect_, state_, channel_, retryDelayMs_, timerId_,
                        attempts, open, gaveUp, pendingFunctors_, loopPc,
                        crashed, clientVars>>
      \/ /\ f.op = "connDestroyed"
         /\ conns' = [conns EXCEPT ![f.arg] = "down"]
         /\ UNCHANGED <<connectorVars, pendingFunctors_, loopPc, crashed,
                        clientConnect_, retry_, connection_>>
  BY DEF RunFunctor, f
<1>4. /\ Starters' = Starters /\ (StopUnderWay' <=> StopUnderWay)
      /\ UNCHANGED <<connects, overlap, clientConnect_>>
  BY <1>1, <1>3, SameUsers DEF userVars, clientVars
<1>5. Live' \subseteq Live /\ (f.op # "connDestroyed" => Live' = Live)
  BY <1>3 DEF Live, clientVars, TypeOK
<1>6. ConnectInv'
  BY <1>1, <1>2, <1>3, <1>4, <1>5
  DEF Core, ConnectInv, Untouched, connectorVars
<1>7. PursuitInv'
  <2>1. CASE f.op = "startInLoop"
    BY <1>1, <1>2, <1>3, <1>5, <2>1
    DEF Core, ConnectInv, Untouched, PursuitInv, connectorVars, clientVars, Watching, NoChannel
  <2>2. CASE f.op = "resetChannel"
    BY <1>1, <1>2, <1>3, <1>5, <2>2
    DEF Core, PursuitInv, connectorVars, clientVars, Watching, NoChannel
  <2>3. CASE f.op = "cancel"
    BY <1>1, <1>2, <1>3, <1>5, <2>3
    DEF Core, PursuitInv, connectorVars, clientVars, Watching, NoChannel, Single
  <2>4. CASE f.op = "connDestroyed"
    BY <1>1, <1>2, <1>3, <1>5, <2>4
    DEF Core, PursuitInv, connectorVars, clientVars, Watching, NoChannel
  <2> QED BY <1>3, <2>1, <2>2, <2>3, <2>4
<1>8. RetryInv'
  <2>1. Wanted' <=> Wanted
    BY <1>4 DEF Wanted
  <2>2. Wanted /\ f.op = "cancel" => timers' = timers
    <3>1. NoTimer \notin timers
      BY ConnectorAssumption DEF TypeOK, ConnectorTypeOK, NoTimer, Sockets
    <3> QED BY <1>2, <1>3, <3>1 DEF Core, RetryInv
  <2> QED BY <1>1, <1>2, <1>3, <1>4, <2>1, <2>2 DEF Core, RetryInv, connectorVars
<1>9. ~crashed'
  BY <1>3 DEF Core
<1> QED BY <1>6, <1>7, <1>8, <1>9 DEF Core

(* connect(): there is no channel and no socket but the new one.           *)
LEMMA ConnectStep ==
  ASSUME TypeOK, Core, Connect, loopPc # "loop", loopPc' = "loop",
         state_ = "kDisconnected" \/ loopPc = "connect",
         UNCHANGED <<pendingFunctors_, functors, clientVars, userVars>>
  PROVE  Core'
<1>1. /\ Starts' = Starts /\ Resets' = Resets /\ (CancelsNothing' <=> CancelsNothing)
      /\ Starters' = Starters /\ (StopUnderWay' <=> StopUnderWay) /\ Live' = Live
      /\ UNCHANGED <<connects, overlap, clientConnect_, connection_, connect_>>
  BY SameQueue, SameUsers DEF clientVars, userVars, Live, Connect
<1>2. /\ channel_ = NoChannel /\ timers = {} /\ Live = {} /\ open = {} /\ Resets = {}
      /\ connects # 0 /\ Starters = {} /\ Starts = {} /\ ~Watching
  BY DEF Core, PursuitInv, ConnectInv, Untouched, Watching, NoChannel
<1>3. ConnectInv'
  BY <1>1, <1>2 DEF Core, ConnectInv
<1>4. attempts \in Nat
  BY DEF TypeOK, ConnectorTypeOK
<1>. DEFINE fd == attempts + 1
<1>5. CASE /\ attempts < MaxAttempts
           /\ attempts' = fd
           /\ state_' = "kConnecting"
           /\ crashed' = (channel_ # NoChannel)
           /\ channel_' = [fd |-> fd, watched |-> TRUE]
           /\ open' = open \cup {fd}
           /\ UNCHANGED <<retryDelayMs_, timerId_, timers, gaveUp>>
  <2>. HIDE DEF fd
  <2>1. PursuitInv'
    BY <1>1, <1>2, <1>5 DEF Core, PursuitInv, Watching
  <2>2. RetryInv'
    BY <1>1, <1>2, <1>5 DEF Core, RetryInv, Wanted
  <2> QED BY <1>2, <1>3, <1>5, <2>1, <2>2 DEF Core
<1>6. CASE /\ attempts < MaxAttempts
           /\ attempts' = fd
           /\ Retry(fd)
           /\ UNCHANGED <<channel_, gaveUp, crashed>>
  <2>. HIDE DEF fd
  <2>1. /\ open' = {} /\ state_' = "kDisconnected"
        /\ timers' = IF connect_ THEN {fd} ELSE {}
    BY <1>2, <1>6 DEF Retry
  <2>2. PursuitInv'
    BY <1>1, <1>2, <1>6, <2>1 DEF Core, PursuitInv, Watching, Single, NoChannel
  <2>3. RetryInv'
    BY <1>1, <1>2, <1>6, <2>1 DEF Core, RetryInv, Wanted
  <2> QED BY <1>3, <1>6, <2>2, <2>3 DEF Core
<1>7. CASE /\ gaveUp' = TRUE
           /\ UNCHANGED <<state_, channel_, retryDelayMs_, timerId_, timers,
                          attempts, open, crashed>>
  <2>1. PursuitInv'
    BY <1>1, <1>2, <1>7 DEF Core, PursuitInv, Watching, Single, NoChannel
  <2>2. RetryInv'
    BY <1>1, <1>2, <1>7 DEF Core, RetryInv, Wanted
  <2> QED BY <1>3, <1>7, <2>1, <2>2 DEF Core
<1> QED BY <1>5, <1>6, <1>7 DEF Connect

(* The pursuit through start, restart and connect on the loop.             *)
LEMMA LoopStep ==
  ASSUME TypeOK, Core, StartInLoop \/ Restart \/ ConnectAgain \/ StartBatch,
         UNCHANGED <<clientVars, userVars>>
  PROVE  Core'
<1>1. /\ Starters' = Starters /\ (StopUnderWay' <=> StopUnderWay) /\ Live' = Live
      /\ UNCHANGED <<connects, overlap, clientConnect_, connection_>>
      /\ (Wanted' <=> Wanted)
  BY SameUsers DEF clientVars, userVars, Live, Wanted
<1>2. CASE StartInLoop
  <2>1. state_ = "kDisconnected"
    BY <1>2 DEF StartInLoop, Core, PursuitInv
  <2>2. CASE connect_ /\ Connect
    BY <1>2, <2>1, <2>2, ConnectStep DEF StartInLoop
  <2>3. CASE ~connect_ /\ UNCHANGED connectorVars /\ ~crashed'
    <3>1. Starts' = Starts /\ Resets' = Resets /\ (CancelsNothing' <=> CancelsNothing)
      BY <1>2, SameQueue DEF StartInLoop
    <3>2. loopPc = "start" /\ loopPc' = "loop" /\ connects # 0 /\ Starters = {} /\ Starts = {}
      BY <1>2 DEF StartInLoop, Core, ConnectInv, Untouched
    <3>3. ConnectInv'
      BY <1>1, <3>1, <3>2 DEF Core, ConnectInv
    <3>4. PursuitInv'
      BY <1>1, <2>3, <3>1, <3>2 DEF Core, PursuitInv, Watching, connectorVars
    <3>5. RetryInv'
      BY <1>1, <2>3, <3>1, <3>2 DEF Core, RetryInv, connectorVars
    <3> QED BY <2>3, <3>3, <3>4, <3>5 DEF Core
  <2> QED BY <1>2, <2>1, <2>2, <2>3 DEF StartInLoop
<1>3. CASE Restart
  <2>1. Starts' = Starts /\ Resets' = Resets /\ (CancelsNothing' <=> CancelsNothing)
    BY <1>3, SameQueue DEF Restart
  <2>2. /\ loopPc = "restart" /\ loopPc' = "start" /\ connects # 0
        /\ Starters = {} /\ Starts = {}
    BY <1>3 DEF Restart, Core, ConnectInv, Untouched
  <2>3. ConnectInv'
    BY <1>1, <2>1, <2>2 DEF Core, ConnectInv
  <2>4. PursuitInv'
    BY <1>1, <1>3, <2>1, <2>2 DEF Core, PursuitInv, Watching, Restart, NoChannel
  <2>5. RetryInv'
    BY <1>1, <1>3, <2>1, <2>2 DEF Core, RetryInv, Restart
  <2> QED BY <1>3, <2>3, <2>4, <2>5 DEF Core, Restart
<1>4. CASE ConnectAgain
  BY <1>4, ConnectStep DEF ConnectAgain
<1>5. CASE StartBatch
  <2>1. Starts' = Starts /\ Resets' = Resets /\ (CancelsNothing' <=> CancelsNothing)
    BY <1>5, BatchQueue
  <2>2. ConnectInv'
    BY <1>1, <1>5, <2>1 DEF Core, ConnectInv, Untouched, StartBatch, connectorVars
  <2>3. PursuitInv'
    BY <1>1, <1>5, <2>1 DEF Core, PursuitInv, Watching, StartBatch, connectorVars
  <2>4. RetryInv'
    BY <1>1, <1>5, <2>1 DEF Core, RetryInv, StartBatch, connectorVars
  <2> QED BY <1>5, <2>2, <2>3, <2>4 DEF Core, StartBatch
<1> QED BY <1>2, <1>3, <1>4, <1>5

(* The pursuit through errors, self-connections and the retry timer.       *)
LEMMA EventStep ==
  ASSUME TypeOK, Core,
         \/ HandleError \/ HandleSelfConnection \/ HandleLateError
         \/ \E id \in timers : TimerExpires(id),
         UNCHANGED <<clientVars, userVars>>
  PROVE  Core'
<1>1. /\ Starters' = Starters /\ (StopUnderWay' <=> StopUnderWay) /\ Live' = Live
      /\ UNCHANGED <<connects, overlap, clientConnect_, connection_>>
      /\ (Wanted' <=> Wanted)
  BY SameUsers DEF clientVars, userVars, Live, Wanted
<1>2. CASE HandleError \/ HandleSelfConnection \/ HandleLateError
  <2>1. /\ Watching /\ RemoveAndResetChannel /\ state_ = "kConnecting" /\ loopPc = "loop"
        /\ Retry(channel_.fd) \/ UNCHANGED <<state_, retryDelayMs_, timerId_, timers, open>>
        /\ UNCHANGED <<connect_, attempts, gaveUp, functors, loopPc, crashed>>
    BY <1>2 DEF HandleError, HandleSelfConnection, HandleLateError, HandlingEvents
  <2>2. /\ channel_' # NoChannel /\ ~Watching'
        /\ Starts' = Starts /\ Resets' # {} /\ (CancelsNothing => CancelsNothing')
    BY <2>1, RemoveType
  <2>3. /\ timers = {} /\ Live = {} /\ channel_.fd = attempts /\ open \subseteq {attempts}
        /\ connects # 0 /\ Starters = {} /\ Starts = {}
    BY <2>1 DEF Core, PursuitInv, ConnectInv, Untouched
  <2>4. \/ /\ open' = {} /\ state_' = "kDisconnected"
           /\ timers' = IF connect_ THEN {channel_.fd} ELSE {}
        \/ open' = open /\ state_' = "kConnecting" /\ timers' = {}
    BY <2>1, <2>3 DEF Retry
  <2>5. ConnectInv'
    BY <1>1, <2>2, <2>3 DEF Core, ConnectInv
  <2>6. PursuitInv'
    BY <1>1, <2>1, <2>2, <2>3, <2>4 DEF Core, PursuitInv, Single
  <2>7. RetryInv'
    BY <1>1, <2>1, <2>2, <2>3, <2>4 DEF Core, RetryInv
  <2> QED BY <2>1, <2>5, <2>6, <2>7 DEF Core
<1>3. ASSUME NEW id \in timers, TimerExpires(id)
      PROVE  Core'
  <2>1. Starts' = Starts /\ Resets' = Resets /\ (CancelsNothing' <=> CancelsNothing)
    BY <1>3, SameQueue DEF TimerExpires
  <2>2. /\ Resets = {} /\ ~Watching /\ channel_ = NoChannel /\ Live = {} /\ open = {}
        /\ timers' = {} /\ connects # 0 /\ Starters = {} /\ Starts = {}
        /\ loopPc' = "connect"
    BY <1>3, WaitingIs DEF TimerExpires, Core, PursuitInv, ConnectInv, Untouched, Single
  <2>3. UNCHANGED <<connect_, state_, channel_, timerId_, attempts, open, gaveUp, crashed>>
    BY <1>3 DEF TimerExpires
  <2>4. ConnectInv'
    BY <1>1, <2>1, <2>2 DEF Core, ConnectInv
  <2>5. PursuitInv'
    BY <1>1, <2>1, <2>2, <2>3 DEF Core, PursuitInv, Watching, Single, NoChannel
  <2>6. RetryInv'
    BY <1>1, <2>1, <2>2, <2>3 DEF Core, RetryInv
  <2> QED BY <2>3, <2>4, <2>5, <2>6 DEF Core
<1> QED BY <1>2, <1>3

(* The pursuit through success, and through the connection's end.          *)
LEMMA ConnectionStep ==
  ASSUME TypeOK, Core, NewConnection \/ \E fd \in Sockets : PeerCloses(fd)
  PROVE  Core'
<1>1. CASE NewConnection
  <2>. DEFINE fd == channel_.fd
  <2>1. /\ Watching /\ RemoveAndResetChannel /\ loopPc = "loop"
        /\ state_' = "kConnected" /\ open' = open \ {fd}
        /\ \/ connection_' = fd /\ conns' = [conns EXCEPT ![fd] = "up"]
           \/ UNCHANGED <<connection_, conns>>
        /\ UNCHANGED <<connect_, retryDelayMs_, timerId_, timers, attempts, gaveUp,
                       functors, loopPc, crashed>>
        /\ UNCHANGED <<clientConnect_, retry_, userVars>>
    BY <1>1 DEF NewConnection, HandleConnected, HandlingEvents
  <2>2. /\ channel_' # NoChannel /\ ~Watching'
        /\ Starts' = Starts /\ Resets' # {} /\ (CancelsNothing => CancelsNothing')
    BY <2>1, RemoveType
  <2>3. /\ timers = {} /\ Live = {} /\ fd = attempts /\ open \subseteq {attempts}
        /\ connects # 0 /\ Starters = {} /\ Starts = {}
    BY <2>1 DEF Core, PursuitInv, ConnectInv, Untouched
  <2>. HIDE DEF fd
  <2>4. open' = {} /\ \A c \in Live' : connection_' = c
    <3>1. \A c \in Sockets : conns'[c] \in {"up", "shut"} => connection_' = c
      BY <2>1, <2>3 DEF Live, TypeOK
    <3> QED BY <2>1, <2>3, <3>1 DEF Live
  <2>5. /\ Starters' = Starters /\ (StopUnderWay' <=> StopUnderWay)
        /\ connects' = connects /\ (Wanted' <=> Wanted)
    BY <2>1, SameUsers DEF userVars, Wanted
  <2>6. ConnectInv'
    BY <2>2, <2>3, <2>5 DEF Core, ConnectInv
  <2>7. PursuitInv'
    BY <2>1, <2>2, <2>3, <2>4 DEF Core, PursuitInv, Single
  <2>8. RetryInv'
    BY <2>1, <2>2, <2>3, <2>5 DEF Core, RetryInv
  <2> QED BY <2>1, <2>6, <2>7, <2>8 DEF Core
<1>2. ASSUME NEW fd \in Sockets, PeerCloses(fd)
      PROVE  Core'
  <2>. DEFINE f == Functor("connDestroyed", fd)
  <2>1. /\ loopPc = "loop" /\ fd \in Live /\ ~Waiting("resetChannel")
        /\ crashed' = (connection_ # fd) /\ conns' = [conns EXCEPT ![fd] = "closing"]
        /\ Push(f) /\ UNCHANGED <<functors, connectorVars, userVars, clientConnect_>>
        /\ loopPc' \in {"loop", "restart"}
    BY <1>2 DEF PeerCloses, RemoveConnection, HandlingEvents, Live
  <2>2. f \in Functors /\ f.op = "connDestroyed"
    BY DEF Functor, Functors, Ops
  <2>. HIDE DEF f
  <2>3. Starts' = Starts /\ Resets' = Resets /\ (CancelsNothing => CancelsNothing')
    BY <2>1, <2>2, PushedQueue
  <2>4. /\ Resets = {} /\ timers = {} /\ ~Watching /\ open = {} /\ channel_ = NoChannel
        /\ state_ = "kConnected" /\ connection_ = fd
        /\ connects # 0 /\ Starters = {} /\ Starts = {}
    BY <2>1, WaitingIs DEF Core, PursuitInv, ConnectInv, Untouched
  <2>5. Live' = {}
    <3>1. \A c \in Sockets : conns[c] \in {"up", "shut"} => c = fd
      BY <2>4 DEF Core, PursuitInv, Live
    <3>2. \A c \in Sockets : conns'[c] \notin {"up", "shut"}
      BY <2>1, <3>1 DEF TypeOK
    <3> QED BY <3>2 DEF Live
  <2>6. /\ Starters' = Starters /\ (StopUnderWay' <=> StopUnderWay)
        /\ connects' = connects /\ (Wanted' <=> Wanted)
    BY <2>1, SameUsers DEF userVars, Wanted
  <2>7. ConnectInv'
    BY <2>3, <2>4, <2>6 DEF Core, ConnectInv
  <2>8. PursuitInv'
    BY <2>1, <2>3, <2>4, <2>5 DEF Core, PursuitInv, Watching, Single, connectorVars, NoChannel
  <2>9. RetryInv'
    BY <2>1, <2>3, <2>4, <2>6 DEF Core, RetryInv, connectorVars
  <2> QED BY <2>1, <2>4, <2>7, <2>8, <2>9 DEF Core
<1> QED BY <1>1, <1>2

(* shutdown() ends no connection.                                          *)
LEMMA SameLive ==
  ASSUME TypeOK, Shutdown
  PROVE  Live' = Live
<1>1. \A fd \in Sockets : conns'[fd] \in {"up", "shut"} <=> conns[fd] \in {"up", "shut"}
  BY DEF Shutdown, TypeOK
<1> QED BY <1>1 DEF Live

(* Calls by users in callbacks of the loop.                                *)
LEMMA LoopUserStep ==
  ASSUME TypeOK, Core, LoopConnect \/ LoopStop \/ LoopDisconnect, connects' <= 1
  PROVE  Core'
<1>1. /\ Starts' = Starts /\ Resets' = Resets /\ (CancelsNothing' <=> CancelsNothing)
      /\ Starters' = Starters /\ (StopUnderWay' <=> StopUnderWay)
  BY SameQueue, SameUsers DEF LoopConnect, LoopStop, LoopDisconnect
<1>2. CASE LoopConnect
  <2>1. connects = 0 /\ connects' = 1
    BY <1>2 DEF LoopConnect, TypeOK
  <2>2. Untouched /\ Starters = {} /\ Starts = {} /\ CancelsNothing /\ ~Watching
    BY <2>1 DEF Core, ConnectInv, RetryInv, Untouched, Watching, NoChannel
  <2>3. Live' = Live
    BY <1>2 DEF LoopConnect, Live
  <2>4. ConnectInv'
    BY <1>1, <2>1, <2>2 DEF ConnectInv, Single
  <2>5. PursuitInv'
    BY <1>1, <1>2, <2>2, <2>3
    DEF LoopConnect, Core, PursuitInv, Untouched, Watching, Single, NoChannel
  <2>6. RetryInv'
    BY <1>1, <1>2, <2>1, <2>2 DEF LoopConnect, Core, RetryInv, Wanted
  <2> QED BY <1>2, <2>4, <2>5, <2>6 DEF LoopConnect, Core
<1>3. CASE LoopStop
  <2>1. /\ UNCHANGED <<connects, overlap, loopPc, crashed, state_, channel_, open, gaveUp,
                       connection_, attempts, timerId_>>
        /\ ~clientConnect_' /\ ~connect_' /\ timers' \subseteq timers /\ Live' = Live
    BY <1>3 DEF LoopStop, Live
  <2>2. ConnectInv'
    BY <1>1, <2>1 DEF Core, ConnectInv, Untouched
  <2>3. PursuitInv'
    BY <1>1, <2>1 DEF Core, PursuitInv, Watching, Single
  <2>4. RetryInv'
    BY <1>1, <2>1 DEF Core, RetryInv, Wanted
  <2> QED BY <2>1, <2>2, <2>3, <2>4 DEF Core
<1>4. CASE LoopDisconnect
  <2>1. UNCHANGED <<connects, overlap, loopPc, crashed, connectorVars, connection_>>
        /\ ~clientConnect_' /\ Live' = Live
    BY <1>4, SameLive DEF LoopDisconnect
  <2>2. ConnectInv'
    BY <1>1, <2>1 DEF Core, ConnectInv, Untouched, connectorVars
  <2>3. PursuitInv'
    BY <1>1, <2>1 DEF Core, PursuitInv, Watching, connectorVars
  <2>4. RetryInv'
    BY <1>1, <2>1 DEF Core, RetryInv, Wanted, connectorVars
  <2> QED BY <2>1, <2>2, <2>3, <2>4 DEF Core
<1> QED BY <1>2, <1>3, <1>4

(* Calls by users on other threads.                                        *)
LEMMA ThreadStepKeeps ==
  ASSUME TypeOK, Core, NEW t \in Threads, ThreadStep(t), connects' <= 1
  PROVE  Core'
<1>1. pc \in [Threads -> {"idle", "start", "stop", "cancel", "shutdown"}]
  BY DEF TypeOK
<1>2. CASE BeginConnect(t)
  <2>1. connects = 0 /\ connects' = 1
    BY <1>2 DEF BeginConnect, TypeOK
  <2>2. Untouched /\ Starters = {} /\ Starts = {} /\ CancelsNothing
    BY <2>1 DEF Core, ConnectInv, RetryInv
  <2>3. Starters' = {t} /\ (StopUnderWay' => StopUnderWay)
    <3>1. \A u \in Threads : pc'[u] = "start" <=> u = t
      BY <1>1, <1>2, <2>2 DEF BeginConnect, Starters
    <3>2. \A u \in Threads : pc'[u] \in {"stop", "cancel"} => pc[u] \in {"stop", "cancel"}
      BY <1>1, <1>2 DEF BeginConnect
    <3> QED BY <3>1, <3>2 DEF Starters, StopUnderWay
  <2>4. /\ Starts' = Starts /\ Resets' = Resets /\ (CancelsNothing' <=> CancelsNothing)
        /\ Live' = Live
    BY <1>2, SameQueue DEF BeginConnect, Live
  <2>5. Untouched'
    BY <1>2, <2>2, <2>4 DEF BeginConnect, Untouched, connectorVars
  <2>6. ConnectInv'
    BY <2>1, <2>2, <2>3, <2>4, <2>5 DEF ConnectInv, Single
  <2>7. PursuitInv'
    BY <1>2, <2>4 DEF BeginConnect, Core, PursuitInv, Watching, connectorVars
  <2>8. RetryInv'
    BY <1>2, <2>1, <2>2, <2>3, <2>4 DEF BeginConnect, Core, RetryInv, Wanted, connectorVars
  <2> QED BY <1>2, <2>6, <2>7, <2>8 DEF BeginConnect, Core
<1>3. CASE Start(t)
  <2>. DEFINE f == Functor("startInLoop", 0)
  <2>1. f \in Functors /\ f.op = "startInLoop"
    BY DEF Functor, Functors, Ops
  <2>2. Push(f) /\ UNCHANGED functors
    BY <1>3 DEF Start
  <2>. HIDE DEF f
  <2>3. Untouched /\ t \in Starters /\ Single(Starters) /\ Starts = {} /\ connects # 0
    BY <1>3 DEF Start, Core, ConnectInv, Starters
  <2>4. Starts' # {} /\ Single(Starts') /\ Resets' = Resets /\ (CancelsNothing => CancelsNothing')
    BY <2>1, <2>2, <2>3, PushedQueue
  <2>5. Starters' = {} /\ (StopUnderWay' => StopUnderWay)
    <3>1. \A u \in Threads : pc'[u] # "start"
      BY <1>1, <1>3, <2>3 DEF Start, Starters, Single
    <3>2. \A u \in Threads : pc'[u] \in {"stop", "cancel"} => pc[u] \in {"stop", "cancel"}
      BY <1>1, <1>3 DEF Start
    <3> QED BY <3>1, <3>2 DEF Starters, StopUnderWay
  <2>6. Untouched' /\ Live' = Live
    BY <1>3, <2>3, <2>4 DEF Start, Untouched, Live, clientVars
  <2>7. ConnectInv'
    BY <1>3, <2>3, <2>4, <2>5, <2>6 DEF Start, ConnectInv, Single
  <2>8. PursuitInv'
    BY <1>3, <2>4, <2>6 DEF Start, Core, PursuitInv, Watching, clientVars
  <2>9. RetryInv'
    BY <1>3, <2>3, <2>4, <2>5 DEF Start, Core, RetryInv, Wanted, clientVars
  <2> QED BY <1>3, <2>7, <2>8, <2>9 DEF Start, Core
<1>4. CASE BeginCall(t)
  <2>1. Starters' = Starters
    <3>1. \A u \in Threads : pc'[u] = "start" <=> pc[u] = "start"
      BY <1>1, <1>4 DEF BeginCall
    <3> QED BY <3>1 DEF Starters
  <2>2. /\ Starts' = Starts /\ Resets' = Resets /\ (CancelsNothing' <=> CancelsNothing)
        /\ Live' = Live
    BY <1>4, SameQueue DEF BeginCall, Live
  <2>3. ConnectInv'
    BY <1>4, <2>1, <2>2 DEF BeginCall, Core, ConnectInv, Untouched, connectorVars
  <2>4. PursuitInv'
    BY <1>4, <2>2 DEF BeginCall, Core, PursuitInv, Watching, connectorVars
  <2>5. RetryInv'
    BY <1>4, <2>1, <2>2 DEF BeginCall, Core, RetryInv, Wanted, connectorVars
  <2> QED BY <1>4, <2>3, <2>4, <2>5 DEF BeginCall, Core
<1>5. CASE Stop(t)
  <2>1. Starters' = Starters /\ StopUnderWay
    <3>1. \A u \in Threads : pc'[u] = "start" <=> pc[u] = "start"
      BY <1>1, <1>5 DEF Stop
    <3> QED BY <1>5, <3>1 DEF Starters, Stop, StopUnderWay
  <2>2. /\ Starts' = Starts /\ Resets' = Resets /\ (CancelsNothing' <=> CancelsNothing)
        /\ Live' = Live
    BY <1>5, SameQueue DEF Stop, Live, clientVars
  <2>3. ConnectInv'
    BY <1>5, <2>1, <2>2 DEF Stop, Core, ConnectInv, Untouched
  <2>4. PursuitInv'
    BY <1>5, <2>2 DEF Stop, Core, PursuitInv, Watching, clientVars
  <2>5. RetryInv'
    BY <1>5, <2>1, <2>2 DEF Stop, Core, RetryInv, Wanted, clientVars
  <2> QED BY <1>5, <2>3, <2>4, <2>5 DEF Stop, Core
<1>6. CASE Cancel(t)
  <2>. DEFINE f == Functor("cancel", timerId_)
  <2>1. f \in Functors /\ f.op = "cancel" /\ f.arg = timerId_
    BY DEF Functor, Functors, Ops, TypeOK, ConnectorTypeOK, NoTimer
  <2>2. Push(f) /\ UNCHANGED functors
    BY <1>6 DEF Cancel
  <2>. HIDE DEF f
  <2>3. Starters' = Starters /\ StopUnderWay
    <3>1. \A u \in Threads : pc'[u] = "start" <=> pc[u] = "start"
      BY <1>1, <1>6 DEF Cancel
    <3> QED BY <1>6, <3>1 DEF Starters, Cancel, StopUnderWay
  <2>4. /\ Starts' = Starts /\ Resets' = Resets /\ Live' = Live
        /\ CancelsNothing /\ timerId_ = NoTimer => CancelsNothing'
    BY <1>6, <2>1, <2>2, PushedQueue DEF Cancel, Live, clientVars
  <2>5. ConnectInv'
    BY <1>6, <2>3, <2>4 DEF Cancel, Core, ConnectInv, Untouched, connectorVars
  <2>6. PursuitInv'
    BY <1>6, <2>4 DEF Cancel, Core, PursuitInv, Watching, clientVars, connectorVars
  <2>7. RetryInv'
    BY <1>6, <2>3, <2>4 DEF Cancel, Core, RetryInv, Wanted, clientVars, connectorVars
  <2> QED BY <1>6, <2>5, <2>6, <2>7 DEF Cancel, Core
<1>7. CASE Disconnect(t)
  <2>1. Starters' = Starters /\ (StopUnderWay' => StopUnderWay)
    <3>1. \A u \in Threads : pc'[u] = "start" <=> pc[u] = "start"
      BY <1>1, <1>7 DEF Disconnect
    <3>2. \A u \in Threads : pc'[u] \in {"stop", "cancel"} => pc[u] \in {"stop", "cancel"}
      BY <1>1, <1>7 DEF Disconnect
    <3> QED BY <3>1, <3>2 DEF Starters, StopUnderWay
  <2>2. /\ Starts' = Starts /\ Resets' = Resets /\ (CancelsNothing' <=> CancelsNothing)
        /\ Live' = Live
    BY <1>7, SameQueue, SameLive DEF Disconnect
  <2>3. ConnectInv'
    BY <1>7, <2>1, <2>2 DEF Disconnect, Core, ConnectInv, Untouched, connectorVars
  <2>4. PursuitInv'
    BY <1>7, <2>2 DEF Disconnect, Core, PursuitInv, Watching, connectorVars
  <2>5. RetryInv'
    BY <1>7, <2>1, <2>2 DEF Disconnect, Core, RetryInv, Wanted, connectorVars
  <2> QED BY <1>7, <2>3, <2>4, <2>5 DEF Disconnect, Core
<1> QED BY <1>2, <1>3, <1>4, <1>5, <1>6, <1>7 DEF ThreadStep

-----------------------------------------------------------------------------
(* Calls of connect() are counted upwards.                                 *)
LEMMA ConnectsGrow ==
  ASSUME TypeOK, Next, connects' <= 1
  PROVE  connects <= 1
<1>1. connects \in Nat
  BY DEF TypeOK
<1>2. connects' = connects \/ connects' = connects + 1
  BY DEF Next, Proceed, RunFunctor, ConnectorEvent, NewConnection, PeerCloses, LoopConnect,
         LoopStop, LoopDisconnect, ThreadStep, BeginConnect, Start, BeginCall, Stop, Cancel,
         Disconnect, userVars
<1> QED BY <1>1, <1>2

(* What holds of a client that calls connect() once is inductive.          *)
LEMMA CoreStep ==
  ASSUME TypeOK, OneConnectInv, [Next]_vars
  PROVE  OneConnectInv'
<1>. SUFFICES ASSUME connects' <= 1
              PROVE  Core'
  BY DEF OneConnectInv, Core
<1>1. CASE UNCHANGED vars
  <2>1. /\ Starts' = Starts /\ Resets' = Resets /\ (CancelsNothing' <=> CancelsNothing)
        /\ Starters' = Starters /\ (StopUnderWay' <=> StopUnderWay) /\ Live' = Live
        /\ (Wanted' <=> Wanted)
    BY <1>1, SameQueue, SameUsers DEF vars, userVars, clientVars, Live, Wanted
  <2>2. UNCHANGED <<connectorVars, loopPc, connects, connection_, crashed>>
    BY <1>1 DEF vars, clientVars, userVars
  <2>3. Core
    BY <2>2 DEF OneConnectInv, Core
  <2>4. ConnectInv'
    BY <2>1, <2>2, <2>3 DEF Core, ConnectInv, Untouched, connectorVars
  <2>5. PursuitInv'
    BY <2>1, <2>2, <2>3 DEF Core, PursuitInv, Watching, connectorVars
  <2>6. RetryInv'
    BY <2>1, <2>2, <2>3 DEF Core, RetryInv, connectorVars
  <2> QED BY <2>2, <2>3, <2>4, <2>5, <2>6 DEF Core
<1>2. CASE Next
  <2>1. Core
    BY <1>2, ConnectsGrow DEF OneConnectInv, Core
  <2>2. CASE Proceed
    BY <2>1, <2>2, FunctorStep, LoopStep DEF Proceed
  <2>3. CASE ConnectorEvent
    BY <2>1, <2>3, EventStep DEF ConnectorEvent
  <2>4. CASE NewConnection \/ \E fd \in Sockets : PeerCloses(fd)
    BY <2>1, <2>4, ConnectionStep
  <2>5. CASE LoopConnect \/ LoopStop \/ LoopDisconnect
    BY <2>1, <2>5, LoopUserStep
  <2>6. ASSUME NEW t \in Threads, ThreadStep(t)
        PROVE  Core'
    BY <2>1, <2>6, ThreadStepKeeps
  <2> QED BY <1>2, <2>2, <2>3, <2>4, <2>5, <2>6 DEF Next
<1> QED BY <1>1, <1>2

(* The invariant holds initially.                                          *)
LEMMA InitHolds ==
  ASSUME Init
  PROVE  IInv
<1>1. /\ functors = <<>> /\ pendingFunctors_ = <<>> /\ connects = 0 /\ calls = 0
      /\ channel_ = NoChannel /\ timers = {} /\ open = {} /\ ~crashed /\ loopPc = "loop"
      /\ state_ = "kDisconnected" /\ connect_ = FALSE /\ timerId_ = NoTimer
      /\ attempts = 0 /\ gaveUp = FALSE /\ retryDelayMs_ = kInitRetryDelayMs
      /\ clientConnect_ = TRUE /\ retry_ \in BOOLEAN /\ connection_ = 0
      /\ conns = [fd \in Sockets |-> "none"] /\ pc = [t \in Threads |-> "idle"]
      /\ overlap = FALSE /\ stopped = FALSE /\ crashed = FALSE
  BY DEF Init, ConnectorInit
<1>2. TypeOK
  <2>1. /\ kInitRetryDelayMs \in kInitRetryDelayMs .. kMaxRetryDelayMs
        /\ 0 \in 0 .. MaxAttempts /\ 0 \in 0 .. MaxConnects /\ 0 \in 0 .. MaxCalls
    BY ConnectorAssumption, ClientAssumption
  <2>2. ConnectorTypeOK
    BY <1>1, <2>1 DEF ConnectorTypeOK
  <2>3. /\ pendingFunctors_ \in Seq(Functors) /\ functors \in Seq(Functors)
    BY <1>1, EmptySeq
  <2>4. /\ conns \in [Sockets -> {"none", "up", "shut", "closing", "down"}]
        /\ pc \in [Threads -> {"idle", "start", "stop", "cancel", "shutdown"}]
    BY <1>1
  <2> QED BY <1>1, <2>1, <2>2, <2>3, <2>4 DEF TypeOK, Functors, Ops
<1>3. Starts = {} /\ Resets = {} /\ CancelsNothing
  <2>1. Queue = <<>>
    BY <1>1 DEF Queue
  <2> QED BY <2>1 DEF Starts, Resets, CancelsNothing, At, NoCancel
<1>4. Starters = {} /\ Live = {} /\ ~StopUnderWay /\ ~Watching /\ ~Wanted
  BY <1>1 DEF Starters, Live, StopUnderWay, Watching, NoChannel, Wanted
<1>5. ConnectInv
  BY <1>1, <1>3, <1>4 DEF ConnectInv, Untouched, Single
<1>6. PursuitInv
  BY <1>1, <1>3, <1>4 DEF PursuitInv, Single
<1>7. RetryInv
  BY <1>1, <1>3, <1>4 DEF RetryInv
<1>8. StopInv
  BY <1>1 DEF StopInv
<1> QED BY <1>1, <1>2, <1>5, <1>6, <1>7, <1>8 DEF IInv, OneConnectInv

(* Every step keeps the invariant.                                         *)
LEMMA Step ==
  ASSUME IInv, [Next]_vars
  PROVE  IInv'
BY TypeStep, CoreStep, StopStep DEF IInv

(* What the other theorems follow from: until the one call of connect()    *)
(* gets to the loop nothing is pursued, and after it the loop, the retry   *)
(* timer, the channel and the connection hand the pursuit to each other.   *)
THEOREM InductiveInvariant == Spec => []IInv
BY InitHolds, Step, PTL DEF Spec

(* Members and the loop's queue stay in range; in particular the retry     *)
(* delay never leaves its limits (Connector.cpp:139).                      *)
THEOREM TypeCorrect == Spec => []TypeOK
<1>1. IInv => TypeOK
  BY DEF IInv
<1> QED BY <1>1, InductiveInvariant, PTL

(* The asserts of startInLoop, connecting and removeConnection never fail  *)
(* for a client that calls connect() once.                                 *)
THEOREM AssertsHold == Spec => []NoAssertFails
<1>1. IInv => NoAssertFails
  BY DEF IInv, OneConnectInv, NoAssertFails
<1> QED BY <1>1, InductiveInvariant, PTL

(* Of the sockets of all attempts only the newest may still be open in the *)
(* connector's hands: retry() closes each before the next is created.      *)
THEOREM SocketsAreClosed == Spec => []OldSocketsClosed
<1>1. IInv => OldSocketsClosed
  BY DEF IInv, OneConnectInv, PursuitInv, OldSocketsClosed
<1> QED BY <1>1, InductiveInvariant, PTL

-----------------------------------------------------------------------------
(* Counting the pursuits.                                                  *)
LEMMA SingleCount ==
  ASSUME NEW S, Single(S)
  PROVE  Cardinality(S) \in {0, 1} /\ (Cardinality(S) = 0 <=> S = {})
<1>1. CASE S = {}
  BY <1>1, FS_EmptySet
<1>2. CASE S # {}
  <2>1. PICK x \in S : TRUE
    BY <1>2
  <2>2. S = {x}
    BY <2>1 DEF Single
  <2> QED BY <1>2, <2>2, FS_Singleton
<1> QED BY <1>1, <1>2

(* With each carrier of the pursuit at most single, the pursuits are the   *)
(* sum of the carriers' counts.                                            *)
LEMMA Counted ==
  ASSUME IInv, connects <= 1
  PROVE  /\ Single(Starts) /\ Single(Starters) /\ Single(timers) /\ Single(Live)
         /\ Pursuits = Cardinality(Starts) + Cardinality(Starters)
                       + (IF loopPc = "loop" THEN 0 ELSE 1) + Cardinality(timers)
                       + (IF Watching THEN 1 ELSE 0) + Cardinality(Live)
BY DEF IInv, OneConnectInv, ConnectInv, PursuitInv, Single, Pursuits, Starts, At, Queue,
       Starters, Live

(* A client that calls connect() once pursues a single connection in a     *)
(* single way: no retry timer runs beside a channel, and no attempt begins *)
(* beside a connection, whatever stop() and disconnect() interfere with.   *)
THEOREM PursuitIsOne == Spec => []OnePursuit
<1>1. IInv => OnePursuit
  <2> SUFFICES ASSUME IInv, connects <= 1
               PROVE  Pursuits <= 1
    BY DEF OnePursuit
  <2>1. ConnectInv /\ PursuitInv
    BY DEF IInv, OneConnectInv
  <2>2. /\ Starts # {} => Starters = {} /\ loopPc = "loop" /\ timers = {} /\ ~Watching /\ Live = {}
        /\ Starters # {} => Starts = {} /\ loopPc = "loop" /\ timers = {} /\ ~Watching /\ Live = {}
        /\ loopPc # "loop" => timers = {} /\ ~Watching /\ Live = {}
        /\ timers # {} => ~Watching /\ Live = {}
        /\ Watching => Live = {}
    BY <2>1 DEF ConnectInv, PursuitInv, Untouched, Watching, NoChannel
  <2>. DEFINE a == Cardinality(Starts)
              b == Cardinality(Starters)
              c == Cardinality(timers)
              d == Cardinality(Live)
              l == IF loopPc = "loop" THEN 0 ELSE 1
              w == IF Watching THEN 1 ELSE 0
  <2>3. /\ a \in {0, 1} /\ (a = 0 <=> Starts = {})
        /\ b \in {0, 1} /\ (b = 0 <=> Starters = {})
        /\ c \in {0, 1} /\ (c = 0 <=> timers = {})
        /\ d \in {0, 1} /\ (d = 0 <=> Live = {})
        /\ l \in {0, 1} /\ (l = 0 <=> loopPc = "loop")
        /\ w \in {0, 1} /\ (w = 0 <=> ~Watching)
    BY Counted, SingleCount
  <2>4. Pursuits = a + b + l + c + w + d
    BY Counted
  <2>. HIDE DEF a, b, c, d, l, w
  <2> QED BY <2>2, <2>3, <2>4
<1> QED BY <1>1, InductiveInvariant, PTL

(* A client that is to connect, whose last attempt failed in a way that is *)
(* to be retried, has the retry under way: no stop() that returned before  *)
(* connect() was called cancels the new timer.                             *)
THEOREM RetriesComeAbout == Spec => []RetryUnderWay
<1>1. IInv => RetryUnderWay
  <2> SUFFICES ASSUME IInv, connects = 1, ~overlap, clientConnect_, connect_, ~gaveUp,
                      state_ = "kDisconnected"
               PROVE  Pursuits >= 1
    BY DEF RetryUnderWay
  <2>1. Starters # {} \/ Starts # {} \/ loopPc # "loop" \/ timers # {}
    BY DEF IInv, OneConnectInv, RetryInv, Wanted
  <2>. DEFINE a == Cardinality(Starts)
              b == Cardinality(Starters)
              c == Cardinality(timers)
              d == Cardinality(Live)
              l == IF loopPc = "loop" THEN 0 ELSE 1
              w == IF Watching THEN 1 ELSE 0
  <2>2. /\ a \in {0, 1} /\ (a = 0 <=> Starts = {})
        /\ b \in {0, 1} /\ (b = 0 <=> Starters = {})
        /\ c \in {0, 1} /\ (c = 0 <=> timers = {})
        /\ d \in {0, 1}
        /\ l \in {0, 1} /\ (l = 0 <=> loopPc = "loop")
        /\ w \in {0, 1}
    BY Counted, SingleCount
  <2>3. Pursuits = a + b + l + c + w + d
    BY Counted
  <2>. HIDE DEF a, b, c, d, l, w
  <2> QED BY <2>1, <2>2, <2>3
<1> QED BY <1>1, InductiveInvariant, PTL

-----------------------------------------------------------------------------
(* Once stop() is the last word no connection comes up, not by an attempt  *)
(* or a retry that was under way, nor by a startInLoop in the queue, nor   *)
(* by removeConnection: for any number of calls of connect() before it.    *)
THEOREM StopIsFinal == Spec => StopHolds
<1>. DEFINE A == stopped /\ stopped' =>
                   \A fd \in Sockets : conns'[fd] = "up" => conns[fd] = "up"
<1>1. IInv /\ [Next]_vars => [A]_vars
  <2> SUFFICES ASSUME TypeOK, StopInv, Next, stopped, NEW fd \in Sockets,
                      conns'[fd] = "up", conns[fd] # "up"
               PROVE  FALSE
    BY DEF IInv
  <2>1. conns \in [Sockets -> {"none", "up", "shut", "closing", "down"}] /\ ~connect_
    BY DEF TypeOK, StopInv
  <2>2. CASE RunFunctor
    BY <2>1, <2>2 DEF RunFunctor, clientVars
  <2>3. CASE UNCHANGED conns
    BY <2>3
  <2>4. CASE NewConnection
    BY <2>1, <2>4 DEF NewConnection
  <2>5. ASSUME NEW c \in Sockets, PeerCloses(c)
        PROVE  FALSE
    BY <2>1, <2>5 DEF PeerCloses, RemoveConnection
  <2>6. CASE Shutdown
    BY <2>1, <2>6 DEF Shutdown
  <2>7. RunFunctor \/ UNCHANGED conns \/ NewConnection \/ Shutdown
          \/ \E c \in Sockets : PeerCloses(c)
    BY DEF Next, Proceed, ConnectorEvent, LoopConnect, LoopStop, LoopDisconnect, ThreadStep,
           BeginConnect, Start, BeginCall, Stop, Cancel, Disconnect, clientVars
  <2> QED BY <2>2, <2>3, <2>4, <2>5, <2>6, <2>7
<1> QED BY <1>1, InductiveInvariant, PTL DEF Spec, StopHolds, A
==============================================================================
