-------------------------- MODULE TimerQueue_proofs --------------------------
(***************************************************************************)
(* Theorems about TimerQueue, for any threads, addresses, intervals and    *)
(* expirations, and any limits on time, timers and calls.                  *)
(***************************************************************************)
EXTENDS TimerQueue, SequenceTheorems, TLAPS

-----------------------------------------------------------------------------
(* The inductive invariant.                                                *)

(* A sequence is given to one timer.                                       *)
SequencesInv ==
  /\ \A a \in DOMAIN heap : heap[a].sequence < seq_
  /\ \A a, b \in DOMAIN heap : heap[a].sequence = heap[b].sequence => a = b
  /\ \A s \in cancelled : s < seq_

(* A timer is handed to the loop once.                                     *)
IsAdd(q, i) == i \in DOMAIN q /\ q[i][1] = "add"
AddedOnce(q) ==
  \A i, j \in DOMAIN q : (IsAdd(q, i) /\ IsAdd(q, j) /\ q[i][2] = q[j][2]) => i = j

(* There is a batch only inside handleRead.                                *)
BatchInv ==
  /\ callingExpiredTimers_ <=> loopPc # "idle"
  /\ loopPc = "idle" => expired = {}

(* A timer that exists although it was cancelled is in the batch, and      *)
(* reset() will find it in cancelingTimers_.                               *)
CancelInv ==
  \A a \in DOMAIN heap : heap[a].sequence \in cancelled =>
    a \in Batch /\ <<a, heap[a].sequence>> \in cancelingTimers_

IInv ==
  /\ TypeOK
  /\ SequencesInv
  /\ AddedOnce(pendingFunctors_)
  /\ BatchInv
  /\ SetsAgree
  /\ OneHolder
  /\ CancelInv
  /\ ArmedForEarliest

-----------------------------------------------------------------------------
(* The loop's queue of calls.                                              *)
OnWay(q) == {q[i][2] : i \in {j \in DOMAIN q : q[j][1] = "add"}}

(* A call queued: a timer is added to those on their way by addTimer only. *)
LEMMA QueueTheCall ==
  ASSUME NEW S, NEW q \in Seq(S), NEW f \in S, AddedOnce(q)
  PROVE  /\ Append(q, f) \in Seq(S)
         /\ f[1] # "add" => OnWay(Append(q, f)) = OnWay(q) /\ AddedOnce(Append(q, f))
         /\ f[1] = "add" => /\ OnWay(Append(q, f)) = OnWay(q) \cup {f[2]}
                            /\ f[2] \notin OnWay(q) => AddedOnce(Append(q, f))
<1>1. /\ Append(q, f) \in Seq(S)
      /\ DOMAIN Append(q, f) = DOMAIN q \cup {Len(q) + 1}
      /\ Len(q) + 1 \notin DOMAIN q
      /\ Append(q, f)[Len(q) + 1] = f
      /\ \A i \in DOMAIN q : Append(q, f)[i] = q[i]
  BY AppendProperties
<1>. DEFINE r == Append(q, f)
<1>. HIDE DEF r
<1>2. /\ DOMAIN r = DOMAIN q \cup {Len(q) + 1}
      /\ Len(q) + 1 \notin DOMAIN q
      /\ r[Len(q) + 1] = f
      /\ \A i \in DOMAIN q : r[i] = q[i]
  BY <1>1 DEF r
<1>3. f[1] # "add" => OnWay(r) = OnWay(q)
  BY <1>2 DEF OnWay
<1>4. f[1] = "add" => OnWay(r) = OnWay(q) \cup {f[2]}
  BY <1>2 DEF OnWay
<1>5. f[1] # "add" \/ f[2] \notin OnWay(q) => AddedOnce(r)
  BY <1>2 DEF OnWay, AddedOnce, IsAdd
<1> QED BY <1>1, <1>3, <1>4, <1>5 DEF r

(* A call taken from the queue: its timer, if it adds one, is no longer on *)
(* its way.                                                                *)
LEMMA TakeTheCall ==
  ASSUME NEW S, NEW q \in Seq(S), q # <<>>, AddedOnce(q)
  PROVE  /\ Tail(q) \in Seq(S) /\ Head(q) \in S
         /\ AddedOnce(Tail(q))
         /\ Head(q)[1] # "add" => OnWay(Tail(q)) = OnWay(q)
         /\ Head(q)[1] = "add" => /\ Head(q)[2] \in OnWay(q)
                                  /\ OnWay(Tail(q)) = OnWay(q) \ {Head(q)[2]}
<1>. DEFINE f == Head(q)
            r == Tail(q)
<1>1. /\ f \in S /\ r \in Seq(S) /\ f = q[1]
      /\ Len(r) = Len(q) - 1
      /\ \A i \in 1 .. Len(r) : r[i] = q[i + 1]
  BY HeadTailProperties
<1>2. DOMAIN q = 1 .. Len(q) /\ DOMAIN r = 1 .. Len(r) /\ Len(q) \in Nat \ {0}
  BY <1>1, LenProperties, EmptySeq
<1>. HIDE DEF f, r
<1>3. /\ 1 \in DOMAIN q /\ q[1] = f
      /\ \A i \in DOMAIN r : i + 1 \in DOMAIN q /\ i + 1 # 1 /\ r[i] = q[i + 1]
      /\ \A i \in DOMAIN q : i = 1 \/ (i - 1 \in DOMAIN r /\ r[i - 1] = q[i])
  BY <1>1, <1>2
<1>4. AddedOnce(r)
  <2>1. ASSUME NEW i \in DOMAIN r, NEW j \in DOMAIN r, IsAdd(r, i), IsAdd(r, j),
               r[i][2] = r[j][2]
        PROVE  i = j
    <3>1. i + 1 = j + 1
      BY <1>3, <2>1 DEF AddedOnce, IsAdd
    <3>2. i \in Nat /\ j \in Nat
      BY <1>2
    <3> QED BY <3>1, <3>2
  <2> QED BY <2>1 DEF AddedOnce
<1>5. OnWay(r) \subseteq OnWay(q)
  BY <1>3 DEF OnWay
<1>6. \A a \in OnWay(q) : a \in OnWay(r) \/ (f[1] = "add" /\ a = f[2])
  BY <1>3 DEF OnWay
<1>7. f[1] = "add" => f[2] \in OnWay(q) /\ f[2] \notin OnWay(r)
  BY <1>3 DEF OnWay, AddedOnce, IsAdd
<1> QED BY <1>1, <1>4, <1>5, <1>6, <1>7 DEF f, r

-----------------------------------------------------------------------------
(* The two sets: what they hold of the timers h at addresses Q.            *)
Expiring(h, Q) == {<<h[a].expiration, a>> : a \in Q}
Active(h, Q) == {<<a, h[a].sequence>> : a \in Q}
Filed(h, ts, as, Q) ==
  /\ Q \subseteq DOMAIN h
  /\ ts = {<<h[a].expiration, a>> : a \in Q}
  /\ as = {<<a, h[a].sequence>> : a \in Q}

(* The timers of timers_ are those that are filed.                         *)
LEMMA FiledIsQueued ==
  ASSUME NEW h, NEW ts, NEW as, NEW Q, Filed(h, ts, as, Q)
  PROVE  {e[2] : e \in ts} = Q
<1>1. \A a \in Q : <<h[a].expiration, a>> \in ts /\ <<h[a].expiration, a>>[2] = a
  BY DEF Filed
<1>2. \A e \in ts : e[2] \in Q
  BY DEF Filed
<1> QED BY <1>1, <1>2

(* Filing some more, or taking some out.                                   *)
LEMMA FileMore ==
  ASSUME NEW h, NEW ts, NEW as, NEW Q, Filed(h, ts, as, Q),
         NEW g, NEW R, R \subseteq DOMAIN g,
         \A a \in Q : a \in DOMAIN g /\ g[a] = h[a]
  PROVE  Filed(g, ts \cup Expiring(g, R), as \cup Active(g, R), Q \cup R)
BY DEF Filed, Expiring, Active

(* insert() into both sets.                                                *)
LEMMA FileOneMore ==
  ASSUME NEW h, NEW ts, NEW as, NEW Q, Filed(h, ts, as, Q),
         NEW g, NEW a \in DOMAIN g,
         \A b \in Q : b \in DOMAIN g /\ g[b] = h[b]
  PROVE  Filed(g, ts \cup {<<g[a].expiration, a>>}, as \cup {<<a, g[a].sequence>>},
               Q \cup {a})
BY DEF Filed

(* getExpired() from both sets.                                            *)
LEMMA FileLess ==
  ASSUME NEW h, NEW ts, NEW as, NEW Q, Filed(h, ts, as, Q),
         NEW g, NEW R, R \subseteq Q,
         \A a \in Q \ R : a \in DOMAIN g /\ g[a] = h[a]
  PROVE  Filed(g, ts \ Expiring(h, R), as \ Active(h, R), Q \ R)
BY DEF Filed, Expiring, Active

(* Erasing one timer from both sets.                                       *)
LEMMA FileOneLess ==
  ASSUME NEW h, NEW ts, NEW as, NEW Q, Filed(h, ts, as, Q), NEW a \in Q,
         NEW g, \A b \in Q \ {a} : b \in DOMAIN g /\ g[b] = h[b]
  PROVE  Filed(g, ts \ {<<h[a].expiration, a>>}, as \ {<<a, h[a].sequence>>}, Q \ {a})
BY DEF Filed

(* Two sets that agree have the queued timers filed, ...                   *)
LEMMA SetsAreFiled ==
  ASSUME SetsAgree, OneHolder
  PROVE  Filed(heap, timers_, activeTimers_, Queued)
<1>1. Queued \cap DOMAIN heap = Queued
  BY DEF OneHolder
<1> QED BY <1>1 DEF SetsAgree, Filed

(* ... and the other way round.                                            *)
LEMMA FiledSetsAgree ==
  ASSUME NEW Q, Filed(heap', timers_', activeTimers_', Q)
  PROVE  Queued' = Q /\ SetsAgree'
<1>1. Queued' = Q
  BY FiledIsQueued DEF Queued
<1>2. Queued' \cap DOMAIN heap' = Q
  BY <1>1 DEF Filed
<1> QED BY <1>1, <1>2 DEF SetsAgree, Filed

-----------------------------------------------------------------------------
(* The operations the steps are made of.                                   *)

(* The timerfd is armed in time, and for a time that comes.                *)
LEMMA Armed ==
  ASSUME now \in Nat, NEW when \in Nat
  PROVE  /\ ArmedFor(when) \in 0 .. Disarmed /\ ArmedFor(when) # Disarmed
         /\ ArmedFor(when) <= when \/ ArmedFor(when) <= now + 1
<1>1. MaxTime \in Nat
  BY TimerAssumption
<1> QED BY <1>1 DEF ArmedFor, Disarmed

(* A new timer has a free address and a sequence that was never used.      *)
LEMMA NewTimer ==
  ASSUME IInv, NEW a \in Addrs, NEW when \in Nat, NEW interval \in Nat,
         Allocate(a, when, interval), UNCHANGED cancelled
  PROVE  /\ a \notin DOMAIN heap /\ DOMAIN heap' = DOMAIN heap \cup {a}
         /\ DOMAIN heap' \subseteq Addrs /\ heap' \in [DOMAIN heap' -> Timer]
         /\ seq_ \in Nat /\ seq_' \in Nat
         /\ heap'[a] \in Timer /\ heap'[a].sequence \notin cancelled
         /\ \A x \in DOMAIN heap : heap'[x] = heap[x]
         /\ SequencesInv'
<1>. DEFINE timer == [expiration |-> when, interval |-> interval, sequence |-> seq_]
<1>1. /\ DOMAIN heap \subseteq Addrs /\ heap \in [DOMAIN heap -> Timer] /\ seq_ \in Nat
      /\ SequencesInv
  BY DEF IInv, TypeOK
<1>2. /\ a \notin DOMAIN heap /\ seq_' = seq_ + 1
      /\ heap' = [x \in DOMAIN heap \cup {a} |-> IF x = a THEN timer ELSE heap[x]]
  BY DEF Allocate
<1>3. timer \in Timer /\ timer.sequence = seq_
  BY <1>1 DEF Timer
<1>. HIDE DEF timer
<1>4. /\ DOMAIN heap' = DOMAIN heap \cup {a}
      /\ heap'[a] = timer
      /\ \A x \in DOMAIN heap : heap'[x] = heap[x] /\ heap'[x] \in Timer
  BY <1>1, <1>2
<1>5. heap' \in [DOMAIN heap' -> Timer]
  BY <1>2, <1>3, <1>4
<1>6. \A x \in DOMAIN heap : heap[x].sequence \in Nat
  BY <1>1 DEF Timer
<1>7. SequencesInv'
  <2>1. \A x \in DOMAIN heap' : heap'[x].sequence < seq_'
    BY <1>1, <1>2, <1>3, <1>4, <1>6 DEF SequencesInv
  <2>2. \A x, y \in DOMAIN heap' : heap'[x].sequence = heap'[y].sequence => x = y
    BY <1>1, <1>2, <1>3, <1>4, <1>6 DEF SequencesInv
  <2>3. cancelled \subseteq Nat
    BY DEF IInv, TypeOK
  <2>4. \A k \in cancelled : k < seq_'
    BY <1>1, <1>2, <2>3 DEF SequencesInv
  <2> QED BY <2>1, <2>2, <2>4 DEF SequencesInv
<1>8. timer.sequence \notin cancelled
  BY <1>1, <1>3 DEF SequencesInv
<1> QED BY <1>1, <1>2, <1>3, <1>4, <1>5, <1>7, <1>8

(* addTimerInLoop files the timer and leaves the timerfd armed in time.    *)
LEMMA TimerIsFiled ==
  ASSUME IInv, NEW a \in Addrs, a \in DOMAIN heap', heap'[a] \in Timer,
         \A x \in DOMAIN heap : x \in DOMAIN heap' /\ heap'[x] = heap[x],
         AddTimerInLoop(a, heap'[a]), UNCHANGED <<now, loopPc, timerActive>>
  PROVE  /\ timers_' \subseteq Nat \X Addrs
         /\ activeTimers_' \subseteq Addrs \X Nat
         /\ timerfd' \in 0 .. Disarmed
         /\ Queued' = Queued \cup {a} /\ SetsAgree'
         /\ ArmedForEarliest'
<1>1. /\ timers_ \subseteq Nat \X Addrs /\ activeTimers_ \subseteq Addrs \X Nat
      /\ timerfd \in 0 .. Disarmed /\ now \in Nat /\ ArmedForEarliest
      /\ Filed(heap, timers_, activeTimers_, Queued)
  BY SetsAreFiled DEF IInv, TypeOK
<1>. DEFINE when == heap'[a].expiration
            earliestChanged == \A e \in timers_ : when < e[1]
<1>2. /\ timers_' = timers_ \cup {<<when, a>>}
      /\ activeTimers_' = activeTimers_ \cup {<<a, heap'[a].sequence>>}
      /\ timerfd' = IF earliestChanged THEN ArmedFor(when) ELSE timerfd
  BY DEF AddTimerInLoop
<1>3. when \in Nat /\ heap'[a].sequence \in Nat
  BY DEF Timer
<1>4. Queued' = Queued \cup {a} /\ SetsAgree'
  <2>1. \A b \in Queued : b \in DOMAIN heap' /\ heap'[b] = heap[b]
    BY <1>1 DEF Filed
  <2>2. Filed(heap', timers_', activeTimers_', Queued \cup {a})
    BY <1>1, <1>2, <2>1, FileOneMore
  <2> QED BY <2>2, FiledSetsAgree
<1>. HIDE DEF when
<1>5. /\ ArmedFor(when) \in 0 .. Disarmed /\ ArmedFor(when) # Disarmed
      /\ ArmedFor(when) <= when \/ ArmedFor(when) <= now + 1
  BY <1>1, <1>3, Armed
<1>6. ASSUME loopPc = "idle", ~timerActive, NEW e \in timers_'
      PROVE  timerfd' # Disarmed /\ (timerfd' <= e[1] \/ timerfd' <= now + 1)
  <2>1. MaxTime \in Nat /\ Disarmed \in Nat
    BY TimerAssumption DEF Disarmed
  <2>2. \A o \in timers_ : o[1] \in Nat /\ timerfd # Disarmed
                           /\ (timerfd <= o[1] \/ timerfd <= now + 1)
    BY <1>1, <1>6 DEF ArmedForEarliest
  <2>3. e \in timers_ \/ e[1] = when
    BY <1>2
  <2>4. CASE earliestChanged
    <3>1. timerfd' = ArmedFor(when) /\ ArmedFor(when) \in Nat
      BY <1>2, <1>5, <2>4
    <3>2. e[1] \in Nat /\ when <= e[1]
      BY <1>3, <2>2, <2>3, <2>4
    <3> QED BY <1>1, <1>3, <1>5, <3>1, <3>2
  <2>5. CASE ~earliestChanged
    <3>1. PICK o \in timers_ : ~(when < o[1])
      BY <2>5
    <3>2. o[1] \in Nat /\ o[1] <= when
      BY <1>3, <2>2, <3>1
    <3>3. timerfd' = timerfd /\ timerfd \in Nat
      BY <1>1, <1>2, <2>1, <2>5
    <3>4. timerfd <= when \/ timerfd <= now + 1
      BY <1>3, <2>2, <3>2, <3>3
    <3> QED BY <2>2, <2>3, <3>3, <3>4
  <2> QED BY <2>4, <2>5
<1>7. ArmedForEarliest'
  BY <1>6 DEF ArmedForEarliest
<1>8. timers_' \subseteq Nat \X Addrs /\ activeTimers_' \subseteq Addrs \X Nat
  BY <1>1, <1>2, <1>3
<1>9. timerfd' \in 0 .. Disarmed
  BY <1>1, <1>2, <1>5
<1> QED BY <1>4, <1>7, <1>8, <1>9

(* cancelInLoop takes the timer out of everything, or leaves its id for    *)
(* reset().                                                                *)
LEMMA TimerIsCancelled ==
  ASSUME IInv, NEW id \in TimerIds, CancelInLoop(id),
         UNCHANGED <<now, seq_, batchVars, timerfd, timerActive>>
  PROVE  /\ DOMAIN heap' \subseteq Addrs /\ heap' \in [DOMAIN heap' -> Timer]
         /\ timers_' \subseteq Nat \X Addrs /\ activeTimers_' \subseteq Addrs \X Nat
         /\ cancelingTimers_' \subseteq TimerIds /\ cancelled' \subseteq Nat
         /\ SequencesInv' /\ SetsAgree'
         /\ DOMAIN heap' = Queued' \cup Batch \cup OnTheirWay
         /\ Queued' \subseteq Queued
         /\ CancelInv' /\ ArmedForEarliest'
<1>1. /\ DOMAIN heap \subseteq Addrs /\ heap \in [DOMAIN heap -> Timer] /\ seq_ \in Nat
      /\ timers_ \subseteq Nat \X Addrs /\ activeTimers_ \subseteq Addrs \X Nat
      /\ cancelingTimers_ \subseteq TimerIds /\ cancelled \subseteq Nat
      /\ SequencesInv /\ SetsAgree /\ OneHolder /\ CancelInv /\ ArmedForEarliest
      /\ Filed(heap, timers_, activeTimers_, Queued)
  BY SetsAreFiled DEF IInv, TypeOK
<1>2. Batch' = Batch /\ id = <<id[1], id[2]>> /\ id[2] \in Nat
  BY DEF Batch, batchVars, TimerIds
<1>3. CASE /\ id \in activeTimers_
           /\ timers_' = timers_ \ {<<heap[id[1]].expiration, id[1]>>}
           /\ activeTimers_' = activeTimers_ \ {id}
           /\ heap' = [x \in DOMAIN heap \ {id[1]} |-> heap[x]]
           /\ cancelled' = cancelled \cup {id[2]}
           /\ UNCHANGED cancelingTimers_
  <2>. DEFINE a == id[1]
  <2>1. a \in Queued /\ id[2] = heap[a].sequence /\ a \in DOMAIN heap
    BY <1>1, <1>2, <1>3 DEF Filed
  <2>2. /\ DOMAIN heap' = DOMAIN heap \ {a}
        /\ \A x \in DOMAIN heap \ {a} : heap'[x] = heap[x] /\ heap'[x] \in Timer
    BY <1>1, <1>3
  <2>3. heap' \in [DOMAIN heap' -> Timer]
    BY <1>3, <2>2
  <2>4. Filed(heap', timers_', activeTimers_', Queued \ {a})
    <3>1. /\ timers_' = timers_ \ {<<heap[a].expiration, a>>}
          /\ activeTimers_' = activeTimers_ \ {<<a, heap[a].sequence>>}
      BY <1>2, <1>3, <2>1
    <3>2. \A x \in Queued \ {a} : x \in DOMAIN heap' /\ heap'[x] = heap[x]
      BY <1>1, <2>2 DEF Filed
    <3> QED BY <1>1, <2>1, <3>1, <3>2, FileOneLess
  <2>5. Queued' = Queued \ {a} /\ SetsAgree'
    BY <2>4, FiledSetsAgree
  <2>6. DOMAIN heap' = Queued' \cup Batch \cup OnTheirWay
    BY <1>1, <2>1, <2>2, <2>5 DEF OneHolder
  <2>7. heap[a].sequence < seq_
    BY <1>1, <2>1 DEF SequencesInv
  <2>8. SequencesInv'
    <3>1. UNCHANGED seq_
      OBVIOUS
    <3> QED BY <1>1, <1>3, <2>1, <2>2, <2>7, <3>1 DEF SequencesInv
  <2>9. CancelInv'
    BY <1>1, <1>2, <1>3, <2>1, <2>2 DEF CancelInv, SequencesInv
  <2>10. ArmedForEarliest'
    <3>1. \A e \in timers_' : e \in timers_
      BY <1>3
    <3> QED BY <1>1, <3>1 DEF ArmedForEarliest, batchVars
  <2> QED BY <1>1, <1>2, <1>3, <2>2, <2>3, <2>5, <2>6, <2>8, <2>9, <2>10
<1>4. CASE /\ cancelingTimers_' = IF callingExpiredTimers_
                                    THEN cancelingTimers_ \cup {id}
                                    ELSE cancelingTimers_
           /\ cancelled' = IF InBatch(id) THEN cancelled \cup {id[2]} ELSE cancelled
           /\ UNCHANGED <<timers_, activeTimers_, heap>>
  <2>1. InBatch(id) => /\ id[1] \in Batch /\ id[1] \in DOMAIN heap
                       /\ heap[id[1]].sequence = id[2]
                       /\ callingExpiredTimers_
    <3>1. SUFFICES ASSUME InBatch(id)
                   PROVE  /\ id[1] \in Batch /\ heap[id[1]].sequence = id[2]
                          /\ callingExpiredTimers_
      BY <1>1 DEF OneHolder
    <3>2. PICK e \in expired : e[2] = id[1] /\ heap[e[2]].sequence = id[2]
      BY <3>1 DEF InBatch
    <3>3. callingExpiredTimers_
      BY <3>2 DEF IInv, BatchInv
    <3> QED BY <3>2, <3>3 DEF Batch
  <2>2. Queued' = Queued /\ SetsAgree'
    BY <1>1, <1>4 DEF Queued, SetsAgree
  <2>3. SequencesInv'
    BY <1>1, <1>4, <2>1 DEF SequencesInv
  <2>4. CancelInv'
    <3>1. ASSUME NEW x \in DOMAIN heap, heap[x].sequence \in cancelled'
          PROVE  x \in Batch /\ <<x, heap[x].sequence>> \in cancelingTimers_'
      <4>1. CASE heap[x].sequence \in cancelled
        BY <1>1, <1>4, <4>1 DEF CancelInv
      <4>2. CASE heap[x].sequence \notin cancelled
        <5>1. InBatch(id) /\ heap[x].sequence = id[2]
          BY <1>4, <3>1, <4>2
        <5>2. x = id[1]
          BY <1>1, <2>1, <5>1 DEF SequencesInv
        <5> QED BY <1>2, <1>4, <2>1, <5>1, <5>2
      <4> QED BY <4>1, <4>2
    <3> QED BY <1>2, <1>4, <3>1 DEF CancelInv
  <2>5. ArmedForEarliest'
    BY <1>1, <1>4 DEF ArmedForEarliest, batchVars
  <2> QED BY <1>1, <1>2, <1>4, <2>2, <2>3, <2>4, <2>5 DEF OneHolder
<1> QED BY <1>3, <1>4 DEF CancelInLoop

-----------------------------------------------------------------------------
(* The steps of other threads.                                             *)

(* What is asked for is a delay and an interval.                           *)
LEMMA RequestTypes ==
  ASSUME TypeOK, NEW r \in Requests
  PROVE  r[1] \in Nat /\ r[2] \in Nat
<1>1. CASE r \in Whens \X {0}
  <2>1. PICK w \in Whens : r = <<w, 0>>
    BY <1>1
  <2> QED BY <2>1, TimerAssumption
<1>2. CASE r \in {<<now + i, i>> : i \in Intervals}
  <2>1. PICK i \in Intervals : r = <<now + i, i>>
    BY <1>2
  <2>2. i \in Nat /\ now + i \in Nat
    BY TimerAssumption DEF TypeOK
  <2> QED BY <2>1, <2>2
<1> QED BY <1>1, <1>2 DEF Requests

(* addTimer() on another thread, up to the push, ...                       *)
LEMMA QueueAddTimerStep ==
  ASSUME IInv, NEW t \in Threads, NEW a \in Addrs, NEW r \in Requests,
         QueueAddTimer(t, a, r)
  PROVE  IInv'
<1>. DEFINE f == <<"add", a>>
<1>1. /\ Allocate(a, r[1], r[2])
      /\ pendingFunctors_' = Append(pendingFunctors_, f)
      /\ adding' = [adding EXCEPT ![t] = <<a, seq_>>]
      /\ UNCHANGED <<now, setVars, cancelingTimers_, batchVars, timerfd,
                     timerActive, ids, cancelled>>
  BY DEF QueueAddTimer
<1>2. TypeOK /\ now \in Nat
  BY DEF IInv, TypeOK
<1>3. /\ a \notin DOMAIN heap /\ DOMAIN heap' = DOMAIN heap \cup {a}
      /\ DOMAIN heap' \subseteq Addrs /\ heap' \in [DOMAIN heap' -> Timer]
      /\ seq_ \in Nat /\ seq_' \in Nat
      /\ heap'[a].sequence \notin cancelled
      /\ \A x \in DOMAIN heap : heap'[x] = heap[x]
      /\ SequencesInv'
  BY <1>1, <1>2, RequestTypes, NewTimer
<1>4. /\ f \in ({"add"} \X Addrs) \cup ({"cancel"} \X TimerIds)
      /\ f[1] = "add" /\ f[2] = a
  OBVIOUS
<1>5. /\ pendingFunctors_' \in Seq(({"add"} \X Addrs) \cup ({"cancel"} \X TimerIds))
      /\ OnWay(pendingFunctors_') = OnWay(pendingFunctors_) \cup {a}
      /\ a \notin OnWay(pendingFunctors_) => AddedOnce(pendingFunctors_')
  <2>. HIDE DEF f
  <2> QED BY <1>1, <1>2, <1>4, QueueTheCall DEF IInv, TypeOK
<1>6. /\ OnTheirWay' = OnTheirWay \cup {a} /\ Queued' = Queued /\ Batch' = Batch
      /\ OnWay(pendingFunctors_) = OnTheirWay
  BY <1>1, <1>5 DEF OnTheirWay, OnWay, Queued, Batch, setVars, batchVars
<1>7. OneHolder'
  BY <1>3, <1>6 DEF IInv, OneHolder
<1>8. TypeOK'
  BY <1>1, <1>2, <1>3, <1>5 DEF TypeOK, TimerIds, setVars, batchVars
<1>9. SetsAgree'
  <2>1. \A b \in Queued : b \in DOMAIN heap /\ b \in DOMAIN heap' /\ heap'[b] = heap[b]
    BY <1>3 DEF IInv, OneHolder
  <2> QED BY <1>1, <1>6, <2>1 DEF IInv, SetsAgree, setVars
<1>10. CancelInv'
  BY <1>1, <1>3, <1>6 DEF IInv, CancelInv
<1>11. BatchInv' /\ ArmedForEarliest'
  BY <1>1 DEF IInv, BatchInv, ArmedForEarliest, setVars, batchVars
<1>12. AddedOnce(pendingFunctors_')
  BY <1>3, <1>5, <1>6 DEF IInv, OneHolder
<1> QED BY <1>3, <1>7, <1>8, <1>9, <1>10, <1>11, <1>12 DEF IInv

(* What the invariant says of everything but the calls.                    *)
LEMMA CallsApart ==
  ASSUME IInv,
         UNCHANGED <<heap, seq_, setVars, cancelingTimers_, batchVars, timerfd,
                     timerActive, cancelled>>,
         now' = now \/ now' = now + 1,
         pendingFunctors_' \in Seq(({"add"} \X Addrs) \cup ({"cancel"} \X TimerIds)),
         OnTheirWay' = OnTheirWay, AddedOnce(pendingFunctors_'),
         adding' \in [Threads -> TimerIds], ids' \subseteq TimerIds
  PROVE  IInv'
<1>1. Queued' = Queued /\ Batch' = Batch
  BY DEF Queued, Batch, setVars, batchVars
<1>2. TypeOK'
  BY DEF IInv, TypeOK, setVars, batchVars
<1>3. SequencesInv' /\ BatchInv' /\ SetsAgree' /\ OneHolder' /\ CancelInv'
  BY <1>1 DEF IInv, SequencesInv, BatchInv, SetsAgree, OneHolder, CancelInv, setVars,
     batchVars
<1>4. ArmedForEarliest'
  <2>1. now \in Nat /\ Disarmed \in Nat /\ timerfd \in Nat
    <3>1. MaxTime \in Nat
      BY TimerAssumption
    <3> QED BY <3>1 DEF IInv, TypeOK, Disarmed
  <2>2. \A e \in timers_ : e[1] \in Nat
    BY DEF IInv, TypeOK
  <2>3. ASSUME loopPc = "idle", ~timerActive, NEW e \in timers_
        PROVE  timerfd # Disarmed /\ (timerfd <= e[1] \/ timerfd <= now' + 1)
    <3>1. timerfd # Disarmed /\ (timerfd <= e[1] \/ timerfd <= now + 1)
      BY <2>3 DEF IInv, ArmedForEarliest
    <3> QED BY <2>1, <2>2, <3>1
  <2> QED BY <2>3 DEF ArmedForEarliest, setVars, batchVars
<1> QED BY <1>2, <1>3, <1>4 DEF IInv

(* ... and from there to its return.                                       *)
LEMMA ReturnTimerIdStep ==
  ASSUME IInv, NEW t \in Threads, ReturnTimerId(t)
  PROVE  IInv'
<1>. DEFINE a == adding[t][1]
<1>1. /\ UNCHANGED <<now, heap, seq_, setVars, cancelingTimers_, batchVars,
                     timerfd, timerActive, pendingFunctors_, cancelled>>
      /\ adding' = [adding EXCEPT ![t] = NoId]
      /\ \E s \in IF a \in DOMAIN heap THEN {heap[a].sequence} ELSE 0 .. MaxTimers :
           ids' = ids \cup {<<a, s>>}
  BY DEF ReturnTimerId
<1>2. /\ adding \in [Threads -> TimerIds] /\ a \in Addrs \cup {0} /\ ids \subseteq TimerIds
      /\ \A x \in DOMAIN heap : heap[x].sequence \in Nat
  BY DEF IInv, TypeOK, TimerIds, Timer
<1>3. ids' \subseteq TimerIds
  <2>1. PICK s \in IF a \in DOMAIN heap THEN {heap[a].sequence} ELSE 0 .. MaxTimers :
          ids' = ids \cup {<<a, s>>}
    BY <1>1
  <2>2. s \in Nat
    BY <1>2, TimerAssumption
  <2> QED BY <1>2, <2>1, <2>2 DEF TimerIds
<1>4. adding' \in [Threads -> TimerIds]
  BY <1>1, <1>2 DEF NoId, TimerIds
<1>5. OnTheirWay' = OnTheirWay
  BY <1>1 DEF OnTheirWay
<1> QED BY <1>1, <1>3, <1>4, <1>5, CallsApart DEF IInv, TypeOK

(* cancel() on another thread.                                             *)
LEMMA QueueCancelStep ==
  ASSUME IInv, NEW t \in Threads, NEW id \in ids, QueueCancel(t, id)
  PROVE  IInv'
<1>. DEFINE f == <<"cancel", id>>
<1>1. /\ pendingFunctors_' = Append(pendingFunctors_, f)
      /\ UNCHANGED <<now, heap, seq_, setVars, cancelingTimers_, batchVars, timerfd,
                     timerActive, adding, ids, cancelled>>
  BY DEF QueueCancel
<1>2. /\ f \in ({"add"} \X Addrs) \cup ({"cancel"} \X TimerIds)
      /\ f[1] # "add"
  BY DEF IInv, TypeOK
<1>3. /\ pendingFunctors_' \in Seq(({"add"} \X Addrs) \cup ({"cancel"} \X TimerIds))
      /\ OnWay(pendingFunctors_') = OnWay(pendingFunctors_)
      /\ AddedOnce(pendingFunctors_')
  <2>. HIDE DEF f
  <2> QED BY <1>1, <1>2, QueueTheCall DEF IInv, TypeOK
<1>4. OnTheirWay' = OnTheirWay
  BY <1>3 DEF OnTheirWay, OnWay
<1> QED BY <1>1, <1>3, <1>4, CallsApart DEF IInv, TypeOK

-----------------------------------------------------------------------------
(* The steps of the loop's thread.                                         *)

(* addTimer() on the loop's thread.                                        *)
LEMMA AddTimerStep ==
  ASSUME IInv, NEW a \in Addrs, NEW r \in Requests, AddTimer(a, r)
  PROVE  IInv'
<1>1. /\ Allocate(a, r[1], r[2])
      /\ AddTimerInLoop(a, heap'[a])
      /\ ids' = ids \cup {<<a, seq_>>}
      /\ UNCHANGED <<now, cancelingTimers_, batchVars, timerActive,
                     pendingFunctors_, adding, cancelled, loopPc>>
  BY DEF AddTimer, batchVars
<1>2. TypeOK /\ now \in Nat
  BY DEF IInv, TypeOK
<1>3. /\ a \notin DOMAIN heap /\ DOMAIN heap' = DOMAIN heap \cup {a}
      /\ DOMAIN heap' \subseteq Addrs /\ heap' \in [DOMAIN heap' -> Timer]
      /\ seq_ \in Nat /\ seq_' \in Nat
      /\ heap'[a] \in Timer /\ heap'[a].sequence \notin cancelled
      /\ \A x \in DOMAIN heap : heap'[x] = heap[x]
      /\ SequencesInv'
  BY <1>1, <1>2, RequestTypes, NewTimer
<1>4. /\ timers_' \subseteq Nat \X Addrs
      /\ activeTimers_' \subseteq Addrs \X Nat
      /\ timerfd' \in 0 .. Disarmed
      /\ Queued' = Queued \cup {a} /\ SetsAgree'
      /\ ArmedForEarliest'
  BY <1>1, <1>3, TimerIsFiled
<1>5. Batch' = Batch /\ OnTheirWay' = OnTheirWay
  BY <1>1 DEF Batch, OnTheirWay, batchVars
<1>6. TypeOK'
  BY <1>1, <1>2, <1>3, <1>4 DEF TypeOK, TimerIds, batchVars
<1>7. OneHolder'
  BY <1>3, <1>4, <1>5 DEF IInv, OneHolder
<1>8. CancelInv'
  BY <1>1, <1>3, <1>5 DEF IInv, CancelInv
<1>9. AddedOnce(pendingFunctors_') /\ BatchInv'
  BY <1>1 DEF IInv, BatchInv, batchVars
<1> QED BY <1>3, <1>4, <1>6, <1>7, <1>8, <1>9 DEF IInv

(* cancel() on the loop's thread.                                          *)
LEMMA CancelStep ==
  ASSUME IInv, NEW id \in ids, Cancel(id)
  PROVE  IInv'
<1>1. /\ CancelInLoop(id) /\ id \in TimerIds
      /\ UNCHANGED <<now, seq_, batchVars, timerfd, timerActive, callVars>>
  BY DEF Cancel, IInv, TypeOK
<1>2. /\ DOMAIN heap' \subseteq Addrs /\ heap' \in [DOMAIN heap' -> Timer]
      /\ timers_' \subseteq Nat \X Addrs /\ activeTimers_' \subseteq Addrs \X Nat
      /\ cancelingTimers_' \subseteq TimerIds /\ cancelled' \subseteq Nat
      /\ SequencesInv' /\ SetsAgree'
      /\ DOMAIN heap' = Queued' \cup Batch \cup OnTheirWay
      /\ Queued' \subseteq Queued
      /\ CancelInv' /\ ArmedForEarliest'
  BY <1>1, TimerIsCancelled
<1>3. Batch' = Batch /\ OnTheirWay' = OnTheirWay
  BY <1>1 DEF Batch, OnTheirWay, batchVars, callVars
<1>4. TypeOK'
  BY <1>1, <1>2 DEF IInv, TypeOK, batchVars, callVars
<1>5. OneHolder'
  BY <1>2, <1>3 DEF IInv, OneHolder
<1>6. AddedOnce(pendingFunctors_') /\ BatchInv'
  BY <1>1 DEF IInv, BatchInv, batchVars, callVars
<1> QED BY <1>2, <1>4, <1>5, <1>6 DEF IInv

(* addTimerInLoop() and cancelInLoop() as functors.                        *)
LEMMA RunFunctorStep ==
  ASSUME IInv, RunFunctor
  PROVE  IInv'
<1>. DEFINE call == Head(pendingFunctors_)
            F == ({"add"} \X Addrs) \cup ({"cancel"} \X TimerIds)
<1>1. /\ pendingFunctors_ # <<>> /\ pendingFunctors_' = Tail(pendingFunctors_)
      /\ UNCHANGED <<now, seq_, batchVars, timerActive, adding, ids, loopPc>>
      /\ \/ /\ call[1] = "add"
            /\ AddTimerInLoop(call[2], heap[call[2]])
            /\ UNCHANGED <<heap, cancelingTimers_, cancelled>>
         \/ /\ call[1] = "cancel"
            /\ CancelInLoop(call[2])
            /\ UNCHANGED timerfd
  BY DEF RunFunctor, batchVars
<1>2. /\ TypeOK /\ pendingFunctors_ \in Seq(F) /\ AddedOnce(pendingFunctors_)
      /\ OnWay(pendingFunctors_) = OnTheirWay
  BY DEF IInv, TypeOK, OnWay, OnTheirWay
<1>3. /\ pendingFunctors_' \in Seq(F) /\ call \in F
      /\ AddedOnce(pendingFunctors_')
      /\ call[1] # "add" => OnTheirWay' = OnTheirWay
      /\ call[1] = "add" => /\ call[2] \in OnTheirWay
                            /\ OnTheirWay' = OnTheirWay \ {call[2]}
  <2>1. /\ Tail(pendingFunctors_) \in Seq(F) /\ Head(pendingFunctors_) \in F
        /\ AddedOnce(Tail(pendingFunctors_))
        /\ Head(pendingFunctors_)[1] # "add"
             => OnWay(Tail(pendingFunctors_)) = OnWay(pendingFunctors_)
        /\ Head(pendingFunctors_)[1] = "add" =>
             /\ Head(pendingFunctors_)[2] \in OnWay(pendingFunctors_)
             /\ OnWay(Tail(pendingFunctors_))
                  = OnWay(pendingFunctors_) \ {Head(pendingFunctors_)[2]}
    <3>. HIDE DEF F
    <3> QED BY <1>1, <1>2, TakeTheCall
  <2>2. OnTheirWay' = OnWay(pendingFunctors_')
    BY DEF OnTheirWay, OnWay
  <2> QED BY <1>1, <1>2, <2>1, <2>2
<1>4. Batch' = Batch /\ BatchInv'
  BY <1>1 DEF Batch, IInv, BatchInv, batchVars
<1>5. CASE /\ call[1] = "add"
           /\ AddTimerInLoop(call[2], heap[call[2]])
           /\ UNCHANGED <<heap, cancelingTimers_, cancelled>>
  <2>. DEFINE a == call[2]
  <2>1. a \in Addrs /\ a \in DOMAIN heap /\ heap[a] \in Timer /\ heap' = heap
    BY <1>3, <1>5 DEF IInv, TypeOK, OneHolder
  <2>2. AddTimerInLoop(a, heap'[a])
    BY <1>5, <2>1
  <2>. HIDE DEF call
  <2>3. /\ timers_' \subseteq Nat \X Addrs
        /\ activeTimers_' \subseteq Addrs \X Nat
        /\ timerfd' \in 0 .. Disarmed
        /\ Queued' = Queued \cup {a} /\ SetsAgree'
        /\ ArmedForEarliest'
    BY <1>1, <2>1, <2>2, TimerIsFiled
  <2>4. TypeOK'
    BY <1>1, <1>2, <1>3, <1>5, <2>3 DEF TypeOK, batchVars
  <2>5. OneHolder'
    BY <1>3, <1>4, <1>5, <2>3 DEF IInv, OneHolder
  <2>6. SequencesInv' /\ CancelInv'
    BY <1>1, <1>4, <1>5 DEF IInv, SequencesInv, CancelInv
  <2> QED BY <1>3, <1>4, <2>3, <2>4, <2>5, <2>6 DEF IInv
<1>6. CASE /\ call[1] = "cancel"
           /\ CancelInLoop(call[2])
           /\ UNCHANGED timerfd
  <2>. DEFINE id == call[2]
  <2>1. id \in TimerIds /\ CancelInLoop(id)
    BY <1>3, <1>6
  <2>. HIDE DEF call, id
  <2>2. /\ DOMAIN heap' \subseteq Addrs /\ heap' \in [DOMAIN heap' -> Timer]
        /\ timers_' \subseteq Nat \X Addrs /\ activeTimers_' \subseteq Addrs \X Nat
        /\ cancelingTimers_' \subseteq TimerIds /\ cancelled' \subseteq Nat
        /\ SequencesInv' /\ SetsAgree'
        /\ DOMAIN heap' = Queued' \cup Batch \cup OnTheirWay
        /\ Queued' \subseteq Queued
        /\ CancelInv' /\ ArmedForEarliest'
    BY <1>1, <1>6, <2>1, TimerIsCancelled
  <2>3. TypeOK'
    BY <1>1, <1>2, <1>3, <1>6, <2>2 DEF TypeOK, batchVars
  <2>4. OneHolder'
    BY <1>3, <1>4, <1>6, <2>2 DEF IInv, OneHolder
  <2> QED BY <1>3, <1>4, <2>2, <2>3, <2>4 DEF IInv
<1> QED BY <1>1, <1>5, <1>6

(* handleRead() up to the first callback.                                  *)
LEMMA HandleReadStep ==
  ASSUME IInv, HandleRead
  PROVE  IInv'
<1>. DEFINE due == {e \in timers_ : e[1] <= now}
            R == {e[2] : e \in due}
<1>1. /\ loopPc = "idle" /\ timerActive
      /\ timerActive' = FALSE
      /\ timerfd' = IF Readable THEN Disarmed ELSE timerfd
      /\ handleNow' = now
      /\ expired' = due /\ toRun' = due
      /\ timers_' = timers_ \ due
      /\ activeTimers_' = activeTimers_
                            \ {<<e[2], heap[e[2]].sequence>> : e \in due}
      /\ cancelingTimers_' = {}
      /\ callingExpiredTimers_' = TRUE
      /\ loopPc' = "run"
      /\ UNCHANGED <<now, heap, seq_, callVars, cancelled>>
  BY DEF HandleRead
<1>2. /\ TypeOK /\ SequencesInv /\ OneHolder /\ CancelInv
      /\ Filed(heap, timers_, activeTimers_, Queued)
      /\ Batch = {}
  BY <1>1, SetsAreFiled DEF IInv, BatchInv, Batch
<1>3. \A e \in due : e = <<heap[e[2]].expiration, e[2]>> /\ e[2] \in Queued
  BY <1>2 DEF Filed
<1>4. /\ R \subseteq Queued
      /\ due = Expiring(heap, R)
      /\ {<<e[2], heap[e[2]].sequence>> : e \in due} = Active(heap, R)
  BY <1>3 DEF Expiring, Active
<1>5. Batch' = R
  BY <1>1 DEF Batch
<1>. HIDE DEF due, R
<1>6. Queued' = Queued \ R /\ SetsAgree'
  <2>1. \A a \in Queued \ R : a \in DOMAIN heap /\ heap[a] = heap[a]
    BY <1>2 DEF Filed
  <2>2. Filed(heap, timers_', activeTimers_', Queued \ R)
    BY <1>1, <1>2, <1>4, <2>1, FileLess
  <2> QED BY <1>1, <2>2, FiledSetsAgree
<1>7. OnTheirWay' = OnTheirWay /\ AddedOnce(pendingFunctors_')
  BY <1>1 DEF OnTheirWay, callVars, IInv
<1>8. TypeOK'
  <2>1. Disarmed \in Nat
    BY TimerAssumption DEF Disarmed
  <2>2. timerfd' \in 0 .. Disarmed
    BY <1>1, <1>2, <2>1 DEF TypeOK
  <2>3. due \subseteq timers_
    BY DEF due
  <2> QED BY <1>1, <1>2, <2>2, <2>3 DEF TypeOK, callVars
<1>9. SequencesInv' /\ CancelInv'
  BY <1>1, <1>2 DEF SequencesInv, CancelInv
<1>10. OneHolder'
  BY <1>1, <1>2, <1>4, <1>5, <1>6, <1>7 DEF OneHolder
<1>11. BatchInv' /\ ArmedForEarliest'
  BY <1>1 DEF BatchInv, ArmedForEarliest
<1> QED BY <1>6, <1>7, <1>8, <1>9, <1>10, <1>11 DEF IInv

(* reset() after the last callback.                                        *)
LEMMA ResetStep ==
  ASSUME IInv, Reset
  PROVE  IInv'
<1>. DEFINE next(a) == handleNow + heap[a].interval
            gone == Batch \ Restarted
            restarted == {<<next(a), a>> : a \in Restarted}
<1>1. /\ loopPc = "run" /\ toRun = {}
      /\ heap' = [x \in DOMAIN heap \ gone |->
                    IF x \in Restarted
                      THEN [heap[x] EXCEPT !.expiration = next(x)]
                      ELSE heap[x]]
      /\ timers_' = timers_ \cup restarted
      /\ activeTimers_' = activeTimers_
                            \cup {<<a, heap[a].sequence>> : a \in Restarted}
      /\ \/ timers_' = {} /\ UNCHANGED timerfd
         \/ \E e \in timers_' : /\ \A o \in timers_' : e[1] <= o[1]
                                /\ timerfd' = ArmedFor(e[1])
      /\ callingExpiredTimers_' = FALSE
      /\ expired' = {} /\ handleNow' = 0 /\ loopPc' = "idle"
      /\ UNCHANGED <<now, seq_, cancelingTimers_, timerActive, toRun,
                     pendingFunctors_, adding, ids, cancelled>>
  BY DEF Reset, Batch, callVars
<1>2. /\ TypeOK /\ SequencesInv /\ OneHolder /\ CancelInv
      /\ Filed(heap, timers_, activeTimers_, Queued)
  BY SetsAreFiled DEF IInv
<1>3. /\ Restarted \subseteq Batch
      /\ \A a \in Restarted : <<a, heap[a].sequence>> \notin cancelingTimers_
  BY DEF Restarted, Batch
<1>4. \A a \in DOMAIN heap : /\ heap[a] \in Timer /\ next(a) \in Nat
                             /\ [heap[a] EXCEPT !.expiration = next(a)] \in Timer
                             /\ [heap[a] EXCEPT !.expiration = next(a)].expiration = next(a)
                             /\ [heap[a] EXCEPT !.expiration = next(a)].sequence
                                  = heap[a].sequence
  BY <1>2 DEF TypeOK, Timer
<1>5. /\ DOMAIN heap' = DOMAIN heap \ gone
      /\ \A x \in DOMAIN heap' : /\ heap'[x] \in Timer
                                 /\ heap'[x].sequence = heap[x].sequence
                                 /\ x \in Restarted => heap'[x].expiration = next(x)
                                 /\ x \notin Restarted => heap'[x] = heap[x]
  BY <1>1, <1>4
<1>6. heap' \in [DOMAIN heap' -> Timer]
  BY <1>1, <1>5
<1>. HIDE DEF next
<1>7. Restarted \subseteq DOMAIN heap' /\ Restarted \subseteq DOMAIN heap
  BY <1>2, <1>3, <1>5 DEF OneHolder
<1>8. /\ restarted = Expiring(heap', Restarted)
      /\ {<<a, heap[a].sequence>> : a \in Restarted} = Active(heap', Restarted)
  BY <1>5, <1>7 DEF Expiring, Active
<1>9. Queued' = Queued \cup Restarted /\ SetsAgree'
  <2>1. \A b \in Queued : b \in DOMAIN heap' /\ heap'[b] = heap[b]
    BY <1>2, <1>3, <1>5 DEF OneHolder
  <2>2. Filed(heap', timers_', activeTimers_', Queued \cup Restarted)
    <3>1. Filed(heap', timers_ \cup Expiring(heap', Restarted),
                activeTimers_ \cup Active(heap', Restarted), Queued \cup Restarted)
      BY <1>2, <1>7, <2>1, FileMore
    <3>. HIDE DEF restarted
    <3> QED BY <1>1, <1>8, <3>1
  <2> QED BY <2>2, FiledSetsAgree
<1>10. Batch' = {} /\ OnTheirWay' = OnTheirWay /\ AddedOnce(pendingFunctors_')
  BY <1>1 DEF Batch, OnTheirWay, IInv
<1>11. OneHolder'
  BY <1>2, <1>3, <1>5, <1>9, <1>10 DEF OneHolder
<1>12. timers_' \subseteq Nat \X Addrs /\ activeTimers_' \subseteq Addrs \X Nat
  <2>1. \A a \in Restarted : a \in Addrs /\ next(a) \in Nat /\ heap[a].sequence \in Nat
    BY <1>2, <1>4, <1>7 DEF TypeOK, Timer
  <2> QED BY <1>1, <1>2, <2>1 DEF TypeOK
<1>13. timerfd' \in 0 .. Disarmed /\ ArmedForEarliest'
  <2>1. CASE timers_' = {} /\ UNCHANGED timerfd
    BY <1>2, <2>1 DEF TypeOK, ArmedForEarliest
  <2>2. ASSUME NEW e \in timers_', \A o \in timers_' : e[1] <= o[1],
               timerfd' = ArmedFor(e[1])
        PROVE  timerfd' \in 0 .. Disarmed /\ ArmedForEarliest'
    <3>. DEFINE when == e[1]
    <3>1. now \in Nat /\ when \in Nat /\ \A o \in timers_' : o[1] \in Nat
      BY <1>2, <1>12 DEF TypeOK
    <3>2. /\ ArmedFor(when) \in 0 .. Disarmed /\ ArmedFor(when) # Disarmed
          /\ ArmedFor(when) <= when \/ ArmedFor(when) <= now + 1
      <4>. HIDE DEF when
      <4> QED BY <3>1, Armed
    <3>3. Disarmed \in Nat
      BY TimerAssumption DEF Disarmed
    <3>4. \A o \in timers_' : timerfd' <= o[1] \/ timerfd' <= now + 1
      BY <2>2, <3>1, <3>2, <3>3
    <3> QED BY <1>1, <2>2, <3>2, <3>4 DEF ArmedForEarliest
  <2> QED BY <1>1, <2>1, <2>2
<1>14. TypeOK'
  BY <1>1, <1>2, <1>5, <1>6, <1>12, <1>13 DEF TypeOK
<1>15. SequencesInv'
  BY <1>1, <1>2, <1>5 DEF SequencesInv
<1>16. CancelInv'
  BY <1>1, <1>2, <1>3, <1>5 DEF CancelInv
<1>17. BatchInv'
  BY <1>1 DEF BatchInv
<1> QED BY <1>9, <1>10, <1>11, <1>13, <1>14, <1>15, <1>16, <1>17 DEF IInv

(* The steps that only move the loop's thread on.                          *)
LEMMA MovesOnStep ==
  ASSUME IInv,
         PollTimerChannel \/ (\E e \in toRun : RunTimer(e)) \/ CallbackReturn
  PROVE  IInv'
<1>1. /\ UNCHANGED <<now, heap, seq_, timers_, activeTimers_, cancelingTimers_,
                     callingExpiredTimers_, timerfd, handleNow, expired,
                     pendingFunctors_, adding, ids, cancelled>>
      /\ toRun' \subseteq toRun /\ timerActive' \in BOOLEAN
      /\ loopPc' \in {"idle", "run", "callback"}
      /\ loopPc = "idle" <=> loopPc' = "idle"
      /\ loopPc' = "idle" /\ ~timerActive' => ~timerActive
  BY DEF PollTimerChannel, RunTimer, CallbackReturn, setVars, batchVars, callVars, IInv,
     TypeOK
<1>2. TypeOK'
  BY <1>1 DEF IInv, TypeOK
<1>3. SequencesInv' /\ AddedOnce(pendingFunctors_') /\ BatchInv'
  BY <1>1 DEF IInv, SequencesInv, BatchInv
<1>4. Queued' = Queued /\ Batch' = Batch /\ OnTheirWay' = OnTheirWay
  BY <1>1 DEF Queued, Batch, OnTheirWay
<1>5. SetsAgree' /\ OneHolder' /\ CancelInv'
  BY <1>1, <1>4 DEF IInv, SetsAgree, OneHolder, CancelInv
<1>6. ArmedForEarliest'
  BY <1>1 DEF IInv, ArmedForEarliest
<1> QED BY <1>2, <1>3, <1>5, <1>6 DEF IInv

(* Time passes.                                                            *)
LEMMA TickStep ==
  ASSUME IInv, Tick
  PROVE  IInv'
<1>1. /\ now' = now + 1 /\ now \in Nat
      /\ UNCHANGED <<heap, seq_, setVars, cancelingTimers_, batchVars, timerfd,
                     timerActive, callVars, cancelled>>
  BY DEF Tick, IInv, TypeOK
<1>2. OnTheirWay' = OnTheirWay
  BY <1>1 DEF OnTheirWay, callVars
<1>3. /\ pendingFunctors_' \in Seq(({"add"} \X Addrs) \cup ({"cancel"} \X TimerIds))
      /\ AddedOnce(pendingFunctors_')
      /\ adding' \in [Threads -> TimerIds] /\ ids' \subseteq TimerIds
  BY <1>1 DEF IInv, TypeOK, callVars
<1> QED BY <1>1, <1>2, <1>3, CallsApart

-----------------------------------------------------------------------------
(* The invariant holds initially.                                          *)
LEMMA InitIInv == Init => IInv
<1>. SUFFICES ASSUME Init PROVE IInv
  OBVIOUS
<1>1. DOMAIN heap = {}
  BY DEF Init
<1>2. TypeOK
  <2>1. heap \in [DOMAIN heap -> Timer]
    BY DEF Init
  <2>2. Disarmed \in 0 .. Disarmed
    BY TimerAssumption DEF Disarmed
  <2>3. NoId \in TimerIds
    BY DEF NoId, TimerIds
  <2>4. pendingFunctors_ \in Seq(({"add"} \X Addrs) \cup ({"cancel"} \X TimerIds))
    BY DEF Init
  <2>5. adding \in [Threads -> TimerIds] /\ ids \subseteq TimerIds
    BY <2>3 DEF Init
  <2> QED BY <1>1, <2>1, <2>2, <2>4, <2>5 DEF Init, TypeOK
<1>3. Queued = {} /\ Batch = {} /\ OnTheirWay = {}
  BY DEF Init, Queued, Batch, OnTheirWay
<1>4. SetsAgree /\ OneHolder
  BY <1>1, <1>3 DEF Init, SetsAgree, OneHolder
<1>5. SequencesInv /\ AddedOnce(pendingFunctors_) /\ BatchInv /\ CancelInv
      /\ ArmedForEarliest
  BY <1>1 DEF Init, SequencesInv, AddedOnce, BatchInv, CancelInv, ArmedForEarliest
<1> QED BY <1>2, <1>4, <1>5 DEF IInv

(* Every step keeps the invariant.                                         *)
LEMMA NextIInv == IInv /\ [Next]_vars => IInv'
<1>. SUFFICES ASSUME IInv, [Next]_vars PROVE IInv'
  OBVIOUS
<1>1. CASE UNCHANGED vars
  <2>1. OnTheirWay' = OnTheirWay
    BY <1>1 DEF vars, OnTheirWay
  <2> QED BY <1>1, <2>1, CallsApart DEF vars, setVars, batchVars, IInv, TypeOK
<1>2. CASE LoopStep
  BY <1>2, MovesOnStep, HandleReadStep, ResetStep DEF LoopStep
<1>3. CASE RunFunctor
  BY <1>3, RunFunctorStep
<1>4. CASE OwnerCall
  BY <1>4, AddTimerStep, CancelStep DEF OwnerCall
<1>5. ASSUME NEW t \in Threads, ThreadStep(t)
      PROVE  IInv'
  BY <1>5, QueueAddTimerStep, ReturnTimerIdStep, QueueCancelStep DEF ThreadStep
<1>6. CASE Tick
  BY <1>6, TickStep
<1> QED BY <1>1, <1>2, <1>3, <1>4, <1>5, <1>6 DEF Next

(* What the other theorems follow from: types, sequence numbers, single    *)
(* holders, the batch, the two sets, the cancelled ones and the armed      *)
(* timerfd together are inductive.                                         *)
THEOREM InductiveInvariant == Spec => []IInv
BY InitIInv, NextIInv, PTL DEF Spec

(* The timer queue keeps its types.                                        *)
THEOREM TypeCorrect == Spec => []TypeOK
<1>1. IInv => TypeOK
  BY DEF IInv
<1> QED BY <1>1, InductiveInvariant, PTL

(* timers_ and activeTimers_ always hold the same live timers, whatever    *)
(* expires, restarts and is cancelled, and whichever addresses are reused. *)
THEOREM SetsAlwaysAgree == Spec => []SetsAgree
<1>1. IInv => SetsAgree
  BY DEF IInv
<1> QED BY <1>1, InductiveInvariant, PTL

(* No Timer leaks, is deleted twice, or is deleted while held.             *)
THEOREM TimersHaveOneHolder == Spec => []OneHolder
<1>1. IInv => OneHolder
  BY DEF IInv
<1> QED BY <1>1, InductiveInvariant, PTL

(* The timerfd is never set later than the earliest timer needs.           *)
THEOREM EarliestIsArmed == Spec => []ArmedForEarliest
<1>1. IInv => ArmedForEarliest
  BY DEF IInv
<1> QED BY <1>1, InductiveInvariant, PTL

(* A timer cancelled in the queue or in the running batch never returns.   *)
THEOREM CancelledStayOut == Spec => []CancelledStaysOut
<1>1. IInv => CancelledStaysOut
  <2>. SUFFICES ASSUME IInv, NEW id \in activeTimers_, id[2] \in cancelled
                PROVE  FALSE
    BY DEF CancelledStaysOut
  <2>1. Filed(heap, timers_, activeTimers_, Queued)
    BY SetsAreFiled DEF IInv
  <2>2. PICK a \in Queued : id = <<a, heap[a].sequence>> /\ a \in DOMAIN heap
    BY <2>1 DEF Filed
  <2>3. a \in Batch
    BY <2>2 DEF IInv, CancelInv
  <2> QED BY <2>2, <2>3 DEF IInv, OneHolder
<1> QED BY <1>1, InductiveInvariant, PTL
==============================================================================
