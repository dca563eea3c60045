----------------------------- MODULE TimerQueue -----------------------------
(***************************************************************************)
(* TimerQueue.{h,cpp} with Timer and TimerId: the timers of one event      *)
(* loop, kept in a set ordered by expiration and a set of (pointer,        *)
(* sequence) pairs, and served by one timerfd.                             *)
(*                                                                         *)
(* Timers live at addresses that malloc hands out again once they are      *)
(* freed, so a TimerId can name a timer that is gone and an address that   *)
(* holds another one.  Calls of other threads reach the loop through its   *)
(* functor queue (EventLoop, TaskQueue); calls of the loop's own thread    *)
(* take effect at once.                                                    *)
(*                                                                         *)
(* One unit of time is 100 microseconds, the shortest delay the code arms  *)
(* the timerfd with.  The wall clock and the timerfd's monotonic clock are *)
(* taken to advance together.                                              *)
(***************************************************************************)
EXTENDS Naturals, Sequences

CONSTANTS
  Threads,      \* threads other than the loop's
  Addrs,        \* addresses a Timer may be allocated at; 0 is nullptr
  Intervals,    \* repeat intervals of runEvery
  Whens,        \* expirations passed to runAt
  MaxTime,      \* bound: where the clock stops
  MaxTimers,    \* bound: timers created in a run
  MaxPending    \* bound: functors waiting in the loop's queue

ASSUME TimerAssumption ==
  /\ Addrs \subseteq Nat \ {0}
  /\ Intervals \subseteq Nat \ {0}
  /\ Whens \subseteq Nat
  /\ MaxTime \in Nat
  /\ MaxTimers \in Nat

VARIABLES
  now,                    \* the clock
  heap,                   \* the live Timer objects, by address
  seq_,                   \* Timer::seq_
  timers_,                \* <<expiration, address>> pairs
  activeTimers_,          \* <<address, sequence>> pairs
  cancelingTimers_,       \* <<address, sequence>> pairs
  callingExpiredTimers_,
  timerfd,                \* when the timerfd becomes readable, or Disarmed
  timerActive,            \* poll() has reported the timer channel
  loopPc,                 \* "idle" outside handleRead
  handleNow,              \* handleRead's local now
  expired,                \* handleRead's local batch of <<expiration, address>>
  toRun,                  \* the part of the batch still to be run
  pendingFunctors_,       \* calls on their way from other threads
  adding,                 \* the timer a thread has queued and not yet returned
  ids,                    \* TimerIds handed out so far
  cancelled               \* history: sequences of timers cancelled so far

clockVars == <<now>>
setVars   == <<timers_, activeTimers_>>
batchVars == <<callingExpiredTimers_, loopPc, handleNow, expired, toRun>>
callVars  == <<pendingFunctors_, adding, ids>>
vars == <<now, heap, seq_, timers_, activeTimers_, cancelingTimers_,
          callingExpiredTimers_, timerfd, timerActive, loopPc, handleNow,
          expired, toRun, pendingFunctors_, adding, ids, cancelled>>

NoId == <<0, 0>>          \* TimerId()
Disarmed == MaxTime + 1

Timer == [expiration : Nat, interval : Nat, sequence : Nat]
Repeat(timer) == timer.interval > 0
TimerIds == (Addrs \cup {0}) \X Nat

TypeOK ==
  /\ now \in Nat
  /\ DOMAIN heap \subseteq Addrs
  /\ heap \in [DOMAIN heap -> Timer]
  /\ seq_ \in Nat
  /\ timers_ \subseteq Nat \X Addrs
  /\ activeTimers_ \subseteq Addrs \X Nat
  /\ cancelingTimers_ \subseteq TimerIds
  /\ callingExpiredTimers_ \in BOOLEAN
  /\ timerfd \in 0 .. Disarmed
  /\ timerActive \in BOOLEAN
  /\ loopPc \in {"idle", "run", "callback"}
  /\ handleNow \in Nat
  /\ expired \subseteq Nat \X Addrs
  /\ toRun \subseteq expired
  /\ pendingFunctors_ \in Seq(({"add"} \X Addrs) \cup ({"cancel"} \X TimerIds))
  /\ adding \in [Threads -> TimerIds]
  /\ ids \subseteq TimerIds
  /\ cancelled \subseteq Nat

Init ==
  /\ now = 1
  /\ heap = <<>>
  /\ seq_ = 0
  /\ timers_ = {}
  /\ activeTimers_ = {}
  /\ cancelingTimers_ = {}
  /\ callingExpiredTimers_ = FALSE
  /\ timerfd = Disarmed
  /\ timerActive = FALSE
  /\ loopPc = "idle"
  /\ handleNow = 0
  /\ expired = {}
  /\ toRun = {}
  /\ pendingFunctors_ = <<>>
  /\ adding = [t \in Threads |-> NoId]
  /\ ids = {NoId}
  /\ cancelled = {}

-----------------------------------------------------------------------------
(* Mutation of ArmedFor: no minimum delay, and a zero delay disarms.       *)
ArmedForExactly(when) ==
  IF when <= now THEN Disarmed ELSE IF when < MaxTime THEN when ELSE MaxTime

(* resetTimerfd(when): at least one unit from now.  timerfd_settime also   *)
(* forgets an expiration nobody has read.  The clock stops at MaxTime, and *)
(* there the delay is over at once.                                        *)
ArmedFor(when) ==
  LET due == IF when > now THEN when ELSE now + 1
  IN  IF due < MaxTime THEN due ELSE MaxTime

Readable == timerfd <= now

(* new Timer(when, cb, interval) at a free address.                        *)
Allocate(a, when, interval) ==
  /\ a \notin DOMAIN heap
  /\ seq_ < MaxTimers
  /\ heap' = [x \in DOMAIN heap \cup {a} |->
                IF x = a THEN [expiration |-> when, interval |-> interval,
                               sequence |-> seq_]
                         ELSE heap[x]]
  /\ seq_' = seq_ + 1

(* Mutation of AddTimerInLoop: only the first timer arms the timerfd.      *)
AddTimerInLoopArmingOnce(a, timer) ==
  /\ timers_' = timers_ \cup {<<timer.expiration, a>>}
  /\ activeTimers_' = activeTimers_ \cup {<<a, timer.sequence>>}
  /\ timerfd' = IF timers_ = {} THEN ArmedFor(timer.expiration) ELSE timerfd

(* addTimerInLoop: insert(), and re-arm if the new timer is the earliest.  *)
AddTimerInLoop(a, timer) ==
  LET earliestChanged == \A e \in timers_ : timer.expiration < e[1]
  IN  /\ timers_' = timers_ \cup {<<timer.expiration, a>>}
      /\ activeTimers_' = activeTimers_ \cup {<<a, timer.sequence>>}
      /\ timerfd' = IF earliestChanged THEN ArmedFor(timer.expiration)
                                       ELSE timerfd

InBatch(id) ==
  \E e \in expired : e[2] = id[1] /\ heap[e[2]].sequence = id[2]

(* Mutation of CancelInLoop: look the timer up by its address alone.       *)
CancelInLoopByAddress(id) ==
  /\ \E timer \in activeTimers_ : timer[1] = id[1]
  /\ timers_' = timers_ \ {<<heap[id[1]].expiration, id[1]>>}
  /\ activeTimers_' = activeTimers_ \ {id}
  /\ heap' = [x \in DOMAIN heap \ {id[1]} |-> heap[x]]
  /\ cancelled' = cancelled \cup {id[2]}
  /\ UNCHANGED cancelingTimers_

(* Mutation of CancelInLoop: a cancelled timer of the batch is deleted.    *)
CancelInLoopDeletingBatch(id) ==
  /\ callingExpiredTimers_
  /\ InBatch(id)
  /\ heap' = [x \in DOMAIN heap \ {id[1]} |-> heap[x]]
  /\ cancelled' = cancelled \cup {id[2]}
  /\ UNCHANGED <<timers_, activeTimers_, cancelingTimers_>>

(* cancelInLoop: a timer in the queue is deleted; one that is not there    *)
(* may be in the batch being run, so its id is kept until reset().         *)
CancelInLoop(id) ==
  \/ /\ id \in activeTimers_
     /\ timers_' = timers_ \ {<<heap[id[1]].expiration, id[1]>>}
     /\ activeTimers_' = activeTimers_ \ {id}
     /\ heap' = [x \in DOMAIN heap \ {id[1]} |-> heap[x]]
     /\ cancelled' = cancelled \cup {id[2]}
     /\ UNCHANGED cancelingTimers_
  \/ /\ id \notin activeTimers_
     /\ cancelingTimers_' = IF callingExpiredTimers_
                              THEN cancelingTimers_ \cup {id}
                              ELSE cancelingTimers_
     /\ cancelled' = IF InBatch(id) THEN cancelled \cup {id[2]} ELSE cancelled
     /\ UNCHANGED <<timers_, activeTimers_, heap>>

(* What runAt and runEvery pass to addTimer.                               *)
Requests == (Whens \X {0}) \cup {<<now + i, i>> : i \in Intervals}

-----------------------------------------------------------------------------
(* Other threads.                                                          *)

(* addTimer: new Timer, then runInLoop queues addTimerInLoop ...           *)
QueueAddTimer(t, a, r) ==
  /\ adding[t] = NoId
  /\ Len(pendingFunctors_) < MaxPending
  /\ Allocate(a, r[1], r[2])
  /\ pendingFunctors_' = Append(pendingFunctors_, <<"add", a>>)
  /\ adding' = [adding EXCEPT ![t] = <<a, seq_>>]
  /\ UNCHANGED <<now, setVars, cancelingTimers_, batchVars, timerfd,
                 timerActive, ids, cancelled>>

(* ... and timer->sequence() is read after that, when the loop may already *)
(* have run and deleted the timer: whatever the freed memory then holds,   *)
(* the sequence of a timer allocated there since included.                 *)
ReturnTimerId(t) ==
  LET a == adding[t][1]
  IN  /\ adding[t] # NoId
      /\ \E s \in IF a \in DOMAIN heap THEN {heap[a].sequence}
                                       ELSE 0 .. MaxTimers :
           ids' = ids \cup {<<a, s>>}
      /\ adding' = [adding EXCEPT ![t] = NoId]
      /\ UNCHANGED <<now, heap, seq_, setVars, cancelingTimers_, batchVars,
                     timerfd, timerActive, pendingFunctors_, cancelled>>

QueueCancel(t, id) ==
  /\ adding[t] = NoId
  /\ Len(pendingFunctors_) < MaxPending
  /\ pendingFunctors_' = Append(pendingFunctors_, <<"cancel", id>>)
  /\ UNCHANGED <<now, heap, seq_, setVars, cancelingTimers_, batchVars,
                 timerfd, timerActive, adding, ids, cancelled>>

-----------------------------------------------------------------------------
(* The loop's thread, outside handleRead ("idle": in another channel's     *)
(* callback or in a functor) or inside a timer callback.                   *)

MayCall == loopPc \in {"idle", "callback"}

AddTimer(a, r) ==
  /\ MayCall
  /\ Allocate(a, r[1], r[2])
  /\ AddTimerInLoop(a, heap'[a])
  /\ ids' = ids \cup {<<a, seq_>>}
  /\ UNCHANGED <<now, cancelingTimers_, batchVars, timerActive,
                 pendingFunctors_, adding, cancelled>>

Cancel(id) ==
  /\ MayCall
  /\ CancelInLoop(id)
  /\ UNCHANGED <<now, seq_, batchVars, timerfd, timerActive, callVars>>

(* A queued call of another thread; functors run after every active        *)
(* channel has been handled.                                               *)
RunFunctor ==
  /\ loopPc = "idle"
  /\ ~timerActive
  /\ pendingFunctors_ # <<>>
  /\ LET call == Head(pendingFunctors_)
     IN  \/ /\ call[1] = "add"
            /\ AddTimerInLoop(call[2], heap[call[2]])
            /\ UNCHANGED <<heap, cancelingTimers_, cancelled>>
         \/ /\ call[1] = "cancel"
            /\ CancelInLoop(call[2])
            /\ UNCHANGED timerfd
  /\ pendingFunctors_' = Tail(pendingFunctors_)
  /\ UNCHANGED <<now, seq_, batchVars, timerActive, adding, ids>>

PollTimerChannel ==
  /\ loopPc = "idle"
  /\ ~timerActive
  /\ Readable
  /\ timerActive' = TRUE
  /\ UNCHANGED <<now, heap, seq_, setVars, cancelingTimers_, batchVars,
                 timerfd, callVars, cancelled>>

(* handleRead up to the loop over the batch, getExpired included.  A       *)
(* callback of the same poll round may have re-armed the timerfd, and then *)
(* the read finds nothing and leaves it armed.                             *)
HandleRead ==
  LET due == {e \in timers_ : e[1] <= now}
  IN  /\ timerActive
      /\ loopPc = "idle"
      /\ timerActive' = FALSE
      /\ timerfd' = IF Readable THEN Disarmed ELSE timerfd
      /\ handleNow' = now
      /\ expired' = due
      /\ toRun' = due
      /\ timers_' = timers_ \ due
      /\ activeTimers_' = activeTimers_
                            \ {<<e[2], heap[e[2]].sequence>> : e \in due}
      /\ cancelingTimers_' = {}
      /\ callingExpiredTimers_' = TRUE
      /\ loopPc' = "run"
      /\ UNCHANGED <<now, heap, seq_, callVars, cancelled>>

(* it.second->run(), in the order of the set.                              *)
RunTimer(e) ==
  /\ loopPc = "run"
  /\ e \in toRun
  /\ \A o \in toRun : e[1] < o[1] \/ (e[1] = o[1] /\ e[2] <= o[2])
  /\ toRun' = toRun \ {e}
  /\ loopPc' = "callback"
  /\ UNCHANGED <<now, heap, seq_, setVars, cancelingTimers_,
                 callingExpiredTimers_, timerfd, timerActive, handleNow,
                 expired, callVars, cancelled>>

(* Mutation of CallbackReturn: the batch is moved out before its last run. *)
CallbackReturnMovingBatch ==
  /\ loopPc = "callback"
  /\ loopPc' = "run"
  /\ expired' = {}
  /\ UNCHANGED <<now, heap, seq_, setVars, cancelingTimers_,
                 callingExpiredTimers_, timerfd, timerActive, handleNow,
                 toRun, callVars, cancelled>>

CallbackReturn ==
  /\ loopPc = "callback"
  /\ loopPc' = "run"
  /\ UNCHANGED <<now, heap, seq_, setVars, cancelingTimers_,
                 callingExpiredTimers_, timerfd, timerActive, handleNow,
                 expired, toRun, callVars, cancelled>>

(* Mutation of Restarted: cancelingTimers_ is not consulted.               *)
RestartedRegardless == {e[2] : e \in {x \in expired : Repeat(heap[x[2]])}}

(* The members of the batch that reset() puts back.                        *)
Restarted ==
  {e[2] : e \in {x \in expired :
     /\ Repeat(heap[x[2]])
     /\ <<x[2], heap[x[2]].sequence>> \notin cancelingTimers_}}

(* reset(): restart or delete the batch, arm for the earliest timer left.  *)
Reset ==
  LET next(a) == handleNow + heap[a].interval
      gone == {e[2] : e \in expired} \ Restarted
  IN  /\ loopPc = "run"
      /\ toRun = {}
      /\ heap' = [x \in DOMAIN heap \ gone |->
                    IF x \in Restarted
                      THEN [heap[x] EXCEPT !.expiration = next(x)]
                      ELSE heap[x]]
      /\ timers_' = timers_ \cup {<<next(a), a>> : a \in Restarted}
      /\ activeTimers_' = activeTimers_
                            \cup {<<a, heap[a].sequence>> : a \in Restarted}
      /\ \/ timers_' = {} /\ UNCHANGED timerfd
         \/ \E e \in timers_' : /\ \A o \in timers_' : e[1] <= o[1]
                                /\ timerfd' = ArmedFor(e[1])
      /\ callingExpiredTimers_' = FALSE
      /\ expired' = {}
      /\ handleNow' = 0
      /\ loopPc' = "idle"
      /\ UNCHANGED <<now, seq_, cancelingTimers_, timerActive, toRun,
                     callVars, cancelled>>

Tick ==
  /\ now < MaxTime
  /\ now' = now + 1
  /\ UNCHANGED <<heap, seq_, setVars, cancelingTimers_, batchVars, timerfd,
                 timerActive, callVars, cancelled>>

-----------------------------------------------------------------------------
LoopStep ==
  \/ PollTimerChannel
  \/ HandleRead
  \/ \E e \in toRun : RunTimer(e)
  \/ CallbackReturn
  \/ Reset

OwnerCall ==
  \/ \E a \in Addrs, r \in Requests : AddTimer(a, r)
  \/ \E id \in ids : Cancel(id)

ThreadStep(t) ==
  \/ \E a \in Addrs, r \in Requests : QueueAddTimer(t, a, r)
  \/ ReturnTimerId(t)
  \/ \E id \in ids : QueueCancel(t, id)

Next ==
  \/ LoopStep
  \/ RunFunctor
  \/ OwnerCall
  \/ \E t \in Threads : ThreadStep(t)
  \/ Tick

Spec == Init /\ [][Next]_vars

(* The loop's thread is scheduled, epoll_wait reports a readable timerfd,  *)
(* callbacks return, and time passes.                                      *)
FairSpec == Spec /\ WF_vars(LoopStep) /\ WF_vars(Tick)

-----------------------------------------------------------------------------
Batch == {e[2] : e \in expired}
Queued == {e[2] : e \in timers_}
OnTheirWay == {pendingFunctors_[i][2] :
                 i \in {j \in DOMAIN pendingFunctors_ :
                          pendingFunctors_[j][1] = "add"}}

(* timers_ and activeTimers_ hold the same live timers, each filed under   *)
(* its own expiration and its own sequence, through expiry, restart,       *)
(* cancellation from inside and outside callbacks, and reuse of addresses: *)
(* no assert of TimerQueue.cpp fails and no stale pair survives.           *)
SetsAgree ==
  /\ timers_ = {<<heap[a].expiration, a>> : a \in Queued \cap DOMAIN heap}
  /\ activeTimers_ = {<<a, heap[a].sequence>> : a \in Queued \cap DOMAIN heap}

(* Every Timer object has exactly one holder: a queued addTimerInLoop, the *)
(* two sets, or the batch of handleRead.  None is leaked, and no holder    *)
(* points to a deleted one, whatever the callbacks of the batch cancel.    *)
OneHolder ==
  /\ DOMAIN heap = Queued \cup Batch \cup OnTheirWay
  /\ Queued \cap Batch = {}
  /\ Queued \cap OnTheirWay = {}
  /\ Batch \cap OnTheirWay = {}

(* Outside handleRead, while timers are queued, the timerfd is set to fire *)
(* no later than the earliest of them is due (or one unit from now): the   *)
(* shortcut of re-arming only for a new earliest timer, together with      *)
(* cancellations and timers added from callbacks, never leaves it late.    *)
ArmedForEarliest ==
  (loopPc = "idle" /\ ~timerActive) =>
    \A e \in timers_ : /\ timerfd # Disarmed
                       /\ timerfd <= e[1] \/ timerfd <= now + 1

(* A timer that was cancelled while the queue or the running batch held it *)
(* is not queued again, even if it is periodic and cancels itself from its *)
(* own callback.                                                           *)
CancelledStaysOut ==
  \A id \in activeTimers_ : id[2] \notin cancelled

(* A timer that is due by the time the clock stops runs or is cancelled.   *)
DueTimerRuns ==
  \A a \in Addrs, s \in 0 .. MaxTimers - 1 :
    (<<a, s>> \in activeTimers_ /\ heap[a].expiration <= MaxTime)
      ~> <<a, s>> \notin activeTimers_
=============================================================================
