------------------------------ MODULE EventLoop ------------------------------
(***************************************************************************)
(* EventLoop.{h,cpp}: one reactor loop, the thread that owns it, and the   *)
(* other threads that hand it work (queueInLoop) or stop it (quit).        *)
(*                                                                         *)
(* The owner thread's steps are those of EventLoop::loop() and             *)
(* doPendingFunctors(), cut wherever another thread can act in between.    *)
(* pendingFunctors_ is only touched under mutex_, so each critical section *)
(* (the push, the swap) is one step.  quit_ is a plain bool that any       *)
(* thread writes; the makefile builds without optimisation, so each store  *)
(* and each load is one step on the memory word.                           *)
(*                                                                         *)
(* The eventfd is reduced to "readable or not": wakeup() adds 1, and       *)
(* handleRead() reads the whole counter, so its value is never looked at.  *)
(***************************************************************************)
EXTENDS Naturals, Sequences, Functions

CONSTANTS
  Threads,        \* threads other than the owner of the loop
  Functors,       \* tasks; each is queued at most once
  EarlyFunctors   \* the tasks the owner queues while it is not inside loop()

ASSUME EarlyAssumption == EarlyFunctors \subseteq Functors

VARIABLES
  looping_,                \* EventLoop members
  quit_,
  callingPendingFucntors_,
  pendingFunctors_,
  activeChannels_,         \* channels still to be handled
  wakeupFd_,               \* TRUE iff the eventfd is readable
  functors,                \* doPendingFunctors()'s local batch, still to run
  executed,                \* history: functors run so far
  loopPc,                  \* where the owner thread is
  pc                       \* where each other thread is

vars == <<looping_, quit_, callingPendingFucntors_, pendingFunctors_,
          activeChannels_, wakeupFd_, functors, executed, loopPc, pc>>

LoopPcs == {"outside", "starting", "test", "poll", "events", "callback",
            "swap", "run", "functor"}

TypeOK ==
  /\ looping_ \in BOOLEAN
  /\ quit_ \in BOOLEAN
  /\ callingPendingFucntors_ \in BOOLEAN
  /\ pendingFunctors_ \in Seq(Functors)
  /\ activeChannels_ \in SUBSET {"wakeup", "io"}
  /\ wakeupFd_ \in BOOLEAN
  /\ functors \in Seq(Functors)
  /\ executed \in Seq(Functors)
  /\ loopPc \in LoopPcs
  /\ pc \in [Threads -> {"idle", "wakeup"}]

Init ==
  /\ looping_ = FALSE
  /\ quit_ = FALSE
  /\ callingPendingFucntors_ = FALSE
  /\ pendingFunctors_ = <<>>
  /\ activeChannels_ = {}
  /\ wakeupFd_ = FALSE
  /\ functors = <<>>
  /\ executed = <<>>
  /\ loopPc = "outside"
  /\ pc = [t \in Threads |-> "idle"]

-----------------------------------------------------------------------------
(* Everything handed to the loop so far, in order: the batch is always     *)
(* older than the queue.                                                   *)
submitted == executed \o functors \o pendingFunctors_

Fresh(f) == f \notin Range(submitted)

-----------------------------------------------------------------------------
(* The other threads.                                                      *)

(* queueInLoop: push under mutex_, release it, and only then wake the loop *)
(* up.  runInLoop from another thread is the same call.                    *)
QueueInLoop(t, f) ==
  /\ pc[t] = "idle"
  /\ Fresh(f)
  /\ f \notin EarlyFunctors
  /\ pendingFunctors_' = Append(pendingFunctors_, f)
  /\ pc' = [pc EXCEPT ![t] = "wakeup"]
  /\ UNCHANGED <<looping_, quit_, callingPendingFucntors_, activeChannels_,
                 wakeupFd_, functors, executed, loopPc>>

(* Mutation of Quit: the flag alone, without the wakeup.                   *)
QuitWithoutWakeup(t) ==
  /\ pc[t] = "idle"
  /\ quit_' = TRUE
  /\ UNCHANGED <<looping_, callingPendingFucntors_, pendingFunctors_, pc,
                 activeChannels_, wakeupFd_, functors, executed, loopPc>>

(* quit() from another thread: set the flag, then wake the loop up.        *)
Quit(t) ==
  /\ pc[t] = "idle"
  /\ quit_' = TRUE
  /\ pc' = [pc EXCEPT ![t] = "wakeup"]
  /\ UNCHANGED <<looping_, callingPendingFucntors_, pendingFunctors_,
                 activeChannels_, wakeupFd_, functors, executed, loopPc>>

Wakeup(t) ==
  /\ pc[t] = "wakeup"
  /\ wakeupFd_' = TRUE
  /\ pc' = [pc EXCEPT ![t] = "idle"]
  /\ UNCHANGED <<looping_, quit_, callingPendingFucntors_, pendingFunctors_,
                 activeChannels_, functors, executed, loopPc>>

-----------------------------------------------------------------------------
(* Calls the owner thread makes on its own loop: before or after loop(),   *)
(* from the callback of an active channel, or from a functor.  runInLoop   *)
(* calls its argument at once and leaves no trace here.                    *)

OwnerMayCall == loopPc \in {"outside", "callback", "functor"}

(* Mutation of OwnerQueueInLoop: wake up only if "!isInLoopThread()".      *)
OwnerQueueInLoopSilently(f) ==
  /\ OwnerMayCall
  /\ Fresh(f)
  /\ (f \in EarlyFunctors) <=> (loopPc = "outside")
  /\ pendingFunctors_' = Append(pendingFunctors_, f)
  /\ UNCHANGED <<looping_, quit_, callingPendingFucntors_, activeChannels_,
                 wakeupFd_, functors, executed, loopPc, pc>>

(* The eventfd is only read by the owner, so the push and the conditional  *)
(* wakeup of the same call need not be separated.                          *)
OwnerQueueInLoop(f) ==
  /\ OwnerMayCall
  /\ Fresh(f)
  /\ (f \in EarlyFunctors) <=> (loopPc = "outside")
  /\ pendingFunctors_' = Append(pendingFunctors_, f)
  /\ wakeupFd_' = (wakeupFd_ \/ callingPendingFucntors_)
  /\ UNCHANGED <<looping_, quit_, callingPendingFucntors_, activeChannels_,
                 functors, executed, loopPc, pc>>

OwnerQuit ==
  /\ OwnerMayCall
  /\ quit_' = TRUE
  /\ UNCHANGED <<looping_, callingPendingFucntors_, pendingFunctors_,
                 activeChannels_, wakeupFd_, functors, executed, loopPc, pc>>

-----------------------------------------------------------------------------
(* EventLoop::loop().                                                      *)

(* looping_ and quit_ are two stores: another thread's quit() fits between *)
EnterLoop ==
  /\ loopPc = "outside"
  /\ looping_' = TRUE
  /\ loopPc' = "starting"
  /\ UNCHANGED <<quit_, callingPendingFucntors_, pendingFunctors_,
                 activeChannels_, wakeupFd_, functors, executed, pc>>

ResetQuit ==
  /\ loopPc = "starting"
  /\ quit_' = FALSE
  /\ loopPc' = "test"
  /\ UNCHANGED <<looping_, callingPendingFucntors_, pendingFunctors_,
                 activeChannels_, wakeupFd_, functors, executed, pc>>

TestQuit ==
  /\ loopPc = "test"
  /\ \/ /\ quit_
        /\ looping_' = FALSE
        /\ loopPc' = "outside"
        /\ UNCHANGED activeChannels_
     \/ /\ ~quit_
        /\ activeChannels_' = {}
        /\ loopPc' = "poll"
        /\ UNCHANGED looping_
  /\ UNCHANGED <<quit_, callingPendingFucntors_, pendingFunctors_,
                 wakeupFd_, functors, executed, pc>>

(* poll() returns as soon as a registered descriptor is ready: the eventfd *)
(* if it is readable, and any other channel ("io") when its peer says so.  *)
PollReady ==
  /\ loopPc = "poll"
  /\ \E io \in SUBSET {"io"} :
       activeChannels_' = io \cup (IF wakeupFd_ THEN {"wakeup"} ELSE {})
  /\ activeChannels_' # {}
  /\ loopPc' = "events"
  /\ UNCHANGED <<looping_, quit_, callingPendingFucntors_, pendingFunctors_,
                 wakeupFd_, functors, executed, pc>>

(* kPollTimeMs passed, or a signal: no channel is active.                  *)
PollTimeout ==
  /\ loopPc = "poll"
  /\ ~wakeupFd_
  /\ loopPc' = "events"
  /\ UNCHANGED <<looping_, quit_, callingPendingFucntors_, pendingFunctors_,
                 activeChannels_, wakeupFd_, functors, executed, pc>>

(* handleEvent of the wakeup channel is EventLoop::handleRead.             *)
HandleWakeup ==
  /\ loopPc = "events"
  /\ "wakeup" \in activeChannels_
  /\ activeChannels_' = activeChannels_ \ {"wakeup"}
  /\ wakeupFd_' = FALSE
  /\ UNCHANGED <<looping_, quit_, callingPendingFucntors_, pendingFunctors_,
                 functors, executed, loopPc, pc>>

(* handleEvent of any other channel runs a callback of its owner.          *)
HandleIo ==
  /\ loopPc = "events"
  /\ "io" \in activeChannels_
  /\ activeChannels_' = activeChannels_ \ {"io"}
  /\ loopPc' = "callback"
  /\ UNCHANGED <<looping_, quit_, callingPendingFucntors_, pendingFunctors_,
                 wakeupFd_, functors, executed, pc>>

CallbackReturn ==
  /\ loopPc = "callback"
  /\ loopPc' = "events"
  /\ UNCHANGED <<looping_, quit_, callingPendingFucntors_, pendingFunctors_,
                 activeChannels_, wakeupFd_, functors, executed, pc>>

-----------------------------------------------------------------------------
(* EventLoop::doPendingFunctors().                                         *)

DoPendingFunctors ==
  /\ loopPc = "events"
  /\ activeChannels_ = {}
  /\ callingPendingFucntors_' = TRUE
  /\ loopPc' = "swap"
  /\ UNCHANGED <<looping_, quit_, pendingFunctors_, activeChannels_,
                 wakeupFd_, functors, executed, pc>>

(* Mutation of SwapFunctors: the queue is copied, not swapped.             *)
CopyFunctors ==
  /\ loopPc = "swap"
  /\ functors' = pendingFunctors_
  /\ loopPc' = "run"
  /\ UNCHANGED <<looping_, quit_, callingPendingFucntors_, pendingFunctors_,
                 activeChannels_, wakeupFd_, executed, pc>>

(* Mutation of SwapFunctors: the queue becomes one element of the batch.   *)
NestFunctors ==
  /\ loopPc = "swap"
  /\ functors' = <<pendingFunctors_>>
  /\ pendingFunctors_' = <<>>
  /\ loopPc' = "run"
  /\ UNCHANGED <<looping_, quit_, callingPendingFucntors_, activeChannels_,
                 wakeupFd_, executed, pc>>

SwapFunctors ==
  /\ loopPc = "swap"
  /\ functors' = pendingFunctors_
  /\ pendingFunctors_' = <<>>
  /\ loopPc' = "run"
  /\ UNCHANGED <<looping_, quit_, callingPendingFucntors_, activeChannels_,
                 wakeupFd_, executed, pc>>

RunFunctor ==
  /\ loopPc = "run"
  /\ functors # <<>>
  /\ executed' = Append(executed, Head(functors))
  /\ functors' = Tail(functors)
  /\ loopPc' = "functor"
  /\ UNCHANGED <<looping_, quit_, callingPendingFucntors_, pendingFunctors_,
                 activeChannels_, wakeupFd_, pc>>

FunctorReturn ==
  /\ loopPc = "functor"
  /\ loopPc' = "run"
  /\ UNCHANGED <<looping_, quit_, callingPendingFucntors_, pendingFunctors_,
                 activeChannels_, wakeupFd_, functors, executed, pc>>

(* Mutation of FinishFunctors: a set quit_ also ends the batch.            *)
FinishFunctorsOnQuit ==
  /\ loopPc = "run"
  /\ functors = <<>> \/ quit_
  /\ callingPendingFucntors_' = FALSE
  /\ loopPc' = "test"
  /\ UNCHANGED <<looping_, quit_, pendingFunctors_, activeChannels_,
                 wakeupFd_, functors, executed, pc>>

FinishFunctors ==
  /\ loopPc = "run"
  /\ functors = <<>>
  /\ callingPendingFucntors_' = FALSE
  /\ loopPc' = "test"
  /\ UNCHANGED <<looping_, quit_, pendingFunctors_, activeChannels_,
                 wakeupFd_, functors, executed, pc>>

-----------------------------------------------------------------------------
(* The steps the owner takes by itself once it is inside loop().  Waiting  *)
(* for the poll timeout is not among them: see Fairness.                   *)
LoopStep ==
  \/ ResetQuit \/ TestQuit \/ HandleWakeup \/ HandleIo \/ CallbackReturn
  \/ DoPendingFunctors \/ SwapFunctors \/ RunFunctor \/ FunctorReturn
  \/ FinishFunctors

OwnerCall == OwnerQuit \/ \E f \in Functors : OwnerQueueInLoop(f)

ThreadStep(t) == Quit(t) \/ Wakeup(t) \/ \E f \in Functors : QueueInLoop(t, f)

Next ==
  \/ EnterLoop
  \/ LoopStep
  \/ PollReady
  \/ PollTimeout
  \/ OwnerCall
  \/ \E t \in Threads : ThreadStep(t)

Spec == Init /\ [][Next]_vars

(* The scheduler runs the owner thread and lets a thread that is inside    *)
(* queueInLoop or quit finish the call; callbacks and functors return; and *)
(* epoll_wait returns while the eventfd is readable.  Nothing obliges an   *)
(* io channel to become ready, a user to call anything, or (on purpose)    *)
(* the ten-second poll timeout to expire: what is shown to happen happens  *)
(* because of wakeup().                                                    *)
Fairness ==
  /\ WF_vars(LoopStep)
  /\ WF_vars(PollReady /\ wakeupFd_)
  /\ \A t \in Threads : WF_vars(Wakeup(t))

FairSpec == Spec /\ Fairness

-----------------------------------------------------------------------------
(* Some other thread has pushed a functor or set quit_ and still has its   *)
(* write to the eventfd to make.                                           *)
WakeupInFlight == \E t \in Threads : pc[t] = "wakeup"

(* The loop may sleep in poll() only while nobody but the owner itself,    *)
(* before it entered loop(), has left a functor in the queue: otherwise    *)
(* the eventfd is readable or about to be.  This is what                   *)
(* "!isInLoopThread() || callingPendingFucntors_" in queueInLoop is for,   *)
(* with the push and the wakeup outside one critical section.              *)
NoLostWakeup ==
  (loopPc = "poll" /\ \E i \in DOMAIN pendingFunctors_ :
                          pendingFunctors_[i] \notin EarlyFunctors)
    => wakeupFd_ \/ WakeupInFlight

(* A quit() that arrives while the loop is asleep, or falls asleep, wakes  *)
(* it: the loop never sleeps on a set quit_.                               *)
NoLostQuit == (loopPc = "poll" /\ quit_) => wakeupFd_ \/ WakeupInFlight

(* When loop() returns, the iteration it was in is complete: no functor of *)
(* its batch is dropped, no active channel was skipped, and the flag that  *)
(* makes the owner's own queueInLoop calls write to the eventfd is down    *)
(* again ("quit ... completes all the tasks of the current iteration",     *)
(* EventLoop.h:31).                                                        *)
QuitFinishesIteration ==
  ~looping_ => /\ functors = <<>>
               /\ activeChannels_ = {}
               /\ ~callingPendingFucntors_

(* Functors run in the order in which they were accepted, each once, with  *)
(* none lost: the queue, the swap and the batch implement TaskQueue.       *)
TQ == INSTANCE TaskQueue WITH Tasks <- Functors, submitted <- submitted,
                              executed <- executed
ImplementsTaskQueue == TQ!Spec

(* A functor handed over by another thread, or by a callback or functor of *)
(* the loop itself, runs without waiting for the poll timeout, unless the  *)
(* loop is told to quit.                                                   *)
PromptExecution ==
  \A f \in Functors \ EarlyFunctors :
    (loopPc # "outside" /\ f \in Range(pendingFunctors_))
      ~> (f \in Range(executed) \/ quit_ \/ loopPc = "outside")

(* A quit() that lands once loop() has passed its "quit_ = false" ends the *)
(* loop, whichever thread makes it and whatever the loop is doing, again   *)
(* without the poll timeout.                                               *)
QuitStopsLoop ==
  (quit_ /\ loopPc \notin {"outside", "starting"}) ~> loopPc = "outside"
==============================================================================
