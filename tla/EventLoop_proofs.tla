-------------------------- MODULE EventLoop_proofs --------------------------
(***************************************************************************)
(* Theorems about EventLoop, for any number of threads and functors.       *)
(***************************************************************************)
EXTENDS EventLoop, SequenceTheorems, TLAPS

(* Where the owner thread is determines its flags and its local batch.     *)
ControlInv ==
  /\ looping_ = IF loopPc = "outside" THEN FALSE ELSE TRUE
  /\ callingPendingFucntors_ =
       IF loopPc \in {"swap", "run", "functor"} THEN TRUE ELSE FALSE
  /\ loopPc \notin {"events", "callback"} => activeChannels_ = {}
  /\ loopPc \notin {"run", "functor"} => functors = <<>>

LatePending ==
  \E i \in DOMAIN pendingFunctors_ : pendingFunctors_[i] \notin EarlyFunctors

(* From the swap until the next poll() every functor left in the queue has *)
(* a wakeup behind it.  Between poll() and the swap the eventfd may have   *)
(* been read already, and the swap itself takes care of the queue.         *)
WakeupInv ==
  (LatePending /\ loopPc \notin {"events", "callback", "swap"})
    => wakeupFd_ \/ WakeupInFlight

IInv == TypeOK /\ ControlInv /\ WakeupInv /\ NoLostQuit

-----------------------------------------------------------------------------
(* The type invariant holds for any set of threads and functors.           *)
THEOREM TypeCorrect == Spec => []TypeOK
<1>1. Init => TypeOK
  <2>1. <<>> \in Seq(Functors)
    BY EmptySeq
  <2> QED BY <2>1, Zenon DEF Init, TypeOK, LoopPcs
<1>2. TypeOK /\ [Next]_vars => TypeOK'
  <2> SUFFICES ASSUME TypeOK, [Next]_vars
               PROVE  TypeOK'
    OBVIOUS
  <2>. USE DEF TypeOK, LoopPcs
  <2>1. CASE EnterLoop
    BY <2>1 DEF EnterLoop
  <2>2. CASE LoopStep
    <3>1. CASE RunFunctor
      <4>1. Head(functors) \in Functors /\ Tail(functors) \in Seq(Functors)
        BY <3>1, HeadTailProperties DEF RunFunctor
      <4>2. Append(executed, Head(functors)) \in Seq(Functors)
        BY <4>1, AppendProperties
      <4> QED BY <3>1, <4>1, <4>2 DEF RunFunctor
    <3>2. CASE ResetQuit
      BY <3>2 DEF ResetQuit
    <3>3. CASE TestQuit
      BY <3>3 DEF TestQuit
    <3>4. CASE HandleWakeup
      BY <3>4 DEF HandleWakeup
    <3>5. CASE HandleIo
      BY <3>5 DEF HandleIo
    <3>6. CASE CallbackReturn
      BY <3>6 DEF CallbackReturn
    <3>7. CASE DoPendingFunctors
      BY <3>7 DEF DoPendingFunctors
    <3>8. CASE SwapFunctors
      BY <3>8 DEF SwapFunctors
    <3>9. CASE FunctorReturn
      BY <3>9 DEF FunctorReturn
    <3>10. CASE FinishFunctors
      BY <3>10 DEF FinishFunctors
    <3> QED BY <2>2, <3>1, <3>2, <3>3, <3>4, <3>5, <3>6, <3>7, <3>8, <3>9,
               <3>10 DEF LoopStep
  <2>3. CASE PollReady
    BY <2>3 DEF PollReady
  <2>4. CASE PollTimeout
    BY <2>4 DEF PollTimeout
  <2>5. CASE OwnerQuit
    BY <2>5 DEF OwnerQuit
  <2>6. ASSUME NEW f \in Functors, OwnerQueueInLoop(f)
        PROVE  TypeOK'
    <3>1. Append(pendingFunctors_, f) \in Seq(Functors)
      BY AppendProperties
    <3> QED BY <2>6, <3>1 DEF OwnerQueueInLoop
  <2>7. ASSUME NEW t \in Threads, Quit(t)
        PROVE  TypeOK'
    BY <2>7 DEF Quit
  <2>8. ASSUME NEW t \in Threads, Wakeup(t)
        PROVE  TypeOK'
    BY <2>8 DEF Wakeup
  <2>9. ASSUME NEW t \in Threads, NEW f \in Functors, QueueInLoop(t, f)
        PROVE  TypeOK'
    <3>1. Append(pendingFunctors_, f) \in Seq(Functors)
      BY AppendProperties
    <3> QED BY <2>9, <3>1 DEF QueueInLoop
  <2>10. CASE UNCHANGED vars
    BY <2>10 DEF vars
  <2> QED BY <2>1, <2>2, <2>3, <2>4, <2>5, <2>6, <2>7, <2>8, <2>9, <2>10
          DEF Next, OwnerCall, ThreadStep
<1> QED BY <1>1, <1>2, PTL DEF Spec

-----------------------------------------------------------------------------
(* Control and flags move together in every step of the owner, and no      *)
(* other thread touches them.                                              *)
LEMMA ControlInductive ==
  ASSUME TypeOK, ControlInv, [Next]_vars
  PROVE  ControlInv'
<1>. USE DEF TypeOK, LoopPcs, ControlInv
<1>1. CASE EnterLoop
  BY <1>1 DEF EnterLoop
<1>2. CASE LoopStep
  <2>1. CASE ResetQuit \/ TestQuit
    BY <2>1 DEF ResetQuit, TestQuit
  <2>2. CASE HandleWakeup \/ HandleIo \/ CallbackReturn
    BY <2>2 DEF HandleWakeup, HandleIo, CallbackReturn
  <2>3. CASE DoPendingFunctors \/ SwapFunctors
    BY <2>3 DEF DoPendingFunctors, SwapFunctors
  <2>4. CASE RunFunctor \/ FunctorReturn \/ FinishFunctors
    BY <2>4 DEF RunFunctor, FunctorReturn, FinishFunctors
  <2> QED BY <1>2, <2>1, <2>2, <2>3, <2>4 DEF LoopStep
<1>3. CASE PollReady \/ PollTimeout
  BY <1>3 DEF PollReady, PollTimeout
<1>4. CASE OwnerCall
  BY <1>4 DEF OwnerCall, OwnerQuit, OwnerQueueInLoop
<1>5. ASSUME NEW t \in Threads, ThreadStep(t)
      PROVE  ControlInv'
  BY <1>5 DEF ThreadStep, Quit, Wakeup, QueueInLoop
<1>6. CASE UNCHANGED vars
  BY <1>6 DEF vars
<1> QED BY <1>1, <1>2, <1>3, <1>4, <1>5, <1>6 DEF Next

(* A push by another thread leaves that thread about to write the eventfd. *)
LEMMA StartedWakeupIsInFlight ==
  ASSUME TypeOK, NEW t \in Threads, pc' = [pc EXCEPT ![t] = "wakeup"]
  PROVE  WakeupInFlight'
BY DEF TypeOK, WakeupInFlight

(* Steps that keep the queue, the eventfd and every thread's position, and *)
(* stay in the part of the loop WakeupInv speaks of, preserve it.          *)
LEMMA WakeupInductive ==
  ASSUME TypeOK, ControlInv, WakeupInv, [Next]_vars
  PROVE  WakeupInv'
<1>. USE DEF TypeOK, LoopPcs, ControlInv, WakeupInv
<1>0. ASSUME UNCHANGED <<pendingFunctors_, wakeupFd_, pc>>,
             \/ loopPc' = loopPc
             \/ loopPc \notin {"events", "callback", "swap"}
             \/ loopPc' \in {"events", "callback", "swap"}
      PROVE  WakeupInv'
  BY <1>0 DEF LatePending, WakeupInFlight
<1>1. CASE EnterLoop
  BY <1>0, <1>1 DEF EnterLoop
<1>2. CASE LoopStep
  <2>1. CASE HandleWakeup
    BY <2>1 DEF HandleWakeup
  <2>2. CASE SwapFunctors
    BY <2>2 DEF SwapFunctors, LatePending
  <2>3. CASE ResetQuit \/ TestQuit
    BY <1>0, <2>3 DEF ResetQuit, TestQuit
  <2>4. CASE HandleIo \/ CallbackReturn \/ DoPendingFunctors
    BY <1>0, <2>4 DEF HandleIo, CallbackReturn, DoPendingFunctors
  <2>5. CASE RunFunctor \/ FunctorReturn \/ FinishFunctors
    BY <1>0, <2>5 DEF RunFunctor, FunctorReturn, FinishFunctors
  <2> QED BY <1>2, <2>1, <2>2, <2>3, <2>4, <2>5 DEF LoopStep
<1>3. CASE PollReady \/ PollTimeout
  BY <1>0, <1>3 DEF PollReady, PollTimeout
<1>4. CASE OwnerQuit
  BY <1>0, <1>4 DEF OwnerQuit
<1>5. ASSUME NEW f \in Functors, OwnerQueueInLoop(f)
      PROVE  WakeupInv'
  (* Outside loop() the functor is an early one; in a callback the swap is *)
  (* still to come; in a functor the flag makes the call wake the loop.    *)
  <2>1. CASE loopPc = "outside"
    <3>1. \A i \in DOMAIN pendingFunctors_' :
             \/ pendingFunctors_'[i] = f
             \/ i \in DOMAIN pendingFunctors_ /\ pendingFunctors_'[i] = pendingFunctors_[i]
      BY <1>5, AppendProperties DEF OwnerQueueInLoop
    <3>2. LatePending' => LatePending
      BY <1>5, <2>1, <3>1 DEF OwnerQueueInLoop, LatePending
    <3> QED BY <1>5, <2>1, <3>2 DEF OwnerQueueInLoop, WakeupInFlight
  <2>2. CASE loopPc = "callback"
    BY <1>5, <2>2 DEF OwnerQueueInLoop
  <2>3. CASE loopPc = "functor"
    BY <1>5, <2>3 DEF OwnerQueueInLoop
  <2> QED BY <1>5, <2>1, <2>2, <2>3 DEF OwnerQueueInLoop, OwnerMayCall
<1>6. ASSUME NEW t \in Threads, Quit(t)
      PROVE  WakeupInv'
  BY <1>6, StartedWakeupIsInFlight DEF Quit
<1>7. ASSUME NEW t \in Threads, NEW f \in Functors, QueueInLoop(t, f)
      PROVE  WakeupInv'
  BY <1>7, StartedWakeupIsInFlight DEF QueueInLoop
<1>8. ASSUME NEW t \in Threads, Wakeup(t)
      PROVE  WakeupInv'
  BY <1>8 DEF Wakeup
<1>9. CASE UNCHANGED vars
  BY <1>0, <1>9 DEF vars
<1> QED BY <1>1, <1>2, <1>3, <1>4, <1>5, <1>6, <1>7, <1>8, <1>9
        DEF Next, OwnerCall, ThreadStep

(* poll() is entered with quit_ clear, and whoever sets it afterwards is   *)
(* another thread on its way to the eventfd.                               *)
LEMMA QuitInductive ==
  ASSUME TypeOK, NoLostQuit, [Next]_vars
  PROVE  NoLostQuit'
<1>. USE DEF TypeOK, LoopPcs, NoLostQuit
<1>1. CASE EnterLoop \/ PollReady \/ PollTimeout
  BY <1>1 DEF EnterLoop, PollReady, PollTimeout
<1>2. CASE LoopStep
  BY <1>2 DEF LoopStep, ResetQuit, TestQuit, HandleWakeup, HandleIo,
              CallbackReturn, DoPendingFunctors, SwapFunctors, RunFunctor,
              FunctorReturn, FinishFunctors
<1>3. CASE OwnerCall
  BY <1>3 DEF OwnerCall, OwnerQuit, OwnerQueueInLoop, OwnerMayCall
<1>4. ASSUME NEW t \in Threads, Quit(t)
      PROVE  NoLostQuit'
  BY <1>4, StartedWakeupIsInFlight DEF Quit
<1>5. ASSUME NEW t \in Threads, NEW f \in Functors, QueueInLoop(t, f)
      PROVE  NoLostQuit'
  BY <1>5, StartedWakeupIsInFlight DEF QueueInLoop
<1>6. ASSUME NEW t \in Threads, Wakeup(t)
      PROVE  NoLostQuit'
  BY <1>6 DEF Wakeup
<1>7. CASE UNCHANGED vars
  BY <1>7 DEF vars, WakeupInFlight
<1> QED BY <1>1, <1>2, <1>3, <1>4, <1>5, <1>6, <1>7 DEF Next, ThreadStep

(* The inductive invariant holds in every reachable state.                 *)
THEOREM InductiveInvariant == Spec => []IInv
<1>1. Init => ControlInv /\ WakeupInv /\ NoLostQuit
  <2>1. Init => ControlInv
    BY DEF Init, ControlInv
  <2>2. Init => ~LatePending
    BY DEF Init, LatePending
  <2>3. Init => loopPc # "poll"
    BY DEF Init
  <2> QED BY <2>1, <2>2, <2>3 DEF WakeupInv, NoLostQuit
<1>2. TypeOK' /\ IInv /\ [Next]_vars => IInv'
  BY ControlInductive, WakeupInductive, QuitInductive DEF IInv
<1> QED BY <1>1, <1>2, TypeCorrect, PTL DEF Spec, IInv

(* queueInLoop's wakeup protocol: for any number of threads the loop never *)
(* sleeps in poll() on a functor another thread, or the loop itself while  *)
(* running, has queued.                                                    *)
THEOREM WakeupProtocol == Spec => []NoLostWakeup
<1>1. IInv => NoLostWakeup
  BY DEF IInv, WakeupInv, NoLostWakeup, LatePending
<1> QED BY <1>1, InductiveInvariant, PTL

(* quit()'s half of the same protocol.                                     *)
THEOREM QuitProtocol == Spec => []NoLostQuit
<1>1. IInv => NoLostQuit
  BY DEF IInv
<1> QED BY <1>1, InductiveInvariant, PTL

(* Whenever loop() is not running, its last iteration has been completed.  *)
THEOREM IterationCompleted == Spec => []QuitFinishesIteration
<1>1. IInv => QuitFinishesIteration
  BY DEF IInv, ControlInv, QuitFinishesIteration
<1> QED BY <1>1, InductiveInvariant, PTL
-----------------------------------------------------------------------------
(* A push at the back of the queue is a push at the back of everything     *)
(* that was ever submitted.                                                *)
LEMMA PushSubmits ==
  ASSUME TypeOK, NEW f \in Functors,
         pendingFunctors_' = Append(pendingFunctors_, f),
         UNCHANGED <<executed, functors>>
  PROVE  submitted' = Append(submitted, f)
<1>. DEFINE old == executed \o functors
<1>1. /\ executed \in Seq(Functors) /\ functors \in Seq(Functors)
      /\ pendingFunctors_ \in Seq(Functors)
  BY DEF TypeOK
<1>2. old \in Seq(Functors) /\ old \o pendingFunctors_ \in Seq(Functors)
  BY <1>1, ConcatProperties
<1>3. <<f>> \in Seq(Functors)
  OBVIOUS
<1>4. old \o (pendingFunctors_ \o <<f>>) = (old \o pendingFunctors_) \o <<f>>
  BY <1>1, <1>2, <1>3, ConcatAssociative
<1>5. Append(pendingFunctors_, f) = pendingFunctors_ \o <<f>>
  BY <1>1, AppendIsConcat
<1>6. Append(old \o pendingFunctors_, f) = (old \o pendingFunctors_) \o <<f>>
  BY <1>2, AppendIsConcat
<1> QED BY <1>4, <1>5, <1>6 DEF submitted

(* Running the head of the batch runs the oldest task not yet executed.    *)
LEMMA RunExecutesOldest ==
  ASSUME TypeOK, functors # <<>>,
         executed' = Append(executed, Head(functors)),
         functors' = Tail(functors),
         UNCHANGED pendingFunctors_
  PROVE  /\ submitted' = submitted
         /\ Len(executed) < Len(submitted)
         /\ Head(functors) = submitted[Len(executed) + 1]
<1>. DEFINE old == executed \o functors
<1>1. /\ executed \in Seq(Functors) /\ functors \in Seq(Functors)
      /\ pendingFunctors_ \in Seq(Functors)
  BY DEF TypeOK
<1>2. /\ Len(executed) \in Nat /\ Len(pendingFunctors_) \in Nat
      /\ Len(functors) \in Nat \ {0}
  BY <1>1, EmptySeq, LenProperties
<1>3. /\ Head(functors) \in Functors
      /\ Tail(functors) \in Seq(Functors)
      /\ functors = <<Head(functors)>> \o Tail(functors)
  <2>1. /\ Head(functors) \in Functors /\ Tail(functors) \in Seq(Functors)
        /\ Len(Tail(functors)) = Len(functors) - 1
        /\ \A i \in 1 .. Len(Tail(functors)) : Tail(functors)[i] = functors[i+1]
    BY <1>1, HeadTailProperties
  <2>. DEFINE h == <<Head(functors)>>
  <2>2. h \in Seq(Functors) /\ Len(h) = 1 /\ h[1] = functors[1]
    BY <1>1, <1>2, <2>1
  <2>3. /\ h \o Tail(functors) \in Seq(Functors)
        /\ Len(h \o Tail(functors)) = Len(h) + Len(Tail(functors))
        /\ \A i \in 1 .. Len(h) + Len(Tail(functors)) :
             (h \o Tail(functors))[i]
               = IF i <= Len(h) THEN h[i] ELSE Tail(functors)[i - Len(h)]
    BY <2>1, <2>2, ConcatProperties
  <2>4. Len(h \o Tail(functors)) = Len(functors)
    BY <1>2, <2>1, <2>2, <2>3
  <2>5. ASSUME NEW i \in 1 .. Len(functors)
        PROVE  (h \o Tail(functors))[i] = functors[i]
    <3>1. CASE i = 1
      BY <1>2, <2>1, <2>2, <2>3, <3>1
    <3>2. CASE i # 1
      <4>1. i - 1 \in 1 .. Len(Tail(functors)) /\ (i - 1) + 1 = i
        BY <1>2, <2>1, <3>2
      <4>2. (h \o Tail(functors))[i] = Tail(functors)[i - 1]
        BY <1>2, <2>1, <2>2, <2>3, <3>2
      <4> QED BY <2>1, <4>1, <4>2
    <3> QED BY <3>1, <3>2
  <2>. HIDE DEF h
  <2>6. functors = h \o Tail(functors)
    BY <1>1, <2>3, <2>4, <2>5, SeqEqual
  <2> QED BY <2>1, <2>6 DEF h
<1>4. submitted' = submitted
  <2>1. <<Head(functors)>> \in Seq(Functors)
    BY <1>3
  <2>2. executed \o (<<Head(functors)>> \o Tail(functors))
           = (executed \o <<Head(functors)>>) \o Tail(functors)
    BY <1>1, <1>3, <2>1, ConcatAssociative
  <2>3. Append(executed, Head(functors)) = executed \o <<Head(functors)>>
    BY <1>1, <1>3, AppendIsConcat
  <2>4. executed' \o functors' = executed \o functors
    BY <1>3, <2>2, <2>3
  <2> QED BY <2>4 DEF submitted
<1>5. /\ old \in Seq(Functors) /\ Len(old) = Len(executed) + Len(functors)
      /\ \A i \in 1 .. Len(executed) + Len(functors) :
           old[i] = IF i <= Len(executed) THEN executed[i]
                                          ELSE functors[i - Len(executed)]
  BY <1>1, ConcatProperties
<1>6. /\ Len(old \o pendingFunctors_) = Len(old) + Len(pendingFunctors_)
      /\ \A i \in 1 .. Len(old) + Len(pendingFunctors_) :
           (old \o pendingFunctors_)[i]
             = IF i <= Len(old) THEN old[i] ELSE pendingFunctors_[i - Len(old)]
  BY <1>1, <1>5, ConcatProperties
<1>7. Head(functors) = functors[1]
  BY <1>1
<1>8. Len(executed) < Len(old \o pendingFunctors_)
  BY <1>2, <1>5, <1>6
<1>. HIDE DEF old
<1>9. (old \o pendingFunctors_)[Len(executed) + 1] = functors[1]
  <2>1. (old \o pendingFunctors_)[Len(executed) + 1] = old[Len(executed) + 1]
    BY <1>2, <1>5, <1>6
  <2>2. old[Len(executed) + 1] = functors[(Len(executed) + 1) - Len(executed)]
    BY <1>2, <1>5
  <2>3. (Len(executed) + 1) - Len(executed) = 1
    BY <1>2
  <2> QED BY <2>1, <2>2, <2>3
<1> QED BY <1>4, <1>7, <1>8, <1>9 DEF submitted, old

(* The loop's steps are TaskQueue's: a push is Submit, running a functor   *)
(* is Execute, everything else (the swap included) changes neither         *)
(* sequence.                                                               *)
LEMMA StepImplementsTaskQueue ==
  ASSUME TypeOK, ControlInv, [Next]_vars
  PROVE  [TQ!Next]_TQ!vars
<1>0. ASSUME UNCHANGED <<executed, functors, pendingFunctors_>>
      PROVE  UNCHANGED TQ!vars
  BY <1>0 DEF TQ!vars, submitted
<1>1. CASE EnterLoop \/ PollReady \/ PollTimeout \/ OwnerQuit
  BY <1>0, <1>1 DEF EnterLoop, PollReady, PollTimeout, OwnerQuit
<1>2. CASE LoopStep
  <2>1. CASE RunFunctor
    BY <2>1, RunExecutesOldest DEF RunFunctor, TQ!Next, TQ!Execute
  <2>2. CASE SwapFunctors
    <3>1. functors = <<>> /\ pendingFunctors_ \in Seq(Functors)
          /\ executed \in Seq(Functors)
      BY <2>2 DEF SwapFunctors, ControlInv, TypeOK
    <3>2. /\ executed \o <<>> = executed
          /\ (executed \o pendingFunctors_) \o <<>> = executed \o pendingFunctors_
      BY <3>1, ConcatProperties, ConcatEmptySeq
    <3> QED BY <2>2, <3>1, <3>2 DEF SwapFunctors, TQ!vars, submitted
  <2>3. CASE ResetQuit \/ TestQuit \/ HandleWakeup \/ HandleIo
    BY <1>0, <2>3 DEF ResetQuit, TestQuit, HandleWakeup, HandleIo
  <2>4. CASE CallbackReturn \/ DoPendingFunctors \/ FunctorReturn
             \/ FinishFunctors
    BY <1>0, <2>4 DEF CallbackReturn, DoPendingFunctors, FunctorReturn,
                      FinishFunctors
  <2> QED BY <1>2, <2>1, <2>2, <2>3, <2>4 DEF LoopStep
<1>3. ASSUME NEW f \in Functors, OwnerQueueInLoop(f)
      PROVE  TQ!Submit(f)
  BY <1>3, PushSubmits DEF OwnerQueueInLoop, Fresh, Range,
                          TQ!Submit, TQ!Range
<1>4. ASSUME NEW t \in Threads, NEW f \in Functors, QueueInLoop(t, f)
      PROVE  TQ!Submit(f)
  BY <1>4, PushSubmits DEF QueueInLoop, Fresh, Range,
                          TQ!Submit, TQ!Range
<1>5. ASSUME NEW t \in Threads, Quit(t) \/ Wakeup(t)
      PROVE  UNCHANGED TQ!vars
  BY <1>0, <1>5 DEF Quit, Wakeup
<1>6. CASE UNCHANGED vars
  BY <1>0, <1>6 DEF vars
<1> QED BY <1>1, <1>2, <1>3, <1>4, <1>5, <1>6
        DEF Next, OwnerCall, ThreadStep, TQ!Next

(* Any number of threads may queue functors: they are executed in the      *)
(* order in which they were accepted, none lost and none twice.            *)
THEOREM TaskQueueImplemented == Spec => ImplementsTaskQueue
<1>1. Init => TQ!Init
  <2>1. <<>> \in Seq(Functors)
    BY EmptySeq
  <2>2. <<>> \o <<>> = <<>>
    BY <2>1, ConcatEmptySeq
  <2> QED BY <2>2 DEF Init, TQ!Init, submitted
<1>2. TypeOK /\ ControlInv /\ [Next]_vars => [TQ!Next]_TQ!vars
  BY StepImplementsTaskQueue
<1> QED BY <1>1, <1>2, InductiveInvariant, PTL
        DEF Spec, ImplementsTaskQueue, TQ!Spec, IInv
==============================================================================
