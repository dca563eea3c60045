---------------------- MODULE EventLoopThreadPool_proofs ----------------------
(***************************************************************************)
(* Theorems about EventLoopThreadPool, for any number of threads and of    *)
(* connections.                                                            *)
(***************************************************************************)
EXTENDS EventLoopThreadPool, TLAPS

Starting == {"read", "lock", "test", "asleep", "return"}
Stopping == {"quit", "wakeup", "join"}
Published == {"unlock", "enter", "loop", "ended"}

(* Where the base thread is says how many loops it has stored, and startLoop *)
(* is about to return only when loop_ is set.                                *)
BaseInv ==
  /\ pc = "stopped" => current = 0
  /\ pc \in Starting \cup Stopping => current \in Threads
  /\ Len(loops_) = IF pc = "stopped" THEN 0
                   ELSE IF pc \in Starting THEN current - 1 ELSE numThreads_
  /\ \A i \in DOMAIN loops_ : loops_[i] = i /\ loop_[i] = "set"
  /\ pc = "return" => loop_[current] = "set"

(* What the base thread can tell of each thread: whether it exists, and,   *)
(* from the shared variables, how far it has got.                          *)
ThreadInv(t) ==
  /\ threadPc[t] = "none" <=> pc \in Starting \cup {"stopped"} /\ t > current
  /\ loop_[t] = "set" <=> threadPc[t] \in Published
  /\ mutex_[t] = "thread" <=> threadPc[t] \in {"publish", "unlock"}
  /\ mutex_[t] = "base" <=> pc = "test" /\ current = t
  /\ threadPc[t] = "ended" => quit_[t]
  /\ quit_[t] => pc \in Stopping \cup {"destroyed", "crashed"}
  /\ pc = "destroyed" \/ (pc \in Stopping /\ t < current) => threadPc[t] = "ended"

(* The loops before next_ have been handed one connection more.            *)
SharesInv ==
  /\ next_ < numThreads_ \/ next_ = 0
  /\ \E base \in Nat :
       \A t \in Threads : conns[t] = IF t <= next_ THEN base + 1 ELSE base

HandshakeInv == BaseInv /\ \A t \in Threads : ThreadInv(t)
IInv == TypeOK /\ HandshakeInv /\ SharesInv

-----------------------------------------------------------------------------
(* start() creates the next thread, or returns, once the loops of all      *)
(* those it has created are stored.                                        *)
LEMMA StartNextKeepsHandshake ==
  ASSUME TypeOK, HandshakeInv, StartNext,
         pc \in {"stopped", "return"},
         Len(loops_') = current, loops_' \in Seq(0 .. numThreads_),
         \A i \in DOMAIN loops_' : loops_'[i] = i /\ loop_[i] = "set",
         UNCHANGED <<handshakeVars, next_, conns, flagVars>>
  PROVE  TypeOK' /\ HandshakeInv'
<1>. USE PoolAssumption DEF Threads, Starting, Stopping, Published, handshakeVars,
         flagVars
<1>1. CASE current < numThreads_
  <2>1. /\ pc' = "read" /\ current' = current + 1
        /\ current + 1 \in Threads
        /\ threadPc' = [threadPc EXCEPT ![current + 1] = "lock"]
        /\ threadPc[current + 1] = "none"
    BY <1>1 DEF StartNext, ThreadGoes, TypeOK
  <2>2. TypeOK'
    BY <2>1 DEF TypeOK
  <2>3. BaseInv'
    BY <2>1 DEF BaseInv, TypeOK
  <2>4. ASSUME NEW t \in Threads
        PROVE  ThreadInv(t)'
    <3>1. ThreadInv(t) /\ current \in 0 .. numThreads_
      BY DEF HandshakeInv, TypeOK
    <3>2. CASE t = current + 1
      BY <2>1, <3>1, <3>2 DEF ThreadInv, TypeOK
    <3>3. CASE t # current + 1
      <4>1. threadPc'[t] = threadPc[t]
        BY <2>1, <3>3 DEF TypeOK
      <4>2. t > current' <=> t > current
        BY <2>1, <3>1, <3>3
      <4> QED BY <2>1, <3>1, <4>1, <4>2 DEF ThreadInv
    <3> QED BY <3>2, <3>3
  <2> QED BY <2>2, <2>3, <2>4 DEF HandshakeInv
<1>2. CASE current = numThreads_
  <2>1. pc' = "serving" /\ UNCHANGED <<current, threadPc>>
    BY <1>2 DEF StartNext
  <2>2. TypeOK'
    BY <2>1 DEF TypeOK
  <2>3. BaseInv'
    BY <1>2, <2>1 DEF BaseInv, TypeOK
  <2>4. \A t \in Threads : ThreadInv(t)'
    BY <1>2, <2>1 DEF ThreadInv, HandshakeInv, TypeOK
  <2> QED BY <2>2, <2>3, <2>4 DEF HandshakeInv
<1> QED BY <1>1, <1>2 DEF StartNext

(* Storing the pointer that startLoop returns.                             *)
LEMMA ReturnLoopKeepsHandshake ==
  ASSUME TypeOK, HandshakeInv, ReturnLoop
  PROVE  TypeOK' /\ HandshakeInv'
<1>1. /\ current \in 1 .. numThreads_
      /\ loop_[current] = "set"
      /\ Len(loops_) = current - 1
      /\ \A i \in DOMAIN loops_ : loops_[i] = i /\ loop_[i] = "set"
  BY DEF HandshakeInv, BaseInv, ReturnLoop, Starting, Threads
<1>2. loops_' = Append(loops_, current) /\ loops_ \in Seq(0 .. numThreads_)
  BY <1>1 DEF ReturnLoop, TypeOK
<1>3. /\ loops_' \in Seq(0 .. numThreads_)
      /\ Len(loops_') = current
      /\ \A i \in DOMAIN loops_' : loops_'[i] = i /\ loop_[i] = "set"
  BY <1>1, <1>2
<1> QED BY <1>3, StartNextKeepsHandshake DEF ReturnLoop

(* The base thread's other steps of startLoop.                             *)
LEMMA StartLoopKeepsHandshake ==
  ASSUME TypeOK, HandshakeInv,
         Start \/ ReadLoop \/ BaseLock \/ TestLoop \/ WakeSpuriously
  PROVE  TypeOK' /\ HandshakeInv'
<1>. USE DEF BaseGoes, handshakeVars, poolVars, flagVars, Starting, Stopping, Published
<1>1. CASE Start
  BY <1>1, StartNextKeepsHandshake DEF Start, HandshakeInv, BaseInv, TypeOK
<1>2. CASE ReadLoop \/ WakeSpuriously
  BY <1>2 DEF ReadLoop, WakeSpuriously, TypeOK, HandshakeInv, BaseInv, ThreadInv
<1>3. CASE BaseLock
  BY <1>3 DEF BaseLock, TypeOK, HandshakeInv, BaseInv, ThreadInv
<1>4. CASE TestLoop
  BY <1>4 DEF TestLoop, TypeOK, HandshakeInv, BaseInv, ThreadInv
<1> QED BY <1>1, <1>2, <1>3, <1>4

(* The steps of a thread.                                                  *)
LEMMA ThreadKeepsHandshake ==
  ASSUME TypeOK, HandshakeInv, NEW t \in Threads, ThreadStep(t)
  PROVE  TypeOK' /\ HandshakeInv'
<1>. USE DEF ThreadGoes, handshakeVars, poolVars, flagVars, Starting, Stopping, Published
<1>1. CASE ThreadLock(t)
  BY <1>1 DEF ThreadLock, TypeOK, HandshakeInv, BaseInv, ThreadInv
<1>2. CASE Publish(t)
  BY <1>2 DEF Publish, TypeOK, HandshakeInv, BaseInv, ThreadInv
<1>3. CASE ThreadUnlock(t)
  BY <1>3 DEF ThreadUnlock, TypeOK, HandshakeInv, BaseInv, ThreadInv
<1>4. CASE EnterLoop(t)
  BY <1>4 DEF EnterLoop, TypeOK, HandshakeInv, BaseInv, ThreadInv
<1>5. CASE LeaveLoop(t)
  BY <1>5 DEF LeaveLoop, TypeOK, HandshakeInv, BaseInv, ThreadInv
<1> QED BY <1>1, <1>2, <1>3, <1>4, <1>5 DEF ThreadStep

(* The destructor.                                                         *)
LEMMA TeardownKeepsHandshake ==
  ASSUME TypeOK, HandshakeInv, Destroy \/ Teardown
  PROVE  TypeOK' /\ HandshakeInv'
<1>. USE PoolAssumption DEF BaseGoes, handshakeVars, poolVars, flagVars, Starting,
         Stopping, Published, Threads
<1>1. CASE Destroy
  BY <1>1 DEF Destroy, DestroyNext, TypeOK, HandshakeInv, BaseInv, ThreadInv
<1>2. CASE SetQuit
  BY <1>2 DEF SetQuit, TypeOK, HandshakeInv, BaseInv, ThreadInv
<1>3. CASE Wakeup
  BY <1>3 DEF Wakeup, TypeOK, HandshakeInv, BaseInv, ThreadInv
<1>4. CASE Join
  BY <1>4 DEF Join, DestroyNext, TypeOK, HandshakeInv, BaseInv, ThreadInv
<1> QED BY <1>1, <1>2, <1>3, <1>4 DEF Teardown

-----------------------------------------------------------------------------
(* getNextLoop hands out the loop at next_, of a pool that has all its     *)
(* loops in their order.                                                   *)
LEMMA GetNextLoopKeepsInv ==
  ASSUME IInv, GetNextLoop
  PROVE  IInv'
<1>. USE PoolAssumption DEF Threads
<1>1. /\ pc = "serving"
      /\ UNCHANGED <<pc, current, threadPc, mutex_, loop_, loops_, quit_, quitLost>>
      /\ conns' = [conns EXCEPT ![loops_[next_ + 1]] = @ + 1]
      /\ next_' = IF next_ + 1 >= numThreads_ THEN 0 ELSE next_ + 1
      /\ loops_ # <<>> /\ Len(loops_) = numThreads_
      /\ \A t \in Threads : conns[t] < MaxConns
  BY DEF GetNextLoop, Handed, handshakeVars, flagVars, IInv, HandshakeInv, BaseInv,
         Starting
<1>2. next_ \in Nat /\ numThreads_ > 0 /\ next_ < numThreads_
  BY <1>1 DEF IInv, TypeOK, SharesInv
<1>3. next_ + 1 \in Threads /\ loops_[next_ + 1] = next_ + 1
  <2>1. DOMAIN loops_ = 1 .. numThreads_
    BY <1>1 DEF IInv, TypeOK
  <2> QED BY <1>2, <2>1 DEF IInv, HandshakeInv, BaseInv
<1>4. conns' = [conns EXCEPT ![next_ + 1] = @ + 1]
  BY <1>1, <1>3
<1>5. TypeOK'
  BY <1>1, <1>2, <1>3, <1>4 DEF IInv, TypeOK
<1>6. HandshakeInv'
  BY <1>1 DEF IInv, HandshakeInv, BaseInv, ThreadInv
<1>7. SharesInv'
  <2>1. PICK base \in Nat :
          \A t \in Threads : conns[t] = IF t <= next_ THEN base + 1 ELSE base
    BY DEF IInv, SharesInv
  <2>2. \A t \in Threads : conns'[t] = IF t <= next_ + 1 THEN base + 1 ELSE base
    BY <1>2, <1>3, <1>4, <2>1 DEF IInv, TypeOK
  <2>3. CASE next_ + 1 >= numThreads_
    <3>1. next_' = 0
      BY <1>1, <2>3
    <3>2. \A t \in Threads : conns'[t] = IF t <= next_' THEN (base + 1) + 1 ELSE base + 1
      BY <1>2, <2>2, <2>3, <3>1
    <3>3. base + 1 \in Nat
      OBVIOUS
    <3> QED BY <3>1, <3>2, <3>3 DEF SharesInv
  <2>4. CASE next_ + 1 < numThreads_
    BY <1>1, <1>2, <2>2, <2>4 DEF SharesInv
  <2> QED BY <1>2, <2>3, <2>4
<1> QED BY <1>5, <1>6, <1>7 DEF IInv

(* Typing, the handshake and the shares together are inductive, for any    *)
(* number of threads.                                                      *)
THEOREM InductiveInvariant == Spec => []IInv
<1>1. Init => IInv
  <2> SUFFICES ASSUME Init
               PROVE  IInv
    OBVIOUS
  <2>1. TypeOK
    <3>1. loops_ \in Seq(0 .. numThreads_)
      BY DEF Init
    <3>2. 0 \in 0 .. numThreads_ /\ 0 \in 0 .. MaxConns
      BY PoolAssumption
    <3> QED BY <3>1, <3>2 DEF Init, TypeOK
  <2>2. HandshakeInv
    BY PoolAssumption DEF Init, HandshakeInv, BaseInv, ThreadInv, Threads, Starting,
       Stopping, Published
  <2>3. SharesInv
    <3>1. \A t \in Threads : conns[t] = IF t <= next_ THEN 0 + 1 ELSE 0
      BY DEF Init, Threads
    <3> QED BY <3>1 DEF Init, SharesInv
  <2> QED BY <2>1, <2>2, <2>3 DEF IInv
<1>2. IInv /\ [Next]_vars => IInv'
  <2> SUFFICES ASSUME IInv, [Next]_vars
               PROVE  IInv'
    OBVIOUS
  <2>1. CASE GetNextLoop
    BY <2>1, GetNextLoopKeepsInv
  <2>2. CASE ~GetNextLoop
    <3>1. UNCHANGED <<next_, conns>>
      BY <2>2 DEF Next, vars, poolVars, Startup, Start, ReadLoop, BaseLock, TestLoop,
         ReturnLoop, WakeSpuriously, Destroy, Teardown, SetQuit, Wakeup, Join,
         ThreadStep, ThreadLock, Publish, ThreadUnlock, EnterLoop, LeaveLoop
    <3>2. SharesInv'
      BY <3>1 DEF IInv, SharesInv
    <3>3. CASE Startup \/ WakeSpuriously
      BY <3>2, <3>3, StartLoopKeepsHandshake, ReturnLoopKeepsHandshake
         DEF Startup, IInv
    <3>4. CASE Destroy \/ Teardown
      BY <3>2, <3>4, TeardownKeepsHandshake DEF IInv
    <3>5. ASSUME NEW t \in Threads, ThreadStep(t)
          PROVE  IInv'
      BY <3>2, <3>5, ThreadKeepsHandshake DEF IInv
    <3>6. CASE UNCHANGED vars
      BY <3>2, <3>6 DEF vars, handshakeVars, poolVars, flagVars, IInv, TypeOK,
         HandshakeInv, BaseInv, ThreadInv
    <3> QED BY <2>2, <3>3, <3>4, <3>5, <3>6 DEF Next
  <2> QED BY <2>1, <2>2
<1> QED BY <1>1, <1>2, PTL DEF Spec

(* The pool keeps its types; loops_ holds threads of the pool only.        *)
THEOREM TypeCorrect == Spec => []TypeOK
<1>1. IInv => TypeOK
  BY DEF IInv
<1> QED BY <1>1, InductiveInvariant, PTL

(* startLoop never returns a null pointer, the pool's pointers are those   *)
(* of its own threads in their order, each loop lives until the destructor *)
(* has told it to quit, and the destructor leaves no thread behind.        *)
THEOREM PointersLive == Spec => []LoopsAreLive
<1>1. IInv => LoopsAreLive
  BY PoolAssumption DEF IInv, LoopsAreLive, HandshakeInv, BaseInv, ThreadInv, TypeOK,
     Threads, Starting, Stopping, Published
<1> QED BY <1>1, InductiveInvariant, PTL

(* getNextLoop is fair to within one connection, however many there are.   *)
THEOREM SharesAreFair == Spec => []FairShare
<1>1. IInv => FairShare
  BY DEF IInv, SharesInv, FairShare, TypeOK, Threads
<1> QED BY <1>1, InductiveInvariant, PTL
==============================================================================
