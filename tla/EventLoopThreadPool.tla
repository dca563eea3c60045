------------------------- MODULE EventLoopThreadPool -------------------------
(***************************************************************************)
(* EventLoopThreadPool.{h,cpp} and EventLoopThread.{h,cpp}, with the parts *)
(* of Thread, of EventLoop and of TcpServer that start and end them.  The  *)
(* base thread starts the threads one after the other, each by a handshake *)
(* under the thread's mutex, hands their loops out to connections, and in  *)
(* the destructor tells each loop to quit and joins its thread.            *)
(*                                                                         *)
(* loop_ is a pointer to a local of threadFunc, read by the base thread    *)
(* without the mutex.  EventLoop::loop() is reduced to what meets quit():  *)
(* the flag that it resets on entry and tests (see EventLoop).             *)
(***************************************************************************)
EXTENDS Naturals, Sequences

CONSTANTS
  numThreads_,  \* setThreadNum
  MaxConns      \* bound: connections the pool is asked for a loop

ASSUME PoolAssumption == numThreads_ \in Nat /\ MaxConns \in Nat

Threads == 1 .. numThreads_

VARIABLES
  pc,         \* where the base thread is
  current,    \* the EventLoopThread it is starting or destroying
  mutex_,     \* who holds EventLoopThread::mutex_: "free", "base", "thread"
  loop_,      \* EventLoopThread::loop_: "null" or "set"
  threadPc,   \* where each thread is in threadFunc and loop()
  quit_,      \* EventLoop::quit_ of the thread's loop
  loops_,     \* EventLoopThreadPool::loops_: threads, or 0 for a null pointer
  next_,
  conns,      \* connections handed to each loop
  quitLost    \* loop() has overwritten a quit()

handshakeVars == <<mutex_, loop_>>
poolVars == <<loops_, next_, conns>>
flagVars == <<quit_, quitLost>>
vars == <<pc, current, threadPc, handshakeVars, poolVars, flagVars>>

TypeOK ==
  /\ pc \in {"stopped", "read", "lock", "test", "asleep", "return", "serving",
              "quit", "wakeup", "join", "destroyed", "crashed"}
  /\ current \in 0 .. numThreads_
  /\ mutex_ \in [Threads -> {"free", "base", "thread"}]
  /\ loop_ \in [Threads -> {"null", "set"}]
  /\ threadPc \in [Threads -> {"none", "lock", "publish", "unlock", "enter",
                               "loop", "ended"}]
  /\ quit_ \in [Threads -> BOOLEAN]
  /\ loops_ \in Seq(0 .. numThreads_)
  /\ next_ \in 0 .. numThreads_
  /\ conns \in [Threads -> 0 .. MaxConns]
  /\ quitLost \in BOOLEAN

Init ==
  /\ pc = "stopped"
  /\ current = 0
  /\ mutex_ = [t \in Threads |-> "free"]
  /\ loop_ = [t \in Threads |-> "null"]
  /\ threadPc = [t \in Threads |-> "none"]
  /\ quit_ = [t \in Threads |-> FALSE]
  /\ loops_ = <<>>
  /\ next_ = 0
  /\ conns = [t \in Threads |-> 0]
  /\ quitLost = FALSE

BaseGoes(from, to) == pc = from /\ pc' = to

ThreadGoes(t, from, to) ==
  /\ threadPc[t] = from
  /\ threadPc' = [threadPc EXCEPT ![t] = to]

-----------------------------------------------------------------------------
(* EventLoopThreadPool::start and EventLoopThread::startLoop.              *)

(* A turn of start()'s for loop: a new EventLoopThread, whose startLoop    *)
(* creates the thread; or start() returns.                                 *)
StartNext ==
  \/ /\ current < numThreads_
     /\ current' = current + 1
     /\ ThreadGoes(current + 1, "none", "lock")
     /\ pc' = "read"
  \/ /\ current = numThreads_
     /\ pc' = "serving"
     /\ UNCHANGED <<current, threadPc>>

Start ==
  /\ pc = "stopped"
  /\ StartNext
  /\ UNCHANGED <<handshakeVars, poolVars, flagVars>>

(* The first look at loop_ is not under the mutex.                         *)
ReadLoop ==
  /\ BaseGoes("read", IF loop_[current] = "null" THEN "lock" ELSE "return")
  /\ UNCHANGED <<current, threadPc, handshakeVars, poolVars, flagVars>>

BaseLock ==
  /\ BaseGoes("lock", "test")
  /\ mutex_[current] = "free"
  /\ mutex_' = [mutex_ EXCEPT ![current] = "base"]
  /\ UNCHANGED <<current, threadPc, loop_, poolVars, flagVars>>

(* Mutation of TestLoop: wait() without its predicate.                     *)
WaitBlindly ==
  /\ BaseGoes("test", "asleep")
  /\ mutex_' = [mutex_ EXCEPT ![current] = "free"]
  /\ UNCHANGED <<current, threadPc, loop_, poolVars, flagVars>>

(* cond_.wait tests its predicate and releases the mutex, to sleep or to   *)
(* leave.                                                                  *)
TestLoop ==
  /\ BaseGoes("test", IF loop_[current] = "null" THEN "asleep" ELSE "return")
  /\ mutex_' = [mutex_ EXCEPT ![current] = "free"]
  /\ UNCHANGED <<current, threadPc, loop_, poolVars, flagVars>>

(* Mutation of WakeSpuriously: the predicate is not tested again.          *)
ReturnSpuriously ==
  /\ BaseGoes("asleep", "return")
  /\ UNCHANGED <<current, threadPc, handshakeVars, poolVars, flagVars>>

(* wait() may wake up without a notification.                              *)
WakeSpuriously ==
  /\ BaseGoes("asleep", "lock")
  /\ UNCHANGED <<current, threadPc, handshakeVars, poolVars, flagVars>>

(* startLoop returns loop_, and start() keeps it and goes on.              *)
ReturnLoop ==
  /\ pc = "return"
  /\ loops_' = Append(loops_, IF loop_[current] = "null" THEN 0 ELSE current)
  /\ StartNext
  /\ UNCHANGED <<handshakeVars, next_, conns, flagVars>>

-----------------------------------------------------------------------------
(* EventLoopThread::threadFunc, from the construction of the EventLoop on. *)

ThreadLock(t) ==
  /\ ThreadGoes(t, "lock", "publish")
  /\ mutex_[t] = "free"
  /\ mutex_' = [mutex_ EXCEPT ![t] = "thread"]
  /\ UNCHANGED <<pc, current, loop_, poolVars, flagVars>>

(* loop_ is set, and the base thread notified if it sleeps.                *)
Publish(t) ==
  /\ ThreadGoes(t, "publish", "unlock")
  /\ loop_' = [loop_ EXCEPT ![t] = "set"]
  /\ pc' = IF pc = "asleep" /\ current = t THEN "lock" ELSE pc
  /\ UNCHANGED <<current, mutex_, poolVars, flagVars>>

ThreadUnlock(t) ==
  /\ ThreadGoes(t, "unlock", "enter")
  /\ mutex_' = [mutex_ EXCEPT ![t] = "free"]
  /\ UNCHANGED <<pc, current, loop_, poolVars, flagVars>>

(* loop() resets quit_, whoever has set it.                                *)
EnterLoop(t) ==
  /\ ThreadGoes(t, "enter", "loop")
  /\ quit_' = [quit_ EXCEPT ![t] = FALSE]
  /\ quitLost' = (quitLost \/ quit_[t])
  /\ UNCHANGED <<pc, current, handshakeVars, poolVars>>

(* loop() sees quit_ and returns, and threadFunc destroys its EventLoop.   *)
LeaveLoop(t) ==
  /\ ThreadGoes(t, "loop", "ended")
  /\ quit_[t]
  /\ UNCHANGED <<pc, current, handshakeVars, poolVars, flagVars>>

-----------------------------------------------------------------------------
Handed(slot) ==
  /\ pc = "serving"
  /\ loops_ # <<>>
  /\ \A t \in Threads : conns[t] < MaxConns
  /\ conns' = [conns EXCEPT ![loops_[slot]] = @ + 1]
  /\ UNCHANGED <<pc, current, threadPc, handshakeVars, loops_, flagVars>>

(* Mutation of GetNextLoop: having wrapped around, it starts at the second *)
(* loop.                                                                   *)
GetNextLoopFromSecond ==
  /\ Handed(next_ + 1)
  /\ next_' = IF next_ + 1 = Len(loops_) THEN 1 % Len(loops_) ELSE next_ + 1

(* getNextLoop, when the pool has loops of its own; otherwise connections  *)
(* stay on the base loop, and nothing here changes.                        *)
GetNextLoop ==
  /\ Handed(next_ + 1)
  /\ next_' = IF next_ + 1 >= Len(loops_) THEN 0 ELSE next_ + 1

-----------------------------------------------------------------------------
(* ~EventLoopThreadPool, as part of ~TcpServer, and ~EventLoopThread.      *)

DestroyNext(t) ==
  IF t > numThreads_ THEN pc' = "destroyed" /\ UNCHANGED current
                     ELSE pc' = "quit" /\ current' = t

Destroy ==
  /\ pc = "serving"
  /\ DestroyNext(1)
  /\ UNCHANGED <<threadPc, handshakeVars, poolVars, flagVars>>

(* The first half of quit(), on the loop_ that startLoop has waited for.   *)
SetQuit ==
  /\ BaseGoes("quit", "wakeup")
  /\ loop_[current] = "set"
  /\ quit_' = [quit_ EXCEPT ![current] = TRUE]
  /\ UNCHANGED <<current, threadPc, handshakeVars, poolVars, quitLost>>

(* The second half of quit() writes to the eventfd of a loop that may have *)
(* seen the flag and ended already: that does no harm, or it does.         *)
Wakeup ==
  /\ pc = "wakeup"
  /\ pc' \in {"join"} \cup {p \in {"crashed"} : threadPc[current] = "ended"}
  /\ UNCHANGED <<current, threadPc, handshakeVars, poolVars, flagVars>>

Join ==
  /\ pc = "join"
  /\ threadPc[current] = "ended"
  /\ DestroyNext(current + 1)
  /\ UNCHANGED <<threadPc, handshakeVars, poolVars, flagVars>>

-----------------------------------------------------------------------------
Startup == Start \/ ReadLoop \/ BaseLock \/ TestLoop \/ ReturnLoop
Teardown == SetQuit \/ Wakeup \/ Join
ThreadStep(t) ==
  ThreadLock(t) \/ Publish(t) \/ ThreadUnlock(t) \/ EnterLoop(t) \/ LeaveLoop(t)

Next ==
  \/ Startup \/ WakeSpuriously \/ GetNextLoop \/ Destroy \/ Teardown
  \/ \E t \in Threads : ThreadStep(t)

(* All threads run; LeaveLoop is prompt by QuitStopsLoop of EventLoop.     *)
(* Whoever waits for a mutex that is free again and again gets it.  Nobody *)
(* need call start() or the destructor, nor wake up spuriously.            *)
Spec ==
  /\ Init /\ [][Next]_vars
  /\ WF_vars(pc # "stopped" /\ Startup)
  /\ WF_vars(Teardown)
  /\ \A t \in Threads : WF_vars(ThreadStep(t))
  /\ \A t \in Threads : SF_vars(ThreadLock(t))

-----------------------------------------------------------------------------
(* Every pointer start() has stored is that of the loop of the thread it   *)
(* has just started, and the loop goes on to exist until the destructor    *)
(* tells it to quit: startLoop never returns null, although it reads loop_ *)
(* outside the mutex and may be woken up early.  And when the destructor   *)
(* is done, no thread is left.                                             *)
LoopsAreLive ==
  /\ \A i \in DOMAIN loops_ :
       /\ loops_[i] = i
       /\ threadPc[i] \in {"unlock", "enter", "loop"} \/ (pc # "serving" /\ quit_[i])
  /\ pc = "destroyed" => \A t \in Threads : threadPc[t] = "ended"

(* "every loop has the same priority" (EventLoopThreadPool.cpp:38): at any *)
(* time the loops have been handed the same number of connections, but for *)
(* one.                                                                    *)
FairShare == \A s, t \in Threads : conns[s] <= conns[t] + 1

(* start() returns: no notification is missed, and nobody waits for a      *)
(* mutex for ever.  The destructor returns, unless a quit() came before    *)
(* loop() reset the flag (EventLoop.cpp:76) and was lost, or the wakeup of *)
(* quit() came when the loop had seen the flag and ended.                  *)
CallsReturn ==
  /\ pc = "read" ~> pc = "serving"
  /\ pc = "quit" ~> (pc \in {"destroyed", "crashed"} \/ quitLost)
==============================================================================
