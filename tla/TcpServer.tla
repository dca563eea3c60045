------------------------------ MODULE TcpServer ------------------------------
(***************************************************************************)
(* TcpServer.{h,cpp}: a base loop that accepts connections, io loops that  *)
(* serve them, and the handing over of connections between the two, with   *)
(* users calling send, shutdown and forceClose from the connection's loop  *)
(* and from other threads.                                                 *)
(*                                                                         *)
(* A loop is reduced to its functor queue and the batch it is running      *)
(* (EventLoop); it handles one event, or runs one functor, at a time.  A   *)
(* functor bound to a shared_ptr keeps its connection alive until the      *)
(* whole batch is destroyed; one bound to a raw this does not.             *)
(***************************************************************************)
EXTENDS TcpConnection, FiniteSets

CONSTANTS
  Conns,        \* connections, in the order of need
  Threads,      \* threads other than the connection's io loop
  Pools,        \* possible values of the pool's loops_
  LoopCalls,    \* what users call on the io loop
  ThreadCalls,  \* what users call from other threads
  MaxCalls,     \* bound: user calls on one connection
  MaxPending    \* bound: no event is handled with more functors waiting

Base == "base"
Loops == {Base} \cup UNION {{p[i] : i \in DOMAIN p} : p \in Pools}
Calls == {"send", "shutdown", "forceClose", "forceCloseWithDelay"}

ASSUME ServerAssumption ==
  /\ Pools \subseteq Seq(Loops)
  /\ "none" \notin Loops
  /\ LoopCalls \subseteq Calls
  /\ ThreadCalls \subseteq Calls
  /\ MaxCalls \in Nat
  /\ MaxPending \in Nat

VARIABLES
  conn,          \* the connections' records
  ioLoop,        \* TcpConnection::loop_, or "none" before newConnection
  connections_,  \* TcpServer::connections_
  loops_, next_, \* EventLoopThreadPool
  queue,         \* EventLoop::pendingFunctors_ of each loop
  batch, ran,    \* the batch a loop is running, and how much of it has run
  wriComCb_,     \* whether the user has set a write-complete callback
  userRef,       \* the user's shared_ptr, from UP to DOWN
  calling,       \* a call of another thread that has passed its state_ check
  delayed,       \* forceCloseWithDelay timers of each connection
  calls,         \* user calls so far
  crashed        \* an assert failed, or a destroyed connection was used

loopVars == <<loops_, next_, ioLoop, wriComCb_>>
userVars == <<calling, delayed, calls>>
vars == <<conn, loopVars, connections_, queue, batch, ran, userRef, userVars,
          crashed>>

Functor(op, c) == [op |-> op, conn |-> c]
Carrying == {"connEstablished", "removeConnectionInLoop", "connDestroyed"}
Owning == Carrying \cup {"wriComCb_"}
RawThis == {"sendInLoop", "shutdownInLoop", "forceCloseInLoop"}
Functors == [op : Owning \cup RawThis, conn : Conns]

NoCall == <<"none">>

TypeOK ==
  /\ conn \in [Conns -> Connections]
  /\ ioLoop \in [Conns -> Loops \cup {"none"}]
  /\ connections_ \subseteq Conns
  /\ loops_ \in Pools
  /\ next_ \in 0 .. Len(loops_)
  /\ queue \in [Loops -> Seq(Functors)]
  /\ batch \in [Loops -> Seq(Functors)]
  /\ ran \in [Loops -> Nat]
  /\ \A l \in Loops : ran[l] \in 0 .. Len(batch[l])
  /\ wriComCb_ \in BOOLEAN
  /\ userRef \in [Conns -> BOOLEAN]
  /\ calling \in [Threads -> {NoCall} \cup (Calls \X Conns)]
  /\ delayed \in [Conns -> Nat]
  /\ calls \in [Conns -> 0 .. MaxCalls]
  /\ crashed \in BOOLEAN

Init ==
  /\ conn = [c \in Conns |-> NewConn]
  /\ ioLoop = [c \in Conns |-> "none"]
  /\ connections_ = {}
  /\ loops_ \in Pools
  /\ next_ = 0
  /\ queue = [l \in Loops |-> <<>>]
  /\ batch = [l \in Loops |-> <<>>]
  /\ ran = [l \in Loops |-> 0]
  /\ wriComCb_ \in BOOLEAN
  /\ userRef = [c \in Conns |-> FALSE]
  /\ calling = [t \in Threads |-> NoCall]
  /\ delayed = [c \in Conns |-> 0]
  /\ calls = [c \in Conns |-> 0]
  /\ crashed = FALSE

-----------------------------------------------------------------------------
Elements(s) == {s[i] : i \in DOMAIN s}
Holds(s, ops, c) == \E f \in Elements(s) : f.op \in ops /\ f.conn = c

(* Somebody still owns a shared_ptr to the connection.                     *)
Alive(c) ==
  \/ c \in connections_
  \/ userRef[c]
  \/ \E l \in Loops : Holds(queue[l], Owning, c) \/ Holds(batch[l], Owning, c)
  \/ \E t \in Threads : calling[t] # NoCall /\ calling[t][2] = c

Push(l, f) == queue' = [queue EXCEPT ![l] = Append(@, f)]

(* A loop runs functors after it has handled its events.                   *)
HandlingEvents(l) == batch[l] = <<>>
RunningBatch(l) == batch[l] # <<>> /\ ran[l] < Len(batch[l])
Current(l) == batch[l][ran[l] + 1]

Crash ==
  /\ crashed' = TRUE
  /\ UNCHANGED <<conn, connections_, queue, userRef>>

(* getNextLoop.                                                            *)
NextLoop == IF loops_ = <<>> THEN Base ELSE loops_[next_ + 1]

-----------------------------------------------------------------------------
(* Handlers.  Each fixes conn, connections_, queue, userRef and crashed.   *)

ConnEstablished(c) ==
  /\ conn' = [conn EXCEPT ![c] = Established(@)]
  /\ userRef' = [userRef EXCEPT ![c] = TRUE]
  /\ UNCHANGED <<connections_, crashed>>

(* Mutation of RemoveConnectionInLoop: the functor that destroys the       *)
(* connection is bound to nothing but the entry just erased, so is lost.   *)
EraseConnectionOnly(c) ==
  /\ c \in connections_
  /\ connections_' = connections_ \ {c}
  /\ UNCHANGED <<queue, crashed>>

(* erase, assert(n == 1), and connDestroyed to the connection's own loop.  *)
RemoveConnectionInLoop(c) ==
  /\ c \in connections_
  /\ connections_' = connections_ \ {c}
  /\ Push(ioLoop[c], Functor("connDestroyed", c))
  /\ UNCHANGED crashed

(* handleClose, once, or twice in one handleEvent.  closeCb_ is            *)
(* removeConnection: runInLoop on the base loop, so at once if that is the *)
(* connection's loop, and then the second erase fails.                     *)
HandleClose(c, times) ==
  LET record == IF times = 1 THEN Closed(conn[c]) ELSE Closed(Closed(conn[c]))
      remove == [i \in 1 .. times |-> Functor("removeConnectionInLoop", c)]
  IN  \/ /\ Open(conn[c])
         /\ ioLoop[c] # Base
         /\ queue' = [queue EXCEPT ![Base] = @ \o remove]
         /\ conn' = [conn EXCEPT ![c] = record]
         /\ UNCHANGED <<connections_, userRef, crashed>>
      \/ /\ Open(conn[c])
         /\ ioLoop[c] = Base
         /\ times = 1
         /\ RemoveConnectionInLoop(c)
         /\ conn' = [conn EXCEPT ![c] = record]
         /\ UNCHANGED userRef
      \/ /\ \/ ~Open(conn[c])
            \/ ioLoop[c] = Base /\ (times = 2 \/ c \notin connections_)
         /\ Crash

(* The functor that tells the user that a message is written owns the      *)
(* connection.                                                             *)
SendInLoop(c) ==
  /\ \E n \in Taken(conn[c]) :
       /\ conn' = [conn EXCEPT ![c] = SentInLoop(@, n)]
       /\ IF n = 2 /\ wriComCb_ THEN Push(ioLoop[c], Functor("wriComCb_", c))
                                ELSE UNCHANGED queue
  /\ UNCHANGED <<connections_, userRef, crashed>>

(* What a functor of the batch does.                                       *)
Invoke(f) ==
  LET c == f.conn
  IN  \/ f.op = "connEstablished" /\ ConnEstablished(c) /\ UNCHANGED queue
      \/ /\ f.op = "connDestroyed"
         /\ IF Open(conn[c])
              THEN /\ conn' = [conn EXCEPT ![c] = Destroyed(@)]
                   /\ userRef' = [userRef EXCEPT ![c] = FALSE]
                   /\ UNCHANGED <<connections_, queue, crashed>>
              ELSE Crash
      \/ /\ f.op = "removeConnectionInLoop"
         /\ \/ RemoveConnectionInLoop(c) /\ UNCHANGED <<conn, userRef>>
            \/ c \notin connections_ /\ Crash
      \/ f.op = "sendInLoop" /\ Alive(c) /\ SendInLoop(c)
      \/ /\ f.op = "wriComCb_"
         /\ UNCHANGED <<conn, connections_, queue, userRef, crashed>>
      \/ /\ f.op = "shutdownInLoop"
         /\ Alive(c)
         /\ conn' = [conn EXCEPT ![c] = ShutdownInLoop(@)]
         /\ UNCHANGED <<connections_, queue, userRef, crashed>>
      \/ /\ f.op = "forceCloseInLoop"
         /\ Alive(c)
         /\ IF Open(conn[c])
              THEN HandleClose(c, 1)
              ELSE UNCHANGED <<conn, connections_, queue, userRef, crashed>>
      \/ f.op \in RawThis /\ ~Alive(c) /\ Crash

-----------------------------------------------------------------------------
(* The loops.                                                              *)

(* Acceptor::handleRead and newConnection, on the base loop.               *)
NewConnection(c) ==
  /\ HandlingEvents(Base)
  /\ ioLoop[c] = "none"
  /\ ioLoop' = [ioLoop EXCEPT ![c] = NextLoop]
  /\ next_' = IF next_ + 1 < Len(loops_) THEN next_ + 1 ELSE 0
  /\ connections_' = connections_ \cup {c}
  /\ \/ /\ NextLoop = Base
        /\ conn' = [conn EXCEPT ![c] = Established(@)]
        /\ userRef' = [userRef EXCEPT ![c] = TRUE]
        /\ UNCHANGED queue
     \/ /\ NextLoop # Base
        /\ Push(NextLoop, Functor("connEstablished", c))
        /\ UNCHANGED <<conn, userRef>>
  /\ UNCHANGED <<loops_, wriComCb_, batch, ran, userVars, crashed>>

(* An event of the connection's channel.  While it reads, the end of the   *)
(* stream, or a broken connection, makes read(2) return 0 and handleRead   *)
(* close.  Once it only writes, POLLHUP comes without POLLIN, and both the *)
(* close callback and the read callback run; the latter closes again       *)
(* unless read(2) fails.                                                   *)
HandleEvent(c) ==
  /\ ioLoop[c] # "none"
  /\ HandlingEvents(ioLoop[c])
  /\ Alive(c)
  /\ conn[c].index = "kAdded"
  /\ Len(queue[Base]) < MaxPending
  /\ \/ /\ "read" \in conn[c].events
        /\ conn[c].peer # "open"
        /\ HandleClose(c, 1)
     \/ /\ "read" \notin conn[c].events
        /\ HungUp(conn[c])
        /\ \E times \in {1, 2} : HandleClose(c, times)
  /\ UNCHANGED <<loopVars, batch, ran, userVars>>

StartBatch(l) ==
  /\ HandlingEvents(l)
  /\ queue[l] # <<>>
  /\ batch' = [batch EXCEPT ![l] = queue[l]]
  /\ queue' = [queue EXCEPT ![l] = <<>>]
  /\ UNCHANGED <<conn, loopVars, connections_, ran, userRef, userVars, crashed>>

RunFunctor(l) ==
  /\ RunningBatch(l)
  /\ Invoke(Current(l))
  /\ ran' = [ran EXCEPT ![l] = @ + 1]
  /\ UNCHANGED <<loopVars, batch, userVars>>

(* Mutation of FinishBatch: the position in the batch is not reset.        *)
FinishBatchKeepingPosition(l) ==
  /\ batch[l] # <<>>
  /\ ~RunningBatch(l)
  /\ batch' = [batch EXCEPT ![l] = <<>>]
  /\ UNCHANGED <<conn, loopVars, connections_, queue, ran, userRef, userVars,
                 crashed>>

(* doPendingFunctors returns and destroys the batch.                       *)
FinishBatch(l) ==
  /\ batch[l] # <<>>
  /\ ~RunningBatch(l)
  /\ batch' = [batch EXCEPT ![l] = <<>>]
  /\ ran' = [ran EXCEPT ![l] = 0]
  /\ UNCHANGED <<conn, loopVars, connections_, queue, userRef, userVars, crashed>>

(* A timer of forceCloseWithDelay runs forceClose on a raw this; there is  *)
(* one for each call.                                                      *)
DelayedForceClose(c) ==
  /\ delayed[c] > 0
  /\ HandlingEvents(ioLoop[c])
  /\ delayed' = [delayed EXCEPT ![c] = @ - 1]
  /\ \/ /\ Alive(c)
        /\ Open(conn[c])
        /\ conn' = [conn EXCEPT ![c].state = "kDisconnecting"]
        /\ Push(ioLoop[c], Functor("forceCloseInLoop", c))
        /\ UNCHANGED <<connections_, userRef, crashed>>
     \/ /\ Alive(c)
        /\ ~Open(conn[c])
        /\ UNCHANGED <<conn, connections_, queue, userRef, crashed>>
     \/ ~Alive(c) /\ Crash
  /\ UNCHANGED <<loopVars, batch, ran, calling, calls>>

-----------------------------------------------------------------------------
(* Users.                                                                  *)

Permits(op, r) ==
  \/ r.state = "kConnected"
  \/ r.state = "kDisconnecting" /\ op \in {"forceClose", "forceCloseWithDelay"}

MayUse(c, op) == userRef[c] /\ calls[c] < MaxCalls /\ Permits(op, conn[c])

(* A call on the connection's own loop, from whichever callback: state_ is *)
(* tested and the call takes effect at once, except that forceClose always *)
(* queues.                                                                 *)
LoopCall(c, op) ==
  /\ MayUse(c, op)
  /\ calls' = [calls EXCEPT ![c] = @ + 1]
  /\ \/ op = "send" /\ SendInLoop(c) /\ UNCHANGED delayed
     \/ /\ op = "shutdown"
        /\ conn' = [conn EXCEPT ![c] = ShutdownInLoop(
                                         [@ EXCEPT !.state = "kDisconnecting"])]
        /\ UNCHANGED <<connections_, queue, userRef, crashed, delayed>>
     \/ /\ op = "forceClose"
        /\ conn' = [conn EXCEPT ![c].state = "kDisconnecting"]
        /\ Push(ioLoop[c], Functor("forceCloseInLoop", c))
        /\ UNCHANGED <<connections_, userRef, crashed, delayed>>
     \/ /\ op = "forceCloseWithDelay"
        /\ conn' = [conn EXCEPT ![c].state = "kDisconnecting"]
        /\ delayed' = [delayed EXCEPT ![c] = @ + 1]
        /\ UNCHANGED <<connections_, queue, userRef, crashed>>
  /\ UNCHANGED <<loopVars, batch, ran, calling>>

(* A call from another thread, which owns a shared_ptr as long as it lasts: *)
(* state_ is tested without a lock ...                                      *)
BeginThreadCall(t, c, op) ==
  /\ MayUse(c, op)
  /\ calling[t] = NoCall
  /\ calling' = [calling EXCEPT ![t] = <<op, c>>]
  /\ calls' = [calls EXCEPT ![c] = @ + 1]
  /\ UNCHANGED <<conn, loopVars, connections_, queue, batch, ran, userRef,
                 delayed, crashed>>

(* ... and only then written, and the rest handed to the loop.             *)
EndThreadCall(t) ==
  LET op == calling[t][1]
      c  == calling[t][2]
  IN  /\ calling[t] # NoCall
      /\ calling' = [calling EXCEPT ![t] = NoCall]
      /\ conn' = IF op = "send" THEN conn
                 ELSE [conn EXCEPT ![c].state = "kDisconnecting"]
      /\ \/ op = "send" /\ Push(ioLoop[c], Functor("sendInLoop", c))
         \/ op = "shutdown" /\ Push(ioLoop[c], Functor("shutdownInLoop", c))
         \/ op = "forceClose" /\ Push(ioLoop[c], Functor("forceCloseInLoop", c))
         \/ op = "forceCloseWithDelay" /\ UNCHANGED queue
      /\ delayed' = IF op = "forceCloseWithDelay"
                      THEN [delayed EXCEPT ![c] = @ + 1] ELSE delayed
      /\ UNCHANGED <<loopVars, connections_, batch, ran, userRef, calls, crashed>>

(* The other end closes its side, or the connection is reset.              *)
PeerCloses(c) ==
  /\ ioLoop[c] # "none"
  /\ conn[c].peer = "open"
  /\ \E how \in {"closed", "reset"} : conn' = [conn EXCEPT ![c].peer = how]
  /\ UNCHANGED <<loopVars, connections_, queue, batch, ran, userRef, userVars,
                 crashed>>

-----------------------------------------------------------------------------
LoopStep(l) == StartBatch(l) \/ RunFunctor(l) \/ FinishBatch(l)

UserStep ==
  \/ \E c \in Conns, op \in LoopCalls : LoopCall(c, op)
  \/ \E t \in Threads, c \in Conns, op \in ThreadCalls : BeginThreadCall(t, c, op)
  \/ \E t \in Threads : EndThreadCall(t)

Next ==
  /\ ~crashed
  /\ \/ \E c \in Conns : NewConnection(c) \/ HandleEvent(c)
                         \/ DelayedForceClose(c) \/ PeerCloses(c)
     \/ \E l \in Loops : LoopStep(l)
     \/ UserStep

Spec == Init /\ [][Next]_vars

(* The loops' threads are scheduled, a level-triggered poller goes on      *)
(* reporting an event until it is handled, and a call that was begun ends. *)
(* Users and peers need not do anything, nor new connections arrive.       *)
FairSpec ==
  /\ Spec
  /\ \A l \in Loops : WF_vars(~crashed /\ LoopStep(l))
  /\ \A c \in Conns : SF_vars(~crashed /\ HandleEvent(c))
  /\ \A t \in Threads : WF_vars(~crashed /\ EndThreadCall(t))

-----------------------------------------------------------------------------
(* The properties of single connections, whatever is queued on the two     *)
(* loops, in whichever order, by whichever thread.                         *)
OutputsInOrder == \A c \in Conns : OutputInOrder(conn[c])
WritingWhileWaiting == \A c \in Conns : WritingIffWaiting(conn[c])
CallbacksInOrder == \A c \in Conns : ToldInOrder(conn[c])

(* From newConnection until its DOWN callback a connection is owned by the *)
(* server's map or by the functor that carries it towards connDestroyed:   *)
(* the hand-over between the two loops never drops the last shared_ptr.    *)
OpenIsOwned ==
  \A c \in Conns :
    (ioLoop[c] # "none" /\ "DOWN" \notin Elements(conn[c].told)) =>
      \/ c \in connections_
      \/ \E l \in Loops : Holds(queue[l] \o batch[l], Carrying, c)

(* When the peer has closed, the connection is torn down: DOWN is reported *)
(* (unless the process dies).                                              *)
PeerCloseIsReported ==
  \A c \in Conns :
    conn[c].peer # "open" ~> crashed \/ "DOWN" \in Elements(conn[c].told)

-----------------------------------------------------------------------------
(* "assert(n == 1)" (TcpServer.cpp:82): when a removal reaches the base    *)
(* loop, the connection is still in the map.                               *)
RemovedOnce ==
  \A l \in Loops :
    (RunningBatch(l) /\ Current(l).op = "removeConnectionInLoop")
      => Current(l).conn \in connections_

(* "the life of the objects that handle io is managed by shared_ptr"       *)
(* (README.md:21): a functor never runs on a destroyed connection.         *)
NoUseAfterFree ==
  \A l \in Loops :
    (RunningBatch(l) /\ Current(l).op \in RawThis) => Alive(Current(l).conn)

(* "if data is left, register the write event and wait until the socket is *)
(* writable" (TcpConnection.h:54): what is waiting is sent, unless the     *)
(* connection ends first.                                                  *)
OutputDrains ==
  \A c \in Conns :
    conn[c].output # <<>> ~>
      \/ conn[c].output = <<>>
      \/ conn[c].peer # "open"
      \/ ~Open(conn[c])
      \/ crashed
==============================================================================
