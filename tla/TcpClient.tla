------------------------------ MODULE TcpClient ------------------------------
(***************************************************************************)
(* TcpClient.{h,cpp}: a connector, the one connection it may lead to, and  *)
(* the calls of users, in callbacks of the loop and on other threads.      *)
(*                                                                         *)
(* A connection is named after its socket and reduced to what the client   *)
(* sees of it: "up", "shut" once its state_ is kDisconnecting, "closing"   *)
(* between closeCb_ and connDestroyed, and "down" (TcpConnection).         *)
(***************************************************************************)
EXTENDS Connector, FiniteSets

CONSTANTS
  Threads,        \* threads other than the loop's
  MaxConnects,    \* bound: calls of connect()
  MaxCalls        \* bound: other calls of users

ASSUME ClientAssumption == MaxConnects \in Nat /\ MaxCalls \in Nat

VARIABLES
  clientConnect_,   \* TcpClient::connect_
  retry_,
  connection_,      \* the socket of the connection, or 0
  conns,            \* every connection so far
  pc,               \* where each thread is in a call
  connects, calls,  \* calls so far
  overlap,          \* history: connect() was called during a thread's stop()
  stopped           \* history: stop() is the last word of the users

clientVars == <<clientConnect_, retry_, connection_, conns>>
userVars == <<pc, connects, calls, overlap, stopped>>
vars == <<connectorVars, pendingFunctors_, functors, loopPc, crashed,
          clientVars, userVars>>

TypeOK ==
  /\ ConnectorTypeOK
  /\ pendingFunctors_ \in Seq([op : {"startInLoop", "resetChannel", "cancel",
                                     "connDestroyed"},
                               arg : Sockets \cup {0}])
  /\ functors \in Seq([op : {"startInLoop", "resetChannel", "cancel",
                             "connDestroyed"},
                       arg : Sockets \cup {0}])
  /\ clientConnect_ \in BOOLEAN
  /\ retry_ \in BOOLEAN
  /\ connection_ \in Sockets \cup {0}
  /\ conns \in [Sockets -> {"none", "up", "shut", "closing", "down"}]
  /\ pc \in [Threads -> {"idle", "start", "stop", "cancel", "shutdown"}]
  /\ connects \in 0 .. MaxConnects
  /\ calls \in 0 .. MaxCalls
  /\ overlap \in BOOLEAN
  /\ stopped \in BOOLEAN

Init ==
  /\ ConnectorInit
  /\ clientConnect_ = TRUE
  /\ retry_ \in BOOLEAN
  /\ connection_ = 0
  /\ conns = [fd \in Sockets |-> "none"]
  /\ pc = [t \in Threads |-> "idle"]
  /\ connects = 0
  /\ calls = 0
  /\ overlap = FALSE
  /\ stopped = FALSE

-----------------------------------------------------------------------------
(* The loop.                                                               *)

(* Mutation of NewConnection: connect_ is not tested.                      *)
NewConnectionRegardless ==
  /\ HandleConnected
  /\ connection_' = channel_.fd
  /\ conns' = [conns EXCEPT ![channel_.fd] = "up"]
  /\ UNCHANGED <<clientConnect_, retry_, userVars>>

(* newConnection, called by handleWrite unless the connector was stopped:  *)
(* the connection is created, owned by the client, and reported UP.        *)
NewConnection ==
  /\ HandleConnected
  /\ \/ /\ connect_
        /\ connection_' = channel_.fd
        /\ conns' = [conns EXCEPT ![channel_.fd] = "up"]
     \/ ~connect_ /\ UNCHANGED <<connection_, conns>>
  /\ UNCHANGED <<clientConnect_, retry_, userVars>>

(* Mutation of RemoveConnection: connDestroyed is not handed on.           *)
RemoveConnectionOnly(fd) ==
  /\ crashed' = (connection_ # fd)
  /\ connection_' = 0
  /\ conns' = [conns EXCEPT ![fd] = "closing"]
  /\ loopPc' = IF retry_ /\ clientConnect_ THEN "restart" ELSE "loop"
  /\ UNCHANGED <<pendingFunctors_, connectorVars, clientConnect_, retry_>>

(* handleClose and removeConnection: the client asserts that it is its     *)
(* connection, lets go of it, leaves its destruction to a functor, and     *)
(* connects again if it is to.                                             *)
RemoveConnection(fd) ==
  /\ crashed' = (connection_ # fd)
  /\ connection_' = 0
  /\ conns' = [conns EXCEPT ![fd] = "closing"]
  /\ Push(Functor("connDestroyed", fd))
  /\ loopPc' = IF retry_ /\ clientConnect_ THEN "restart" ELSE "loop"
  /\ UNCHANGED <<connectorVars, clientConnect_, retry_>>

(* The peer has closed, read(2) returns 0, and closeCb_ is called.  The    *)
(* channel of a connection is first reported by the poll after the         *)
(* iteration that established it.                                          *)
PeerCloses(fd) ==
  /\ HandlingEvents
  /\ ~Waiting("resetChannel")
  /\ conns[fd] \in {"up", "shut"}
  /\ RemoveConnection(fd)
  /\ UNCHANGED <<functors, userVars>>

(* The next functor of the batch: Connector::startInLoop, resetChannel,    *)
(* the cancelling half of TimerQueue::cancel, TcpConnection::connDestroyed. *)
RunFunctor ==
  LET f == Head(functors)
  IN  /\ loopPc = "loop"
      /\ functors # <<>>
      /\ functors' = Tail(functors)
      /\ \/ /\ f.op = "startInLoop"
            /\ loopPc' = "start"
            /\ UNCHANGED <<connectorVars, pendingFunctors_, crashed, clientVars>>
         \/ /\ f.op = "resetChannel"
            /\ channel_' = NoChannel
            /\ UNCHANGED <<connect_, state_, retryDelayMs_, timerId_, timers,
                           attempts, open, gaveUp, pendingFunctors_, loopPc,
                           crashed, clientVars>>
         \/ /\ f.op = "cancel"
            /\ timers' = timers \ {f.arg}
            /\ UNCHANGED <<connect_, state_, channel_, retryDelayMs_, timerId_,
                           attempts, open, gaveUp, pendingFunctors_, loopPc,
                           crashed, clientVars>>
         \/ /\ f.op = "connDestroyed"
            /\ conns' = [conns EXCEPT ![f.arg] = "down"]
            /\ UNCHANGED <<connectorVars, pendingFunctors_, loopPc, crashed,
                           clientConnect_, retry_, connection_>>
      /\ UNCHANGED userVars

(* What the loop's thread does next without anything happening outside.    *)
Proceed ==
  \/ RunFunctor
  \/ /\ StartInLoop \/ Restart \/ ConnectAgain \/ StartBatch
     /\ UNCHANGED <<clientVars, userVars>>

(* Events of the connector's channel and timer.                            *)
ConnectorEvent ==
  /\ \/ HandleError \/ HandleSelfConnection \/ HandleLateError
     \/ \E id \in timers : TimerExpires(id)
  /\ UNCHANGED <<clientVars, userVars>>

-----------------------------------------------------------------------------
(* Users in callbacks of the loop: runInLoop calls at once.  stop() and    *)
(* disconnect() may come from a timer of the batch that the retry timer is *)
(* in, which then runs regardless (TimerQueue).                            *)

StopUnderWay == \E t \in Threads : pc[t] \in {"stop", "cancel"}
NobodyStarts == \A t \in Threads : pc[t] # "start"

LoopConnect ==
  /\ loopPc = "loop"
  /\ connects < MaxConnects
  /\ connects' = connects + 1
  /\ overlap' = (overlap \/ StopUnderWay)
  /\ stopped' = FALSE
  /\ clientConnect_' = TRUE
  /\ connect_' = TRUE
  /\ loopPc' = "start"
  /\ UNCHANGED <<state_, channel_, retryDelayMs_, timerId_, timers, attempts,
                 open, gaveUp, pendingFunctors_, functors, crashed, retry_,
                 connection_, conns, pc, calls>>

LoopStop ==
  /\ loopPc \in {"loop", "connect"}
  /\ calls < MaxCalls
  /\ calls' = calls + 1
  /\ clientConnect_' = FALSE
  /\ connect_' = FALSE
  /\ stopped' = NobodyStarts
  /\ timers' = timers \ {timerId_}
  /\ UNCHANGED <<state_, channel_, retryDelayMs_, timerId_, attempts, open,
                 gaveUp, pendingFunctors_, functors, loopPc, crashed, retry_,
                 connection_, conns, pc, connects, overlap>>

(* connection_->shutdown(): nothing unless the connection is kConnected.   *)
Shutdown ==
  conns' = [fd \in Sockets |-> IF fd = connection_ /\ conns[fd] = "up"
                                 THEN "shut" ELSE conns[fd]]

LoopDisconnect ==
  /\ loopPc \in {"loop", "connect"}
  /\ calls < MaxCalls
  /\ calls' = calls + 1
  /\ clientConnect_' = FALSE
  /\ Shutdown
  /\ UNCHANGED <<connectorVars, pendingFunctors_, functors, loopPc, crashed,
                 retry_, connection_, pc, connects, overlap, stopped>>

-----------------------------------------------------------------------------
(* Users on other threads: each call is cut where the loop can step in.    *)

BeginConnect(t) ==
  /\ pc[t] = "idle"
  /\ connects < MaxConnects
  /\ connects' = connects + 1
  /\ overlap' = (overlap \/ StopUnderWay)
  /\ stopped' = FALSE
  /\ clientConnect_' = TRUE
  /\ pc' = [pc EXCEPT ![t] = "start"]
  /\ UNCHANGED <<connectorVars, pendingFunctors_, functors, loopPc, crashed,
                 retry_, connection_, conns, calls>>

(* Connector::start().                                                     *)
Start(t) ==
  /\ pc[t] = "start"
  /\ pc' = [pc EXCEPT ![t] = "idle"]
  /\ connect_' = TRUE
  /\ Push(Functor("startInLoop", 0))
  /\ UNCHANGED <<state_, channel_, retryDelayMs_, timerId_, timers, attempts,
                 open, gaveUp, functors, loopPc, crashed, clientVars, connects,
                 calls, overlap, stopped>>

(* stop(), or disconnect(): clear the client's flag ...                    *)
BeginCall(t) ==
  /\ pc[t] = "idle"
  /\ calls < MaxCalls
  /\ calls' = calls + 1
  /\ clientConnect_' = FALSE
  /\ \E next \in {"stop", "shutdown"} : pc' = [pc EXCEPT ![t] = next]
  /\ UNCHANGED <<connectorVars, pendingFunctors_, functors, loopPc, crashed,
                 retry_, connection_, conns, connects, overlap, stopped>>

(* ... then Connector::stop() clears its own ...                           *)
Stop(t) ==
  /\ pc[t] = "stop"
  /\ pc' = [pc EXCEPT ![t] = "cancel"]
  /\ connect_' = FALSE
  /\ stopped' = (NobodyStarts /\ ~overlap /\ loopPc # "restart")
  /\ UNCHANGED <<state_, channel_, retryDelayMs_, timerId_, timers, attempts,
                 open, gaveUp, pendingFunctors_, functors, loopPc, crashed,
                 clientVars, connects, calls, overlap>>

(* ... and has the loop cancel the timer timerId_ names at this moment (a  *)
(* read torn by a retry names no timer, as the old timerId_ does then);    *)
Cancel(t) ==
  /\ pc[t] = "cancel"
  /\ pc' = [pc EXCEPT ![t] = "idle"]
  /\ Push(Functor("cancel", timerId_))
  /\ UNCHANGED <<connectorVars, functors, loopPc, crashed, clientVars,
                 connects, calls, overlap, stopped>>

(* ... or the connection, if there is one, is shut down under mutex_.      *)
Disconnect(t) ==
  /\ pc[t] = "shutdown"
  /\ pc' = [pc EXCEPT ![t] = "idle"]
  /\ Shutdown
  /\ UNCHANGED <<connectorVars, pendingFunctors_, functors, loopPc, crashed,
                 clientConnect_, retry_, connection_, connects, calls,
                 overlap, stopped>>

-----------------------------------------------------------------------------
ThreadStep(t) ==
  BeginConnect(t) \/ Start(t) \/ BeginCall(t) \/ Stop(t) \/ Cancel(t)
    \/ Disconnect(t)

Next ==
  /\ ~crashed
  /\ \/ Proceed
     \/ ConnectorEvent
     \/ NewConnection
     \/ \E fd \in Sockets : PeerCloses(fd)
     \/ LoopConnect \/ LoopStop \/ LoopDisconnect
     \/ \E t \in Threads : ThreadStep(t)

Spec == Init /\ [][Next]_vars

(* The loop's thread is scheduled and its handlers return.  Nothing        *)
(* obliges a socket or a peer to do anything, nor a timer to expire.       *)
FairSpec == Spec /\ WF_vars(~crashed /\ Proceed)

-----------------------------------------------------------------------------
(* What may lead to a connection, or is one: calls of startInLoop and      *)
(* connect() to come, retry timers, the watched channel, and the           *)
(* connection itself.                                                      *)
Pursuits ==
  Cardinality({i \in DOMAIN (functors \o pendingFunctors_) :
                 (functors \o pendingFunctors_)[i].op = "startInLoop"})
  + Cardinality({t \in Threads : pc[t] = "start"})
  + (IF loopPc = "loop" THEN 0 ELSE 1)
  + Cardinality(timers)
  + (IF Watching THEN 1 ELSE 0)
  + Cardinality({fd \in Sockets : conns[fd] \in {"up", "shut"}})

(* A client has one connection_ (TcpClient.h:57): however attempts fail,    *)
(* connections end and stop() interferes, the client pursues a single      *)
(* connection in a single way; a retry timer never runs beside a channel.  *)
OnePursuit == connects <= 1 => Pursuits <= 1

(* The asserts of startInLoop, connecting and removeConnection hold: in    *)
(* particular the channel of an attempt is gone when the next one begins,  *)
(* on whichever of the three ways that lead to connect().                  *)
NoAssertFails == connects <= 1 => ~crashed

(* Retries do not pile up descriptors: of the sockets of all attempts only *)
(* the newest may still be open in the connector's hands.                  *)
OldSocketsClosed == connects <= 1 => open \subseteq {attempts}

(* A client that is to connect, whose last attempt failed in a way that is *)
(* to be retried, has the retry under way, whatever was stopped before the *)
(* user called connect().  (A stop() that has not returned when connect()  *)
(* is called may cancel the timer of the new attempt: overlap.)            *)
RetryUnderWay ==
  (/\ connects = 1 /\ ~overlap
   /\ clientConnect_ /\ connect_ /\ ~gaveUp
   /\ state_ = "kDisconnected") => Pursuits >= 1

(* Once the users have called stop() last, after any connect() that it did *)
(* not overlap with, no connection comes up any more: not by an attempt or *)
(* a retry that was under way, nor by a startInLoop in the queue, nor by   *)
(* removeConnection, unless that had read connect_ already and is about to *)
(* set the connector's flag again in restart() (TcpClient.cpp:128), when   *)
(* the stop() is lost.                                                     *)
StopHolds ==
  [][(stopped /\ stopped') =>
       \A fd \in Sockets : conns'[fd] = "up" => conns[fd] = "up"]_vars

(* A connection that was closed is destroyed and reported DOWN.            *)
ClosedIsDestroyed ==
  \A fd \in Sockets : conns[fd] = "closing" ~> (conns[fd] = "down" \/ crashed)
==============================================================================
