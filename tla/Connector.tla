------------------------------ MODULE Connector ------------------------------
(***************************************************************************)
(* Connector.{h,cpp}: the attempts to connect one after another, each with *)
(* a socket of its own, watched by channel_ until it is writable or fails, *)
(* and the timer that separates a failed attempt from the next.            *)
(*                                                                         *)
(* The loop is reduced to its functor queue and the batch it is running    *)
(* (EventLoop).  The operators here say what the connector does;           *)
(* TcpClient, which owns it, completes them to actions.                    *)
(***************************************************************************)
EXTENDS Naturals, Sequences

CONSTANTS
  kInitRetryDelayMs, kMaxRetryDelayMs,
  MaxAttempts             \* bound: sockets created in a run

ASSUME ConnectorAssumption ==
  /\ kInitRetryDelayMs \in Nat
  /\ kMaxRetryDelayMs \in Nat
  /\ kInitRetryDelayMs <= kMaxRetryDelayMs
  /\ MaxAttempts \in Nat

VARIABLES
  connect_, state_, channel_, retryDelayMs_, timerId_,   \* members
  timers,                 \* the retry timers in the loop's TimerQueue
  attempts,               \* sockets created so far; the k-th is socket k
  open,                   \* sockets the connector has not closed or given away
  gaveUp,                 \* history: connect(2) failed for good
  pendingFunctors_,       \* the loop's queue
  functors,               \* the rest of the batch the loop is running
  loopPc,                 \* where the loop is: "loop", or inside a handler
  crashed                 \* an assert failed

connectorVars == <<connect_, state_, channel_, retryDelayMs_, timerId_, timers,
                   attempts, open, gaveUp>>

Sockets == 1 .. MaxAttempts
NoChannel == [fd |-> 0, watched |-> FALSE]
NoTimer == 0              \* TimerId(); a timer is named after the failed socket
Functor(op, arg) == [op |-> op, arg |-> arg]

ConnectorTypeOK ==
  /\ connect_ \in BOOLEAN
  /\ state_ \in {"kDisconnected", "kConnecting", "kConnected"}
  /\ channel_ \in [fd : Sockets, watched : BOOLEAN] \cup {NoChannel}
  /\ retryDelayMs_ \in kInitRetryDelayMs .. kMaxRetryDelayMs
  /\ timerId_ \in Sockets \cup {NoTimer}
  /\ timers \subseteq Sockets
  /\ attempts \in 0 .. MaxAttempts
  /\ open \subseteq Sockets
  /\ gaveUp \in BOOLEAN
  /\ loopPc \in {"loop", "restart", "start", "connect"}
  /\ crashed \in BOOLEAN

ConnectorInit ==
  /\ connect_ = FALSE
  /\ state_ = "kDisconnected"
  /\ channel_ = NoChannel
  /\ retryDelayMs_ = kInitRetryDelayMs
  /\ timerId_ = NoTimer
  /\ timers = {}
  /\ attempts = 0
  /\ open = {}
  /\ gaveUp = FALSE
  /\ pendingFunctors_ = <<>>
  /\ functors = <<>>
  /\ loopPc = "loop"
  /\ crashed = FALSE

Push(f) == pendingFunctors_' = Append(pendingFunctors_, f)
Elements(s) == {s[i] : i \in DOMAIN s}
Waiting(op) == \E f \in Elements(pendingFunctors_ \o functors) : f.op = op

(* The socket is watched for writing.                                      *)
Watching == channel_.watched

-----------------------------------------------------------------------------
(* Mutation of Doubled: the delay grows without a limit.                   *)
DoubledForEver(delay) == 2 * delay

Doubled(delay) ==
  IF 2 * delay < kMaxRetryDelayMs THEN 2 * delay ELSE kMaxRetryDelayMs

(* Mutation of Retry: the socket of the failed attempt stays open.         *)
RetryLeakingSocket(fd) ==
  /\ open' = open \cup {fd}
  /\ state_' = "kDisconnected"
  /\ timerId_' = IF connect_ THEN fd ELSE timerId_
  /\ timers' = IF connect_ THEN timers \cup {fd} ELSE timers
  /\ retryDelayMs_' = IF connect_ THEN Doubled(retryDelayMs_) ELSE retryDelayMs_

(* Mutation of Retry: the timer is only set for the first failure.         *)
RetryOnce(fd) ==
  /\ open' = open \ {fd}
  /\ state_' = "kDisconnected"
  /\ timerId_' = IF connect_ THEN fd ELSE timerId_
  /\ timers' = IF connect_ /\ timerId_ = NoTimer THEN timers \cup {fd} ELSE timers
  /\ retryDelayMs_' = IF connect_ THEN Doubled(retryDelayMs_) ELSE retryDelayMs_

(* retry(sockfd): close the socket; unless stop() was called, try again    *)
(* when a new timer expires, and wait longer the next time.                *)
Retry(fd) ==
  /\ open' = open \ {fd}
  /\ state_' = "kDisconnected"
  /\ timerId_' = IF connect_ THEN fd ELSE timerId_
  /\ timers' = IF connect_ THEN timers \cup {fd} ELSE timers
  /\ retryDelayMs_' = IF connect_ THEN Doubled(retryDelayMs_) ELSE retryDelayMs_

(* connect(): a new socket, and what connect(2) says of it: under way, a   *)
(* failure to be retried, or one that is final (the bound on attempts is   *)
(* reached with a final one).  connecting() asserts that there is no       *)
(* channel.                                                                *)
Connect ==
  LET fd == attempts + 1
  IN  /\ \/ /\ attempts < MaxAttempts
            /\ attempts' = fd
            /\ state_' = "kConnecting"
            /\ crashed' = (channel_ # NoChannel)
            /\ channel_' = [fd |-> fd, watched |-> TRUE]
            /\ open' = open \cup {fd}
            /\ UNCHANGED <<retryDelayMs_, timerId_, timers, gaveUp>>
         \/ /\ attempts < MaxAttempts
            /\ attempts' = fd
            /\ Retry(fd)
            /\ UNCHANGED <<channel_, gaveUp, crashed>>
         \/ /\ gaveUp' = TRUE
            /\ UNCHANGED <<state_, channel_, retryDelayMs_, timerId_, timers,
                           attempts, open, crashed>>
      /\ UNCHANGED connect_

(* Mutation of RemoveAndResetChannel: the channel object is kept.          *)
RemoveChannelOnly ==
  /\ channel_' = [channel_ EXCEPT !.watched = FALSE]
  /\ UNCHANGED pendingFunctors_

(* removeAndResetChannel(): the channel is handling an event, so it is     *)
(* only destroyed by a functor.                                            *)
RemoveAndResetChannel ==
  /\ channel_' = [channel_ EXCEPT !.watched = FALSE]
  /\ Push(Functor("resetChannel", 0))

-----------------------------------------------------------------------------
(* The loop's steps, as far as the connector is concerned.                 *)

(* Channels, the timers' included, are handled while no batch is running.  *)
HandlingEvents == loopPc = "loop" /\ functors = <<>>

(* startInLoop(): assert(state_ == kDisconnected), and connect if wanted.  *)
StartInLoop ==
  /\ loopPc = "start"
  /\ loopPc' = "loop"
  /\ \/ state_ = "kDisconnected" /\ connect_ /\ Connect
     \/ /\ ~connect_ \/ state_ # "kDisconnected"
        /\ crashed' = (state_ # "kDisconnected")
        /\ UNCHANGED connectorVars
  /\ UNCHANGED <<pendingFunctors_, functors>>

(* restart(), up to the call of startInLoop.                               *)
Restart ==
  /\ loopPc = "restart"
  /\ loopPc' = "start"
  /\ state_' = "kDisconnected"
  /\ retryDelayMs_' = kInitRetryDelayMs
  /\ connect_' = TRUE
  /\ UNCHANGED <<channel_, timerId_, timers, attempts, open, gaveUp,
                 pendingFunctors_, functors, crashed>>

(* Mutation of TimerExpires: the timer repeats.                            *)
TimerKeepsExpiring(id) ==
  /\ HandlingEvents
  /\ id \in timers
  /\ ~Waiting("resetChannel")
  /\ loopPc' = "connect"
  /\ UNCHANGED <<connectorVars, pendingFunctors_, functors, crashed>>

(* The retry timer calls connect() itself.  Its delay is at least          *)
(* kInitRetryDelayMs, so it expires in a later iteration of the loop than  *)
(* the one whose functors reset the channel.                               *)
TimerExpires(id) ==
  /\ HandlingEvents
  /\ id \in timers
  /\ ~Waiting("resetChannel")
  /\ timers' = timers \ {id}
  /\ loopPc' = "connect"
  /\ UNCHANGED <<connect_, state_, channel_, retryDelayMs_, timerId_, attempts,
                 open, gaveUp, pendingFunctors_, functors, crashed>>

ConnectAgain ==
  /\ loopPc = "connect"
  /\ loopPc' = "loop"
  /\ Connect
  /\ UNCHANGED <<pendingFunctors_, functors>>

(* The socket has failed: handleError.  handleWrite, called for the same   *)
(* event after it, finds kDisconnected and does nothing.                   *)
HandleError ==
  /\ HandlingEvents
  /\ Watching
  /\ state_ = "kConnecting"
  /\ RemoveAndResetChannel
  /\ Retry(channel_.fd)
  /\ UNCHANGED <<connect_, attempts, gaveUp, functors, loopPc, crashed>>

(* The socket is writable, but connected to itself: handleWrite retries.   *)
HandleSelfConnection ==
  /\ HandlingEvents
  /\ Watching
  /\ state_ = "kConnecting"
  /\ RemoveAndResetChannel
  /\ Retry(channel_.fd)
  /\ UNCHANGED <<connect_, attempts, gaveUp, functors, loopPc, crashed>>

(* The socket was reported writable, and is found broken by the time       *)
(* handleWrite asks: it is neither closed nor retried.                     *)
HandleLateError ==
  /\ HandlingEvents
  /\ Watching
  /\ state_ = "kConnecting"
  /\ RemoveAndResetChannel
  /\ UNCHANGED <<connect_, state_, retryDelayMs_, timerId_, timers, attempts,
                 open, gaveUp, functors, loopPc, crashed>>

(* handleWrite on success.  The socket is closed if stop() was called; if  *)
(* not, it goes to newConnectionCallback_.                                 *)
HandleConnected ==
  /\ HandlingEvents
  /\ Watching
  /\ state_ = "kConnecting"
  /\ RemoveAndResetChannel
  /\ state_' = "kConnected"
  /\ open' = open \ {channel_.fd}
  /\ UNCHANGED <<connect_, retryDelayMs_, timerId_, timers, attempts, gaveUp,
                 functors, loopPc, crashed>>

StartBatch ==
  /\ HandlingEvents
  /\ pendingFunctors_ # <<>>
  /\ functors' = pendingFunctors_
  /\ pendingFunctors_' = <<>>
  /\ UNCHANGED <<connectorVars, loopPc, crashed>>
==============================================================================
