---------------------------- MODULE TcpConnection ----------------------------
(***************************************************************************)
(* TcpConnection.{h,cpp}: the state of one connection and what each of its *)
(* handlers does to it.  A connection is a record, a handler an operator   *)
(* from records to records; TcpServer composes them with the event loops.  *)
(*                                                                         *)
(* A message is two units long, so that write(2) can take all, a part or   *)
(* none of it; the k-th message accepted consists of units 2k-1 and 2k.    *)
(* The input buffer only carries data to the user's callback and is left   *)
(* out.  So is handleWrite: the constructor never calls setWriteCallback,  *)
(* and Channel::handleEvent does nothing for POLLOUT without it.           *)
(***************************************************************************)
EXTENDS Naturals, Sequences

States == {"kConnecting", "kConnected", "kDisconnecting", "kDisconnected"}

Connections ==
  [state    : States,
   events   : SUBSET {"read", "write"},        \* channel_->events()
   index    : {"kNew", "kAdded", "kDeleted"},  \* channel_->index()
   output   : Seq(Nat),                        \* outputBuffer_
   accepted : Nat,                             \* messages sendInLoop was given
   wire     : Seq(Nat),                        \* units write(2) has taken
   finSent  : BOOLEAN,                         \* shutdown(fd, SHUT_WR) done
   peer     : {"open", "closed", "reset"},     \* what the other end did
   told     : Seq({"UP", "DOWN"})]             \* connCb_ calls so far

NewConn ==
  [state |-> "kConnecting", events |-> {}, index |-> "kNew",
   output |-> <<>>, accepted |-> 0, wire |-> <<>>,
   finSent |-> FALSE, peer |-> "open", told |-> <<>>]

IsWriting(r) == "write" \in r.events
Open(r) == r.state \in {"kConnected", "kDisconnecting"}

(* The kernel reports POLLHUP when both directions are shut.               *)
HungUp(r) == r.peer = "reset" \/ (r.peer = "closed" /\ r.finSent)

(* channel_->enable...() and disable...(): EpollPoller::updateChannel.     *)
WithEvents(r, ev) ==
  [r EXCEPT !.events = ev,
            !.index = IF r.index = "kAdded" /\ ev = {} THEN "kDeleted"
                                                      ELSE "kAdded"]

(* Mutation of Established: the channel is never told to read.             *)
EstablishedDeaf(r) ==
  [r EXCEPT !.state = "kConnected", !.told = Append(@, "UP")]

Established(r) ==
  [WithEvents(r, {"read"}) EXCEPT !.state = "kConnected",
                                  !.told = Append(@, "UP")]

(* disableAll, the user's callback, removeChannel.                         *)
Destroyed(r) ==
  [WithEvents(r, {}) EXCEPT !.state = "kDisconnected",
                            !.told = Append(@, "DOWN"),
                            !.index = "kNew"]

(* Mutation of Closed: the user is told here already.                      *)
ClosedTellingUser(r) == [WithEvents(r, {}) EXCEPT !.told = Append(@, "DOWN")]

(* handleClose up to closeCb_; the state stays what it was.                *)
Closed(r) == WithEvents(r, {})

(* write(2) is only tried when nothing is waiting; it may take nothing     *)
(* (EWOULDBLOCK), and takes nothing once the connection is broken (EPIPE,  *)
(* ECONNRESET), which sendInLoop treats alike.                             *)
Taken(r) ==
  IF IsWriting(r) \/ r.output # <<>> \/ r.finSent \/ r.peer = "reset"
    THEN {0} ELSE 0 .. 2

NextMessage(r) == <<2 * r.accepted + 1, 2 * r.accepted + 2>>

(* Mutation of SentInLoop: the test for a non-empty buffer is missing.     *)
SentInLoopRegardless(r, n) ==
  LET m == NextMessage(r)
      k == IF r.finSent \/ r.peer = "reset" THEN 0 ELSE 1
  IN  [r EXCEPT !.accepted = @ + 1,
                !.wire = @ \o SubSeq(m, 1, k),
                !.output = @ \o SubSeq(m, k + 1, 2)]

(* Mutation of SentInLoop: the rest is kept, but POLLOUT not asked for.    *)
SentInLoopWithoutWriting(r, n) ==
  [r EXCEPT !.accepted = @ + 1,
            !.wire = @ \o SubSeq(NextMessage(r), 1, n),
            !.output = @ \o SubSeq(NextMessage(r), n + 1, 2)]

(* sendInLoop, when write(2) takes n units: the rest goes to the output    *)
(* buffer and the channel waits for POLLOUT.                               *)
SentInLoop(r, n) ==
  LET m == NextMessage(r)
      kept == [r EXCEPT !.accepted = @ + 1,
                        !.wire = @ \o SubSeq(m, 1, n),
                        !.output = @ \o SubSeq(m, n + 1, 2)]
  IN  IF n < 2 /\ ~IsWriting(r) THEN WithEvents(kept, r.events \cup {"write"})
                                ELSE kept

ShutdownInLoop(r) == [r EXCEPT !.finSent = @ \/ ~IsWriting(r)]

-----------------------------------------------------------------------------
(* "to keep old and new data from being sent out of order" (sendInLoop):   *)
(* what is on the wire followed by what is waiting is what was accepted,   *)
(* in the order of acceptance, with nothing lost, doubled or overtaken.    *)
OutputInOrder(r) == r.wire \o r.output = [i \in 1 .. 2 * r.accepted |-> i]

(* As long as the connection reads, the channel waits for POLLOUT exactly  *)
(* while something is waiting to be written: nothing is left behind with   *)
(* no event to send it, and no POLLOUT is asked for without need.          *)
WritingIffWaiting(r) ==
  "read" \in r.events => (IsWriting(r) <=> r.output # <<>>)

(* connCb_ reports a connection up once and down at most once after that.  *)
ToldInOrder(r) ==
  /\ r.told \in {<<>>, <<"UP">>, <<"UP", "DOWN">>}
  /\ r.told = <<>> <=> r.state = "kConnecting"
==============================================================================
