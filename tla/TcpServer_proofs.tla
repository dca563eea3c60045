--------------------------- MODULE TcpServer_proofs ---------------------------
(***************************************************************************)
(* Theorems about TcpServer and the connections it composes, for any       *)
(* number of connections, loops and threads, and any limits on calls.      *)
(***************************************************************************)
EXTENDS TcpServer, SequenceTheorems, TLAPS

-----------------------------------------------------------------------------
(* What the handlers of TcpConnection preserve.                            *)

(* Two parts appended to two sequences, as if to their concatenation: a    *)
(* message of which the first part goes to the wire and the rest waits,    *)
(* when nothing goes to the wire or nothing waits yet.                     *)
Follows(wire, output, sent, kept) ==
  (wire \o sent) \o (output \o kept) = (wire \o output) \o (sent \o kept)

(* Nothing sent, nothing to be in order.                                   *)
LEMMA NothingTaken ==
  ASSUME NEW S, NEW wire \in Seq(S), NEW output \in Seq(S), NEW kept \in Seq(S)
  PROVE  Follows(wire, output, <<>>, kept)
<1>1. wire \o <<>> = wire /\ <<>> \o kept = kept
  BY ConcatEmptySeq
<1>2. (wire \o output) \o kept = wire \o (output \o kept)
  BY ConcatAssociative
<1> QED BY <1>1, <1>2 DEF Follows

(* With nothing waiting, order is a matter of what is written.             *)
LEMMA NothingWaiting ==
  ASSUME NEW S, NEW wire \in Seq(S), NEW sent \in Seq(S), NEW kept \in Seq(S)
  PROVE  Follows(wire, <<>>, sent, kept)
<1>1. <<>> \o kept = kept /\ wire \o <<>> = wire
  BY ConcatEmptySeq
<1>2. (wire \o sent) \o kept = wire \o (sent \o kept)
  BY ConcatAssociative
<1> QED BY <1>1, <1>2 DEF Follows

(* write(2) cuts a message in two, one part of which may be empty.         *)
LEMMA CutInTwo ==
  ASSUME NEW S, NEW m \in Seq(S), Len(m) = 2, NEW n \in 0 .. 2
  PROVE  /\ SubSeq(m, 1, n) \in Seq(S)
         /\ SubSeq(m, n + 1, 2) \in Seq(S)
         /\ SubSeq(m, 1, n) \o SubSeq(m, n + 1, 2) = m
         /\ n = 0 => SubSeq(m, 1, n) = <<>>
<1>1. \A i \in 1 .. 2 : m[i] \in S
  BY ElementOfSeq
<1>2. (\A i \in 1 .. n : m[i] \in S) /\ (\A i \in n + 1 .. 2 : m[i] \in S)
  BY <1>1
<1>3. /\ SubSeq(m, 1, n) \in Seq(S)
      /\ SubSeq(m, n + 1, 2) \in Seq(S)
  BY <1>2, SubSeqProperties
<1>4. /\ 1 \in 1 .. Len(m) + 1
      /\ n \in 1 - 1 .. Len(m)
      /\ 2 \in n .. Len(m)
  OBVIOUS
<1>5. SubSeq(m, 1, n) \o SubSeq(m, n + 1, 2) = SubSeq(m, 1, 2)
  BY <1>4, ConcatAdjacentSubSeq
<1>6. SubSeq(m, 1, 2) = m
  BY SubSeqFull
<1>7. n = 0 => SubSeq(m, 1, n) = <<>>
  BY SubSeqEmpty
<1> QED BY <1>3, <1>5, <1>6, <1>7

(* A message continues the count of those before it.                       *)
LEMMA CountOn ==
  ASSUME NEW k \in Nat, NEW s \in Seq(Nat), s = [i \in 1 .. k |-> i],
         NEW m \in Seq(Nat), Len(m) = 2, m[1] = k + 1, m[2] = k + 2
  PROVE  s \o m = [i \in 1 .. k + 2 |-> i]
<1>. DEFINE f == [i \in 1 .. k + 2 |-> i]
<1>1. Len(s) = k /\ \A i \in 1 .. k : s[i] = i
  <2>1. DOMAIN s = 1 .. k
    OBVIOUS
  <2>2. DOMAIN s = 1 .. Len(s) /\ Len(s) \in Nat
    BY LenProperties
  <2> QED BY <2>1, <2>2
<1>2. /\ s \o m \in Seq(Nat) /\ Len(s \o m) = k + 2
      /\ \A i \in 1 .. k + 2 : (s \o m)[i] = IF i <= k THEN s[i] ELSE m[i - k]
  <2>1. /\ s \o m \in Seq(Nat) /\ Len(s \o m) = Len(s) + Len(m)
        /\ \A i \in 1 .. Len(s) + Len(m) :
              (s \o m)[i] = IF i <= Len(s) THEN s[i] ELSE m[i - Len(s)]
    BY ConcatProperties, Zenon
  <2> QED BY <1>1, <2>1
<1>3. \A i \in 1 .. k + 2 : (s \o m)[i] = i
  BY <1>1, <1>2
<1>4. s \o m \in [1 .. k + 2 -> Nat]
  BY <1>2, LenProperties
<1> QED BY <1>3, <1>4

(* What is on the wire and what waits count up to k; the first n units of  *)
(* a message follow on the wire, the others wait.                          *)
CountTo(wire, output, k) == wire \o output = [i \in 1 .. k |-> i]
Written(wire, m, n) == wire \o SubSeq(m, 1, n)
Kept(output, m, n) == output \o SubSeq(m, n + 1, 2)

(* What write(2) takes of a message, and what it leaves, continue what was *)
(* sent.                                                                   *)
LEMMA MessageFollows ==
  ASSUME NEW wire \in Seq(Nat), NEW output \in Seq(Nat), NEW k \in Nat,
         CountTo(wire, output, k),
         NEW n \in 0 .. 2,
         NEW m \in Seq(Nat), Len(m) = 2, m[1] = k + 1, m[2] = k + 2
  PROVE  n = 0 \/ output = <<>> =>
           CountTo(Written(wire, m, n), Kept(output, m, n), k + 2)
<1>. DEFINE sent == SubSeq(m, 1, n)
            kept == SubSeq(m, n + 1, 2)
<1>1. /\ sent \in Seq(Nat) /\ kept \in Seq(Nat)
      /\ sent \o kept = m
      /\ n = 0 => sent = <<>>
  BY CutInTwo
<1>. HIDE DEF sent, kept
<1>2. Follows(wire, output, <<>>, kept) /\ Follows(wire, <<>>, sent, kept)
  BY <1>1, NothingTaken, NothingWaiting
<1>3. n = 0 \/ output = <<>> => Follows(wire, output, sent, kept)
  BY <1>1, <1>2
<1>4. (wire \o output) \o m = [i \in 1 .. k + 2 |-> i]
  <2>1. wire \o output \in Seq(Nat)
    BY ConcatProperties
  <2>2. wire \o output = [i \in 1 .. k |-> i]
    BY DEF CountTo
  <2> QED BY <2>1, <2>2, CountOn
<1> QED BY <1>1, <1>3, <1>4 DEF Follows, CountTo, Written, Kept, sent, kept

(* sendInLoop keeps the order: while something waits, write(2) is not      *)
(* tried, so what it takes follows directly what is on the wire.           *)
LEMMA SendKeepsOrder ==
  ASSUME NEW r \in Connections, NEW n \in Taken(r), OutputInOrder(r)
  PROVE  OutputInOrder(SentInLoop(r, n))
<1>. DEFINE m == NextMessage(r)
            k == 2 * r.accepted
<1>1. /\ r.wire \in Seq(Nat) /\ r.output \in Seq(Nat) /\ r.accepted \in Nat
      /\ k \in Nat /\ n \in 0 .. 2
      /\ n = 0 \/ r.output = <<>>
  BY DEF Connections, Taken
<1>2. m \in Seq(Nat) /\ Len(m) = 2 /\ m[1] = k + 1 /\ m[2] = k + 2
  BY <1>1 DEF NextMessage
<1>3. /\ SentInLoop(r, n).wire = Written(r.wire, m, n)
      /\ SentInLoop(r, n).output = Kept(r.output, m, n)
      /\ SentInLoop(r, n).accepted = r.accepted + 1
  BY DEF SentInLoop, WithEvents, Connections, Written, Kept
<1>4. CountTo(r.wire, r.output, k)
  BY DEF OutputInOrder, CountTo
<1>5. 2 * (r.accepted + 1) = k + 2
  BY <1>1
<1>. HIDE DEF m, k
<1>6. CountTo(Written(r.wire, m, n), Kept(r.output, m, n), k + 2)
  BY <1>1, <1>2, <1>4, MessageFollows
<1> QED BY <1>3, <1>5, <1>6 DEF OutputInOrder, CountTo

-----------------------------------------------------------------------------
(* The inductive invariant.                                                *)

(* A connection keeps its order of output and of callbacks; before it is   *)
(* up nothing waits, and until it is down it is open.                      *)
ConnInv(r) ==
  /\ OutputInOrder(r)
  /\ WritingIffWaiting(r)
  /\ ToldInOrder(r)
  /\ r.told = <<>> => r.output = <<>>
  /\ r.told = <<"UP">> => Open(r)

(* What loop l has still to run: the part of its batch after ran[l], and   *)
(* its queue.  A functor that has run is still in the batch, and owns.     *)
Is(f, op, c) == f.op = op /\ f.conn = c
Left(b, n) == {i \in DOMAIN b : i > n}
ToRun(b, n, q, op, c) ==
  \/ \E i \in Left(b, n) : Is(b[i], op, c)
  \/ \E i \in DOMAIN q : Is(q[i], op, c)
OnceToRun(b, n, q, op, c) ==
  /\ \A i, j \in Left(b, n) : Is(b[i], op, c) /\ Is(b[j], op, c) => i = j
  /\ \A i, j \in DOMAIN q : Is(q[i], op, c) /\ Is(q[j], op, c) => i = j
  /\ \A i \in Left(b, n), j \in DOMAIN q : ~(Is(b[i], op, c) /\ Is(q[j], op, c))

Ops == Owning \cup RawThis
OnceOps == {"connEstablished", "connDestroyed"}

(* connEstablished and connDestroyed are queued once in the life of a      *)
(* connection, to its own loop io: the first while it is in the map cs and *)
(* not yet up, the second when it leaves the map; everything else comes    *)
(* when it is up.  (b, n and q are the batches, their positions and the    *)
(* queues of the loops.)                                                   *)
Carried(b, n, q, io, cs, told, c) ==
  /\ \A l \in Loops, op \in Ops :
       ToRun(b[l], n[l], q[l], op, c) => /\ io # "none"
                                         /\ op = "connEstablished" <=> told = <<>>
  /\ \A l \in Loops, op \in OnceOps :
       /\ ToRun(b[l], n[l], q[l], op, c) => l = io
       /\ OnceToRun(b[l], n[l], q[l], op, c)
  /\ \A l \in Loops : ToRun(b[l], n[l], q[l], "connDestroyed", c)
                         => c \notin cs /\ told = <<"UP">>
  /\ io = "none" => c \notin cs /\ told = <<>>
  /\ io # "none" /\ told = <<>> => c \in cs
  /\ c \in cs => told # <<"UP", "DOWN">>
  /\ told = <<"UP">> /\ c \notin cs
       => ToRun(b[io], n[io], q[io], "connDestroyed", c)

CarriedInv(c) ==
  Carried(batch, ran, queue, ioLoop[c], connections_, conn[c].told, c)

(* The pool's next loop exists, a loop without a batch has run nothing of  *)
(* it, and other threads call connections that have been up.               *)
LoopsInv ==
  /\ next_ = 0 \/ next_ < Len(loops_)
  /\ \A l \in Loops : batch[l] = <<>> => ran[l] = 0
  /\ \A t \in Threads : calling[t] # NoCall => conn[calling[t][2]].told # <<>>

ConnsInv == \A c \in Conns : ConnInv(conn[c])
CarriersInv == \A c \in Conns : CarriedInv(c)
IInv == TypeOK /\ LoopsInv /\ ConnsInv /\ CarriersInv

-----------------------------------------------------------------------------
(* What the handlers do to a connection.                                   *)

(* sendInLoop() keeps the type of a connection, ...                        *)
LEMMA SentTypes ==
  ASSUME NEW r \in Connections, NEW n \in Taken(r)
  PROVE  /\ SentInLoop(r, n) \in Connections
         /\ SentInLoop(r, n).told = r.told
         /\ SentInLoop(r, n).state = r.state
<1>1. /\ r.wire \in Seq(Nat) /\ r.output \in Seq(Nat) /\ r.accepted \in Nat
      /\ n \in 0 .. 2
      /\ n = 0 \/ r.output = <<>>
      /\ n = 2 => ~IsWriting(r)
  BY DEF Connections, Taken
<1>. DEFINE m == NextMessage(r)
<1>2. m \in Seq(Nat) /\ Len(m) = 2
  <2>1. r.accepted \in Nat
    BY <1>1
  <2> QED BY ONLY <2>1 DEF NextMessage
<1>. HIDE DEF m
<1>3. Written(r.wire, m, n) \in Seq(Nat) /\ Kept(r.output, m, n) \in Seq(Nat)
  <2>1. SubSeq(m, 1, n) \in Seq(Nat) /\ SubSeq(m, n + 1, 2) \in Seq(Nat)
    <3>1. n \in 0 .. 2
      BY <1>1
    <3> QED BY ONLY <1>2, <3>1, CutInTwo
  <2> QED BY <1>1, <2>1, ConcatProperties DEF Written, Kept
<1>4. PICK ev \in SUBSET {"read", "write"}, ix \in {"kNew", "kAdded", "kDeleted"} :
        SentInLoop(r, n) = [r EXCEPT !.accepted = r.accepted + 1,
                                     !.wire = Written(r.wire, m, n),
                                     !.output = Kept(r.output, m, n),
                                     !.events = ev, !.index = ix]
  <2>1. CASE n < 2 /\ ~IsWriting(r)
    <3>1. SentInLoop(r, n) = [r EXCEPT !.accepted = r.accepted + 1,
                                     !.wire = Written(r.wire, m, n),
                                     !.output = Kept(r.output, m, n),
                                     !.events = r.events \cup {"write"},
                                     !.index = "kAdded"]
      BY <2>1 DEF SentInLoop, WithEvents, Connections, Written, Kept, m
    <3>2. r.events \cup {"write"} \in SUBSET {"read", "write"}
      BY DEF Connections
    <3> QED BY <3>1, <3>2
  <2>2. CASE ~(n < 2 /\ ~IsWriting(r))
    <3>1. SentInLoop(r, n) = [r EXCEPT !.accepted = r.accepted + 1,
                                     !.wire = Written(r.wire, m, n),
                                     !.output = Kept(r.output, m, n),
                                     !.events = r.events, !.index = r.index]
      BY <2>2 DEF SentInLoop, WithEvents, Connections, Written, Kept, m
    <3>2. r.events \in SUBSET {"read", "write"} /\ r.index \in {"kNew", "kAdded", "kDeleted"}
      BY DEF Connections
    <3> QED BY <3>1, <3>2
  <2> QED BY <2>1, <2>2, Zenon
<1>5. r.accepted + 1 \in Nat
  BY <1>1
<1>6. SentInLoop(r, n) \in Connections
  BY <1>3, <1>4, <1>5 DEF Connections
<1>7. SentInLoop(r, n).told = r.told /\ SentInLoop(r, n).state = r.state
  BY <1>4 DEF Connections
<1> QED BY <1>6, <1>7

(* ... and asks for POLLOUT exactly when it leaves something waiting.      *)
LEMMA SentWaits ==
  ASSUME NEW r \in Connections, NEW n \in Taken(r), WritingIffWaiting(r)
  PROVE  WritingIffWaiting(SentInLoop(r, n))
<1>1. /\ r.output \in Seq(Nat) /\ r.accepted \in Nat
      /\ n \in 0 .. 2
      /\ n # 0 => r.output = <<>> /\ ~IsWriting(r)
  BY DEF Connections, Taken
<1>. DEFINE m == NextMessage(r)
<1>2. m \in Seq(Nat) /\ Len(m) = 2
  BY <1>1 DEF NextMessage
<1>3. SentInLoop(r, n).output = Kept(r.output, m, n)
  BY DEF SentInLoop, WithEvents, Connections, Kept
<1>4. SentInLoop(r, n).events = IF n < 2 THEN r.events \cup {"write"} ELSE r.events
  BY DEF SentInLoop, WithEvents, Connections, IsWriting
<1>. HIDE DEF m
<1>5. Kept(r.output, m, n) = <<>> <=> n = 2
  <2>1. /\ SubSeq(m, n + 1, 2) \in Seq(Nat)
        /\ Len(SubSeq(m, n + 1, 2)) = 2 - n
    <3>1. \A i \in 1 .. 2 : m[i] \in Nat
      BY <1>2, ElementOfSeq
    <3>2. \A i \in n + 1 .. 2 : m[i] \in Nat
      BY <1>1, <3>1
    <3> QED BY <1>1, <3>2, SubSeqProperties
  <2>2. SubSeq(m, n + 1, 2) = <<>> <=> n = 2
    <3>1. SubSeq(m, n + 1, 2) = <<>> <=> Len(SubSeq(m, n + 1, 2)) = 0
      BY <2>1, EmptySeq
    <3> QED BY <1>1, <2>1, <3>1
  <2>3. Kept(r.output, m, n) = <<>> <=> r.output = <<>> /\ SubSeq(m, n + 1, 2) = <<>>
    BY <1>1, <2>1, ConcatEqualIffEmpty DEF Kept
  <2> QED BY <1>1, <2>2, <2>3
<1> QED BY <1>1, <1>3, <1>4, <1>5 DEF WritingIffWaiting, IsWriting

(* sendInLoop, on a connection that has been up.                           *)
LEMMA SentKeepsConn ==
  ASSUME NEW r \in Connections, NEW n \in Taken(r), ConnInv(r), r.told # <<>>
  PROVE  ConnInv(SentInLoop(r, n))
BY SendKeepsOrder, SentWaits, SentTypes DEF ConnInv, ToldInOrder, Open

(* A second callback.                                                      *)
LEMMA AppendToOne ==
  ASSUME NEW x, NEW y
  PROVE  Append(<<x>>, y) = <<x, y>>
<1>1. /\ <<x>> \in Seq({x, y})
      /\ Append(<<x>>, y) \in Seq({x, y})
      /\ Len(Append(<<x>>, y)) = 2
      /\ Append(<<x>>, y)[1] = x
      /\ Append(<<x>>, y)[2] = y
  BY AppendProperties
<1>2. <<x, y>> \in Seq({x, y}) /\ Len(<<x, y>>) = 2
  OBVIOUS
<1>3. \A i \in 1 .. 2 : Append(<<x>>, y)[i] = <<x, y>>[i]
  BY <1>1
<1> QED BY <1>1, <1>2, <1>3, SeqEqual

(* The three things a user can have been told.                             *)
LEMMA ToldValues ==
  /\ <<>> # <<"UP">> /\ <<>> # <<"UP", "DOWN">> /\ <<"UP">> # <<"UP", "DOWN">>
  /\ Append(<<>>, "UP") = <<"UP">>
  /\ Append(<<"UP">>, "DOWN") = <<"UP", "DOWN">>
  /\ <<"UP">> \in Seq({"UP", "DOWN"}) /\ <<"UP", "DOWN">> \in Seq({"UP", "DOWN"})
<1>1. <<>> # <<"UP">>
  OBVIOUS
<1>2. <<>> # <<"UP", "DOWN">>
  OBVIOUS
<1>3. <<"UP">> # <<"UP", "DOWN">>
  OBVIOUS
<1>4. Append(<<>>, "UP") = <<"UP">>
  OBVIOUS
<1>5. Append(<<"UP">>, "DOWN") = <<"UP", "DOWN">>
  BY AppendToOne
<1>6. <<"UP">> \in Seq({"UP", "DOWN"})
  OBVIOUS
<1>7. <<"UP", "DOWN">> \in Seq({"UP", "DOWN"})
  OBVIOUS
<1> QED BY <1>1, <1>2, <1>3, <1>4, <1>5, <1>6, <1>7

(* connEstablished() reports UP.                                           *)
LEMMA EstablishedKeepsConn ==
  ASSUME NEW r \in Connections, ConnInv(r), r.told = <<>>
  PROVE  /\ Established(r) \in Connections
         /\ ConnInv(Established(r))
         /\ Established(r).told = <<"UP">>
<1>1. Established(r) = [r EXCEPT !.events = {"read"}, !.index = "kAdded",
                                !.state = "kConnected", !.told = <<"UP">>]
  BY ToldValues DEF Established, WithEvents, Connections
<1>2. /\ Established(r) \in Connections
      /\ Established(r).told = <<"UP">> /\ Established(r).output = r.output
      /\ Established(r).wire = r.wire /\ Established(r).accepted = r.accepted
      /\ Established(r).state = "kConnected" /\ Established(r).events = {"read"}
  <2>1. {"read"} \in SUBSET {"read", "write"}
    OBVIOUS
  <2> QED BY <1>1, <2>1, ToldValues DEF Connections, States
<1>3. r.output = <<>> /\ OutputInOrder(r)
  BY DEF ConnInv
<1> QED BY <1>2, <1>3, ToldValues DEF ConnInv, OutputInOrder, WritingIffWaiting,
           IsWriting, ToldInOrder, Open

(* connDestroyed() reports DOWN.                                           *)
LEMMA DestroyedKeepsConn ==
  ASSUME NEW r \in Connections, ConnInv(r), r.told = <<"UP">>
  PROVE  /\ Destroyed(r) \in Connections
         /\ ConnInv(Destroyed(r))
         /\ Destroyed(r).told = <<"UP", "DOWN">>
<1>1. Destroyed(r) = [r EXCEPT !.events = {}, !.index = "kNew",
                              !.state = "kDisconnected", !.told = <<"UP", "DOWN">>]
  BY ToldValues DEF Destroyed, WithEvents, Connections
<1> QED BY <1>1, ToldValues DEF ConnInv, OutputInOrder, WritingIffWaiting, IsWriting,
           ToldInOrder, Open, Connections, States

(* The other handlers, and the users' writes of state_.                    *)
LEMMA OthersKeepConn ==
  ASSUME NEW r \in Connections, ConnInv(r), NEW s \in Connections,
         s.told = r.told, s.output = r.output, s.wire = r.wire,
         s.accepted = r.accepted, s.events \in {r.events, {}},
         s.state = r.state \/ (s.state = "kDisconnecting" /\ r.told # <<>>)
  PROVE  ConnInv(s)
BY ToldValues DEF ConnInv, OutputInOrder, WritingIffWaiting, IsWriting, ToldInOrder,
   Open, Connections

(* handleClose() reports nothing and keeps the output as it is.            *)
LEMMA ClosedKeepsConn ==
  ASSUME NEW r \in Connections, ConnInv(r)
  PROVE  /\ Closed(r) \in Connections
         /\ ConnInv(Closed(r))
         /\ Closed(r).told = r.told
<1>1. /\ Closed(r) \in Connections
      /\ Closed(r).told = r.told /\ Closed(r).output = r.output
      /\ Closed(r).wire = r.wire /\ Closed(r).accepted = r.accepted
      /\ Closed(r).state = r.state /\ Closed(r).events = {}
  BY DEF Closed, WithEvents, Connections
<1> QED BY <1>1, OthersKeepConn

(* shutdown() and forceClose() only change state_ by themselves.           *)
LEMMA UserKeepsConn ==
  ASSUME NEW r \in Connections, ConnInv(r), r.told # <<>>
  PROVE  LET s == [r EXCEPT !.state = "kDisconnecting"]
         IN  s \in Connections /\ ConnInv(s) /\ s.told = r.told
<1>. DEFINE s == [r EXCEPT !.state = "kDisconnecting"]
<1>1. /\ s \in Connections
      /\ s.told = r.told /\ s.output = r.output
      /\ s.wire = r.wire /\ s.accepted = r.accepted
      /\ s.state = "kDisconnecting" /\ s.events = r.events
  BY DEF Connections, States
<1> QED BY <1>1, OthersKeepConn

(* shutdownInLoop() keeps the output as it is.                             *)
LEMMA ShutdownKeepsConn ==
  ASSUME NEW r \in Connections, ConnInv(r)
  PROVE  /\ ShutdownInLoop(r) \in Connections
         /\ ConnInv(ShutdownInLoop(r))
         /\ ShutdownInLoop(r).told = r.told
<1>1. /\ ShutdownInLoop(r) \in Connections
      /\ ShutdownInLoop(r).told = r.told /\ ShutdownInLoop(r).output = r.output
      /\ ShutdownInLoop(r).wire = r.wire /\ ShutdownInLoop(r).accepted = r.accepted
      /\ ShutdownInLoop(r).state = r.state /\ ShutdownInLoop(r).events = r.events
  BY DEF ShutdownInLoop, IsWriting, Connections
<1> QED BY <1>1, OthersKeepConn

-----------------------------------------------------------------------------
(* What the loops' steps do to what they have still to run.                *)

(* Swapping the queue into the empty batch, or destroying the batch, when  *)
(* all of it has run, changes nothing.                                     *)
LEMMA SwapKeepsToRun ==
  ASSUME NEW q \in Seq(Functors), NEW op, NEW c
  PROVE  /\ ToRun(q, 0, <<>>, op, c) <=> ToRun(<<>>, 0, q, op, c)
         /\ OnceToRun(<<>>, 0, q, op, c) => OnceToRun(q, 0, <<>>, op, c)
<1>1. Left(q, 0) = DOMAIN q
  <2>1. DOMAIN q = 1 .. Len(q) /\ Len(q) \in Nat
    BY LenProperties
  <2> QED BY <2>1 DEF Left
<1>2. DOMAIN <<>> = {}
  OBVIOUS
<1>3. Left(<<>>, 0) = {}
  BY <1>2 DEF Left
<1> QED BY <1>1, <1>2, <1>3 DEF ToRun, OnceToRun

(* A batch that has been run holds nothing that is still to run.           *)
LEMMA FinishKeepsToRun ==
  ASSUME NEW q \in Seq(Functors), NEW b \in Seq(Functors), NEW op, NEW c
  PROVE  /\ ToRun(b, Len(b), q, op, c) <=> ToRun(<<>>, 0, q, op, c)
         /\ OnceToRun(b, Len(b), q, op, c) => OnceToRun(<<>>, 0, q, op, c)
<1>1. Left(b, Len(b)) = {} /\ Left(<<>>, 0) = {}
  BY DEF Left
<1> QED BY <1>1 DEF ToRun, OnceToRun

(* Running the next functor of the batch takes just this one away.         *)
LEMMA RunTakesOne ==
  ASSUME NEW q \in Seq(Functors), NEW b \in Seq(Functors), NEW n \in Nat, n < Len(b),
         NEW op, NEW c
  PROVE  /\ ToRun(b, n, q, op, c)
               <=> Is(b[n + 1], op, c) \/ ToRun(b, n + 1, q, op, c)
         /\ OnceToRun(b, n, q, op, c) =>
               /\ OnceToRun(b, n + 1, q, op, c)
               /\ Is(b[n + 1], op, c) => ~ToRun(b, n + 1, q, op, c)
<1>1. /\ Left(b, n) = Left(b, n + 1) \cup {n + 1}
      /\ n + 1 \notin Left(b, n + 1)
  BY DEF Left
<1> QED BY <1>1 DEF ToRun, OnceToRun

(* Queueing functors adds just these.                                      *)
LEMMA QueueAddsOne ==
  ASSUME NEW q \in Seq(Functors), NEW b \in Seq(Functors), NEW n \in Nat,
         NEW f \in Functors, NEW op, NEW c
  PROVE  /\ ToRun(b, n, Append(q, f), op, c) <=> Is(f, op, c) \/ ToRun(b, n, q, op, c)
         /\ OnceToRun(b, n, q, op, c) /\ ~(Is(f, op, c) /\ ToRun(b, n, q, op, c))
               => OnceToRun(b, n, Append(q, f), op, c)
<1>1. /\ DOMAIN Append(q, f) = DOMAIN q \cup {Len(q) + 1}
      /\ Len(q) + 1 \notin DOMAIN q
      /\ Append(q, f)[Len(q) + 1] = f
      /\ \A i \in DOMAIN q : Append(q, f)[i] = q[i]
  BY AppendProperties
<1> QED BY <1>1 DEF ToRun, OnceToRun

Several(q, k, f) == q \o [i \in 1 .. k |-> f]

(* Queueing a functor once or twice keeps the queue's type.                *)
LEMMA SeveralType ==
  ASSUME NEW q \in Seq(Functors), NEW f \in Functors, NEW k \in {1, 2}
  PROVE  Several(q, k, f) \in Seq(Functors)
<1>1. [i \in 1 .. k |-> f] \in Seq(Functors)
  OBVIOUS
<1> QED BY <1>1, ConcatProperties DEF Several

(* Queueing a functor adds it and no other to what is still to run.        *)
LEMMA QueueAddsSame ==
  ASSUME NEW q \in Seq(Functors), NEW b \in Seq(Functors), NEW n \in Nat,
         NEW f \in Functors, NEW k \in {1, 2}, NEW op, NEW c
  PROVE  /\ Several(q, k, f) \in Seq(Functors)
         /\ ToRun(b, n, Several(q, k, f), op, c)
               <=> Is(f, op, c) \/ ToRun(b, n, q, op, c)
         /\ OnceToRun(b, n, q, op, c) /\ ~Is(f, op, c)
               => OnceToRun(b, n, Several(q, k, f), op, c)
<1>. DEFINE s == [i \in 1 .. k |-> f]
            more == q \o s
<1>1. s \in Seq(Functors) /\ Len(s) = k /\ \A i \in 1 .. k : s[i] = f
  OBVIOUS
<1>. HIDE DEF s
<1>2. /\ more \in Seq(Functors)
      /\ Len(more) = Len(q) + k
      /\ \A i \in 1 .. Len(q) + k : more[i] = IF i <= Len(q) THEN q[i] ELSE s[i - Len(q)]
  BY <1>1, ConcatProperties
<1>. HIDE DEF more
<1>3. /\ DOMAIN q = 1 .. Len(q) /\ Len(q) \in Nat
      /\ DOMAIN more = 1 .. Len(q) + k
  BY <1>2
<1>4. /\ \A i \in DOMAIN q : i \in DOMAIN more /\ more[i] = q[i]
      /\ \A i \in DOMAIN more : i \in DOMAIN q \/ more[i] = f
      /\ \E i \in DOMAIN more : more[i] = f
  <2>1. \A i \in DOMAIN q : i \in DOMAIN more /\ more[i] = q[i]
    BY <1>2, <1>3
  <2>2. ASSUME NEW i \in DOMAIN more, i \notin DOMAIN q
        PROVE  more[i] = f
    <3>1. i - Len(q) \in 1 .. k /\ more[i] = s[i - Len(q)]
      BY <1>2, <1>3, <2>2
    <3> QED BY <1>1, <3>1
  <2>3. Len(q) + 1 \in DOMAIN more /\ Len(q) + 1 \notin DOMAIN q
    BY <1>3
  <2> QED BY <2>1, <2>2, <2>3
<1>5. ToRun(b, n, more, op, c) <=> Is(f, op, c) \/ ToRun(b, n, q, op, c)
  BY <1>4 DEF ToRun
<1>6. OnceToRun(b, n, q, op, c) /\ ~Is(f, op, c) => OnceToRun(b, n, more, op, c)
  BY <1>4 DEF OnceToRun
<1> QED BY <1>2, <1>5, <1>6 DEF more, s, Several

-----------------------------------------------------------------------------
(* What that does to a connection that is being carried.                   *)

QueueTypes(b, n, q) ==
  /\ b \in [Loops -> Seq(Functors)]
  /\ n \in [Loops -> Nat]
  /\ q \in [Loops -> Seq(Functors)]

(* Only whether the connection itself is in the map matters to it.         *)
LEMMA OtherEntries ==
  ASSUME NEW b, NEW n, NEW q, NEW io, NEW cs, NEW told, NEW c,
         Carried(b, n, q, io, cs, told, c), NEW more, c \in cs <=> c \in more
  PROVE  Carried(b, n, q, io, more, told, c)
BY DEF Carried

(* A connection is carried just as well by the batch as by the queue, ...  *)
LEMMA SwapKeepsCarried ==
  ASSUME NEW b, NEW n, NEW q, QueueTypes(b, n, q), NEW io \in Loops \cup {"none"},
         NEW cs, NEW told, NEW c,
         Carried(b, n, q, io, cs, told, c),
         NEW l \in Loops, b[l] = <<>>, n[l] = 0
  PROVE  Carried([b EXCEPT ![l] = q[l]], n, [q EXCEPT ![l] = <<>>], io, cs, told, c)
<1>. DEFINE b1 == [b EXCEPT ![l] = q[l]]
            q1 == [q EXCEPT ![l] = <<>>]
<1>1. \A m \in Loops, op \in Ops :
        /\ ToRun(b1[m], n[m], q1[m], op, c) <=> ToRun(b[m], n[m], q[m], op, c)
        /\ OnceToRun(b[m], n[m], q[m], op, c) => OnceToRun(b1[m], n[m], q1[m], op, c)
  BY SwapKeepsToRun DEF QueueTypes
<1> QED BY <1>1 DEF Carried, Ops, OnceOps, Owning, Carrying

(* ... does not lose its carrier when a batch is through, ...              *)
LEMMA FinishKeepsCarried ==
  ASSUME NEW b, NEW n, NEW q, QueueTypes(b, n, q), NEW io \in Loops \cup {"none"},
         NEW cs, NEW told, NEW c,
         Carried(b, n, q, io, cs, told, c),
         NEW l \in Loops, n[l] = Len(b[l])
  PROVE  Carried([b EXCEPT ![l] = <<>>], [n EXCEPT ![l] = 0], q, io, cs, told, c)
<1>. DEFINE b1 == [b EXCEPT ![l] = <<>>]
            n1 == [n EXCEPT ![l] = 0]
<1>1. \A m \in Loops, op \in Ops :
        /\ ToRun(b1[m], n1[m], q[m], op, c) <=> ToRun(b[m], n[m], q[m], op, c)
        /\ OnceToRun(b[m], n[m], q[m], op, c) => OnceToRun(b1[m], n1[m], q[m], op, c)
  BY FinishKeepsToRun DEF QueueTypes
<1> QED BY <1>1 DEF Carried, Ops, OnceOps, Owning, Carrying

(* Queueing what does not carry it, or belongs to another connection.      *)
LEMMA QueueKeepsCarried ==
  ASSUME NEW b, NEW n, NEW q, QueueTypes(b, n, q), NEW io \in Loops \cup {"none"},
         NEW cs, NEW told, NEW c,
         Carried(b, n, q, io, cs, told, c),
         NEW l \in Loops, NEW f \in Functors,
         f.conn = c => f.op \notin OnceOps /\ told # <<>>
  PROVE  Carried(b, n, [q EXCEPT ![l] = Append(@, f)], io, cs, told, c)
<1>. DEFINE q1 == [q EXCEPT ![l] = Append(@, f)]
<1>1. \A m \in Loops, op \in Ops :
        /\ ToRun(b[m], n[m], q1[m], op, c)
              <=> ToRun(b[m], n[m], q[m], op, c) \/ (m = l /\ Is(f, op, c))
        /\ op \in OnceOps /\ OnceToRun(b[m], n[m], q[m], op, c)
              => OnceToRun(b[m], n[m], q1[m], op, c)
  BY QueueAddsOne DEF QueueTypes, Is
<1> QED BY <1>1 DEF Carried, Ops, OnceOps, Owning, Carrying, Is

(* ... and gets no second one from functors of other kinds.                *)
LEMMA QueueSameKeepsCarried ==
  ASSUME NEW b, NEW n, NEW q, QueueTypes(b, n, q), NEW io \in Loops \cup {"none"},
         NEW cs, NEW told, NEW c,
         Carried(b, n, q, io, cs, told, c),
         NEW l \in Loops, NEW f \in Functors, NEW k \in {1, 2},
         f.op \notin OnceOps, f.conn = c => told # <<>>
  PROVE  Carried(b, n, [q EXCEPT ![l] = Several(@, k, f)], io, cs, told, c)
<1>. DEFINE q1 == [q EXCEPT ![l] = Several(@, k, f)]
<1>1. \A m \in Loops, op \in Ops :
        /\ ToRun(b[m], n[m], q1[m], op, c)
              <=> ToRun(b[m], n[m], q[m], op, c) \/ (m = l /\ Is(f, op, c))
        /\ op \in OnceOps /\ OnceToRun(b[m], n[m], q[m], op, c)
              => OnceToRun(b[m], n[m], q1[m], op, c)
  BY QueueAddsSame DEF QueueTypes, Is
<1> QED BY <1>1 DEF Carried, Ops, OnceOps, Owning, Carrying, Is

(* Running a functor that does not destroy it ...                          *)
LEMMA RunKeepsCarried ==
  ASSUME NEW b, NEW n, NEW q, QueueTypes(b, n, q), NEW io \in Loops \cup {"none"},
         NEW cs, NEW told, NEW c,
         Carried(b, n, q, io, cs, told, c),
         NEW l \in Loops, n[l] < Len(b[l]),
         ~Is(b[l][n[l] + 1], "connDestroyed", c)
  PROVE  Carried(b, [n EXCEPT ![l] = @ + 1], q, io, cs, told, c)
<1>. DEFINE f == b[l][n[l] + 1]
            n1 == [n EXCEPT ![l] = @ + 1]
<1>1. \A m \in Loops, op \in Ops :
        /\ ToRun(b[m], n[m], q[m], op, c)
              <=> ToRun(b[m], n1[m], q[m], op, c) \/ (m = l /\ Is(f, op, c))
        /\ OnceToRun(b[m], n[m], q[m], op, c) => OnceToRun(b[m], n1[m], q[m], op, c)
  BY RunTakesOne DEF QueueTypes
<1> QED BY <1>1 DEF Carried, Ops, OnceOps, Owning, Carrying, Is

(* ... or one that belongs to it: its connection is what the functor       *)
(* expects.                                                                *)
LEMMA RunExpects ==
  ASSUME NEW b, NEW n, NEW q, QueueTypes(b, n, q), NEW io \in Loops \cup {"none"},
         NEW cs, NEW told, NEW c,
         Carried(b, n, q, io, cs, told, c),
         NEW l \in Loops, n[l] < Len(b[l]),
         NEW op \in Ops, Is(b[l][n[l] + 1], op, c)
  PROVE  /\ io # "none"
         /\ op = "connEstablished" <=> told = <<>>
         /\ op = "connDestroyed" => told = <<"UP">>
<1>1. ToRun(b[l], n[l], q[l], op, c)
  BY RunTakesOne DEF QueueTypes
<1> QED BY <1>1 DEF Carried, Ops, OnceOps, Owning, Carrying

(* connEstablished runs once, ...                                          *)
LEMMA EstablishKeepsCarried ==
  ASSUME NEW b, NEW n, NEW q, QueueTypes(b, n, q), NEW io \in Loops \cup {"none"},
         NEW cs, NEW c,
         Carried(b, n, q, io, cs, <<>>, c),
         NEW l \in Loops, n[l] < Len(b[l]),
         Is(b[l][n[l] + 1], "connEstablished", c)
  PROVE  Carried(b, [n EXCEPT ![l] = @ + 1], q, io, cs, <<"UP">>, c)
<1>. DEFINE f == b[l][n[l] + 1]
            n1 == [n EXCEPT ![l] = @ + 1]
<1>1. \A m \in Loops, op \in Ops :
        /\ ToRun(b[m], n[m], q[m], op, c)
              <=> ToRun(b[m], n1[m], q[m], op, c) \/ (m = l /\ Is(f, op, c))
        /\ OnceToRun(b[m], n[m], q[m], op, c) =>
              /\ OnceToRun(b[m], n1[m], q[m], op, c)
              /\ m = l /\ Is(f, op, c) => ~ToRun(b[m], n1[m], q[m], op, c)
  BY RunTakesOne DEF QueueTypes
<1>2. \A m \in Loops, op \in Ops : ~ToRun(b[m], n1[m], q[m], op, c)
  BY <1>1 DEF Carried, Ops, OnceOps, Owning, Carrying, Is
<1> QED BY <1>1, <1>2, ToldValues DEF Carried, Ops, OnceOps, Owning, Carrying, Is

(* ... and so does connDestroyed.                                          *)
LEMMA DestroyKeepsCarried ==
  ASSUME NEW b, NEW n, NEW q, QueueTypes(b, n, q), NEW io \in Loops \cup {"none"},
         NEW cs, NEW c,
         Carried(b, n, q, io, cs, <<"UP">>, c),
         NEW l \in Loops, n[l] < Len(b[l]),
         Is(b[l][n[l] + 1], "connDestroyed", c)
  PROVE  Carried(b, [n EXCEPT ![l] = @ + 1], q, io, cs, <<"UP", "DOWN">>, c)
<1>. DEFINE f == b[l][n[l] + 1]
            n1 == [n EXCEPT ![l] = @ + 1]
<1>1. \A m \in Loops, op \in Ops :
        /\ ToRun(b[m], n[m], q[m], op, c)
              <=> ToRun(b[m], n1[m], q[m], op, c) \/ (m = l /\ Is(f, op, c))
        /\ OnceToRun(b[m], n[m], q[m], op, c) =>
              /\ OnceToRun(b[m], n1[m], q[m], op, c)
              /\ m = l /\ Is(f, op, c) => ~ToRun(b[m], n1[m], q[m], op, c)
  BY RunTakesOne DEF QueueTypes
<1>2. \A m \in Loops : ~ToRun(b[m], n1[m], q[m], "connDestroyed", c)
  BY <1>1 DEF Carried, Ops, OnceOps, Owning, Carrying, Is
<1> QED BY <1>1, <1>2, ToldValues DEF Carried, Ops, OnceOps, Owning, Carrying, Is

(* removeConnectionInLoop hands it from the map to connDestroyed ...       *)
LEMMA RemoveKeepsCarried ==
  ASSUME NEW b, NEW n, NEW q, QueueTypes(b, n, q), NEW io \in Loops,
         NEW cs, NEW told, NEW c \in Conns,
         told \in {<<>>, <<"UP">>, <<"UP", "DOWN">>},
         Carried(b, n, q, io, cs, told, c), io # "none", c \in cs, told # <<>>
  PROVE  Carried(b, n, [q EXCEPT ![io] = Append(@, Functor("connDestroyed", c))], io,
                 cs \ {c}, told, c)
<1>. DEFINE f == Functor("connDestroyed", c)
            q1 == [q EXCEPT ![io] = Append(@, f)]
<1>1. f \in Functors /\ Is(f, "connDestroyed", c)
  BY DEF Functor, Functors, Owning, Carrying, Is
<1>. HIDE DEF f
<1>2. \A m \in Loops : ~ToRun(b[m], n[m], q[m], "connDestroyed", c)
  BY DEF Carried
<1>3. \A m \in Loops, op \in Ops :
        /\ ToRun(b[m], n[m], q1[m], op, c)
              <=> ToRun(b[m], n[m], q[m], op, c) \/ (m = io /\ Is(f, op, c))
        /\ op \in OnceOps /\ OnceToRun(b[m], n[m], q[m], op, c)
              => OnceToRun(b[m], n[m], q1[m], op, c)
  BY <1>1, <1>2, QueueAddsOne DEF QueueTypes, Is
<1> QED BY <1>1, <1>2, <1>3, ToldValues DEF Carried, Ops, OnceOps, Owning, Carrying, Is, f

(* ... and newConnection begins with it in the map, up at once on its own  *)
(* loop, or carried there by connEstablished.                              *)
LEMMA NewIsCarried ==
  ASSUME NEW b, NEW n, NEW q, QueueTypes(b, n, q), NEW io \in Loops, io # "none",
         NEW cs, NEW told, NEW c \in Conns,
         Carried(b, n, q, "none", cs, told, c)
  PROVE  /\ Carried(b, n, q, io, cs \cup {c}, <<"UP">>, c)
         /\ Carried(b, n, [q EXCEPT ![io] = Append(@, Functor("connEstablished", c))],
                    io, cs \cup {c}, <<>>, c)
<1>. DEFINE f == Functor("connEstablished", c)
            q1 == [q EXCEPT ![io] = Append(@, f)]
<1>1. f \in Functors /\ Is(f, "connEstablished", c)
  BY DEF Functor, Functors, Owning, Carrying, Is
<1>. HIDE DEF f
<1>2. \A m \in Loops, op \in Ops : ~ToRun(b[m], n[m], q[m], op, c)
  BY DEF Carried
<1>3. \A m \in Loops, op \in Ops :
        /\ ToRun(b[m], n[m], q1[m], op, c) <=> (m = io /\ Is(f, op, c))
        /\ OnceToRun(b[m], n[m], q[m], op, c) => OnceToRun(b[m], n[m], q1[m], op, c)
  BY <1>1, <1>2, QueueAddsOne DEF QueueTypes, Is
<1>4. Carried(b, n, q, io, cs \cup {c}, <<"UP">>, c)
  BY <1>2, ToldValues DEF Carried, Ops, OnceOps, Owning, Carrying
<1>5. Carried(b, n, q1, io, cs \cup {c}, <<>>, c)
  BY <1>1, <1>2, <1>3, ToldValues DEF Carried, Ops, OnceOps, Owning, Carrying, Is
<1> QED BY <1>4, <1>5 DEF f
-----------------------------------------------------------------------------
(* The handlers.  Each is called by some step with the loops at positions  *)
(* n of their batches: it finds everything in order, and leaves it so.     *)
Before(n) ==
  /\ conn \in [Conns -> Connections]
  /\ ioLoop \in [Conns -> Loops \cup {"none"}]
  /\ connections_ \subseteq Conns
  /\ QueueTypes(batch, n, queue)
  /\ userRef \in [Conns -> BOOLEAN]
  /\ crashed \in BOOLEAN
  /\ ConnsInv
  /\ \A c \in Conns : Carried(batch, n, queue, ioLoop[c], connections_, conn[c].told, c)

After(n) ==
  /\ conn' \in [Conns -> Connections]
  /\ connections_' \subseteq Conns
  /\ queue' \in [Loops -> Seq(Functors)]
  /\ userRef' \in [Conns -> BOOLEAN]
  /\ crashed' \in BOOLEAN
  /\ \A c \in Conns : ConnInv(conn'[c]) /\ (conn[c].told # <<>> => conn'[c].told # <<>>)
  /\ \A c \in Conns : Carried(batch, n, queue', ioLoop[c], connections_', conn'[c].told, c)

(* An open connection has been up, so it has its loop.                     *)
LEMMA OpenHasLoop ==
  ASSUME NEW n, Before(n), NEW c \in Conns, Open(conn[c])
  PROVE  conn[c].told # <<>> /\ ioLoop[c] \in Loops /\ ioLoop[c] # "none"
BY DEF Before, ConnsInv, ConnInv, ToldInOrder, Open, Carried

(* A failed assert leaves things as they are.                              *)
LEMMA CrashInOrder ==
  ASSUME NEW n, Before(n), Crash
  PROVE  After(n)
BY DEF Before, After, Crash, QueueTypes, ConnsInv

(* Changes of one connection's record that tell its user nothing.          *)
LEMMA RecordInOrder ==
  ASSUME NEW n, Before(n), NEW c \in Conns, NEW r \in Connections, ConnInv(r),
         r.told = conn[c].told, conn' = [conn EXCEPT ![c] = r],
         UNCHANGED <<connections_, queue, userRef, crashed>>
  PROVE  After(n)
<1>1. \A d \in Conns : ConnInv(conn'[d]) /\ conn'[d].told = conn[d].told
  BY DEF Before, ConnsInv
<1>2. conn' \in [Conns -> Connections]
  BY DEF Before
<1> QED BY <1>1, <1>2 DEF Before, After, QueueTypes

(* The same with a functor queued.                                         *)
LEMMA QueuedInOrder ==
  ASSUME NEW n, Before(n), NEW c \in Conns, NEW r \in Connections, ConnInv(r),
         r.told = conn[c].told, conn' = [conn EXCEPT ![c] = r],
         NEW l \in Loops, NEW f \in Functors, f.op \notin OnceOps, f.conn = c,
         conn[c].told # <<>>, Push(l, f),
         UNCHANGED <<connections_, userRef, crashed>>
  PROVE  After(n)
<1>1. \A d \in Conns : ConnInv(conn'[d]) /\ conn'[d].told = conn[d].told
  BY DEF Before, ConnsInv
<1>2. conn' \in [Conns -> Connections]
  BY DEF Before
<1>3. queue' \in [Loops -> Seq(Functors)]
  BY AppendProperties DEF Before, QueueTypes, Push
<1>4. ASSUME NEW d \in Conns
      PROVE  Carried(batch, n, queue', ioLoop[d], connections_, conn[d].told, d)
  <2>1. /\ QueueTypes(batch, n, queue) /\ ioLoop[d] \in Loops \cup {"none"}
        /\ Carried(batch, n, queue, ioLoop[d], connections_, conn[d].told, d)
        /\ f.conn = d => f.op \notin OnceOps /\ conn[d].told # <<>>
    BY DEF Before
  <2>2. queue' = [queue EXCEPT ![l] = Append(@, f)]
    BY DEF Push
  <2> QED BY <2>1, <2>2, QueueKeepsCarried
<1> QED BY <1>1, <1>2, <1>3, <1>4 DEF Before, After, QueueTypes

(* forceClose on the connection's own loop, by its user or by a timer.     *)
LEMMA ForceCloseInOrder ==
  ASSUME NEW n, Before(n), NEW c \in Conns, Open(conn[c]),
         conn' = [conn EXCEPT ![c].state = "kDisconnecting"],
         Push(ioLoop[c], Functor("forceCloseInLoop", c)),
         UNCHANGED <<connections_, userRef, crashed>>
  PROVE  After(n)
<1>. DEFINE r == [conn[c] EXCEPT !.state = "kDisconnecting"]
            f == Functor("forceCloseInLoop", c)
<1>1. conn[c].told # <<>> /\ ioLoop[c] \in Loops
  BY OpenHasLoop
<1>2. r \in Connections /\ ConnInv(r) /\ r.told = conn[c].told
  BY <1>1, UserKeepsConn DEF Before, ConnsInv
<1>3. f \in Functors /\ f.conn = c /\ f.op \notin OnceOps
  BY DEF Functor, Functors, RawThis, OnceOps
<1>4. conn' = [conn EXCEPT ![c] = r]
  OBVIOUS
<1>. HIDE DEF r, f
<1>5. Push(ioLoop[c], f)
  BY DEF f
<1> QED BY <1>1, <1>2, <1>3, <1>4, <1>5, QueuedInOrder

(* removeConnectionInLoop of a connection that has been up.                *)
LEMMA RemoveInOrder ==
  ASSUME NEW n, Before(n), NEW c \in Conns, NEW r \in Connections, ConnInv(r),
         r.told = conn[c].told, conn' = [conn EXCEPT ![c] = r],
         ioLoop[c] # "none", conn[c].told # <<>>, RemoveConnectionInLoop(c),
         UNCHANGED userRef
  PROVE  After(n)
<1>. DEFINE f == Functor("connDestroyed", c)
<1>1. f \in Functors /\ f.conn = c
  BY DEF Functor, Functors, Owning, Carrying
<1>2. \A d \in Conns : ConnInv(conn'[d]) /\ conn'[d].told = conn[d].told
  BY DEF Before, ConnsInv
<1>3. conn' \in [Conns -> Connections]
  BY DEF Before
<1>4. /\ queue' = [queue EXCEPT ![ioLoop[c]] = Append(@, f)]
      /\ connections_' = connections_ \ {c} /\ c \in connections_
      /\ crashed' = crashed /\ ioLoop[c] \in Loops
  BY DEF RemoveConnectionInLoop, Push, Before
<1>. HIDE DEF f
<1>5. queue' \in [Loops -> Seq(Functors)]
  BY <1>1, <1>4, AppendProperties DEF Before, QueueTypes
<1>6. ASSUME NEW d \in Conns
      PROVE  Carried(batch, n, queue', ioLoop[d], connections_', conn[d].told, d)
  <2>1. /\ QueueTypes(batch, n, queue) /\ ioLoop[d] \in Loops \cup {"none"}
        /\ Carried(batch, n, queue, ioLoop[d], connections_, conn[d].told, d)
        /\ conn[d].told \in {<<>>, <<"UP">>, <<"UP", "DOWN">>}
    BY DEF Before, ConnsInv, ConnInv, ToldInOrder
  <2>2. CASE d = c
    BY <1>4, <2>1, <2>2, RemoveKeepsCarried DEF f
  <2>3. CASE d # c
    <3>1. Carried(batch, n, queue', ioLoop[d], connections_, conn[d].told, d)
      BY <1>1, <1>4, <2>1, <2>3, QueueKeepsCarried
    <3>2. d \in connections_ <=> d \in connections_'
      BY <1>4, <2>3
    <3> QED BY <3>1, <3>2, OtherEntries
  <2> QED BY <2>2, <2>3
<1> QED BY <1>2, <1>3, <1>4, <1>5, <1>6 DEF Before, After

(* handleClose, once or twice.                                             *)
LEMMA CloseInOrder ==
  ASSUME NEW n, Before(n), NEW c \in Conns, NEW times \in {1, 2},
         HandleClose(c, times)
  PROVE  After(n)
<1>. DEFINE r == IF times = 1 THEN Closed(conn[c]) ELSE Closed(Closed(conn[c]))
            f == Functor("removeConnectionInLoop", c)
<1>1. r \in Connections /\ ConnInv(r) /\ r.told = conn[c].told
  <2>1. conn[c] \in Connections /\ ConnInv(conn[c])
    BY DEF Before, ConnsInv
  <2> QED BY <2>1, ClosedKeepsConn
<1>2. f \in Functors /\ f.conn = c /\ f.op \notin OnceOps /\ Base \in Loops
  BY DEF Functor, Functors, Owning, Carrying, OnceOps, Loops
<1>3. \/ /\ Open(conn[c])
         /\ queue' = [queue EXCEPT ![Base] = Several(@, times, f)]
         /\ conn' = [conn EXCEPT ![c] = r]
         /\ UNCHANGED <<connections_, userRef, crashed>>
      \/ /\ Open(conn[c])
         /\ RemoveConnectionInLoop(c)
         /\ conn' = [conn EXCEPT ![c] = r]
         /\ UNCHANGED userRef
      \/ Crash
  BY DEF HandleClose, Several
<1>. HIDE DEF r, f
<1>4. CASE /\ Open(conn[c])
           /\ queue' = [queue EXCEPT ![Base] = Several(@, times, f)]
           /\ conn' = [conn EXCEPT ![c] = r]
           /\ UNCHANGED <<connections_, userRef, crashed>>
  <2>1. conn[c].told # <<>>
    BY <1>4, OpenHasLoop
  <2>2. \A d \in Conns : ConnInv(conn'[d]) /\ conn'[d].told = conn[d].told
    BY <1>1, <1>4 DEF Before, ConnsInv
  <2>3. conn' \in [Conns -> Connections]
    BY <1>1, <1>4 DEF Before
  <2>4. queue' \in [Loops -> Seq(Functors)]
    <3>1. Several(queue[Base], times, f) \in Seq(Functors)
      BY <1>2, SeveralType DEF Before, QueueTypes
    <3> QED BY <1>2, <1>4, <3>1 DEF Before, QueueTypes
  <2>5. ASSUME NEW d \in Conns
        PROVE  Carried(batch, n, queue', ioLoop[d], connections_, conn[d].told, d)
    <3>1. /\ QueueTypes(batch, n, queue) /\ ioLoop[d] \in Loops \cup {"none"}
          /\ Carried(batch, n, queue, ioLoop[d], connections_, conn[d].told, d)
          /\ f.conn = d => conn[d].told # <<>>
      BY <1>2, <2>1 DEF Before
    <3> QED BY <1>2, <1>4, <3>1, QueueSameKeepsCarried
  <2> QED BY <1>4, <2>2, <2>3, <2>4, <2>5 DEF Before, After
<1>5. CASE /\ Open(conn[c])
           /\ RemoveConnectionInLoop(c)
           /\ conn' = [conn EXCEPT ![c] = r]
           /\ UNCHANGED userRef
  BY <1>1, <1>5, OpenHasLoop, RemoveInOrder
<1> QED BY <1>3, <1>4, <1>5, CrashInOrder

(* sendInLoop, on a connection that has been up.                           *)
LEMMA SendInOrder ==
  ASSUME NEW n, Before(n), NEW c \in Conns, conn[c].told # <<>>,
         ioLoop[c] \in Loops, SendInLoop(c)
  PROVE  After(n)
<1>1. PICK k \in Taken(conn[c]) :
        /\ conn' = [conn EXCEPT ![c] = SentInLoop(@, k)]
        /\ \/ Push(ioLoop[c], Functor("wriComCb_", c))
           \/ UNCHANGED queue
  BY DEF SendInLoop
<1>. DEFINE r == SentInLoop(conn[c], k)
            f == Functor("wriComCb_", c)
<1>2. r \in Connections /\ ConnInv(r) /\ r.told = conn[c].told
  <2>1. conn[c] \in Connections /\ ConnInv(conn[c])
    BY DEF Before, ConnsInv
  <2> QED BY <2>1, SentTypes, SentKeepsConn
<1>3. f \in Functors /\ f.conn = c /\ f.op \notin OnceOps
  BY DEF Functor, Functors, Owning, Carrying, OnceOps
<1>4. conn' = [conn EXCEPT ![c] = r] /\ UNCHANGED <<connections_, userRef, crashed>>
  BY <1>1 DEF SendInLoop, Before
<1>. HIDE DEF r
<1>5. CASE UNCHANGED queue
  BY <1>2, <1>4, <1>5, RecordInOrder
<1>6. CASE Push(ioLoop[c], f)
  <2>. HIDE DEF f
  <2> QED BY <1>2, <1>3, <1>4, <1>6, QueuedInOrder
<1> QED BY <1>1, <1>5, <1>6

-----------------------------------------------------------------------------
(* The functors of a batch.                                                *)

(* Running one functor, of any kind, leaves things in order once it is     *)
(* counted as run.                                                         *)
LEMMA InvokeInOrder ==
  ASSUME Before(ran), \A m \in Loops : ran[m] \in 0 .. Len(batch[m]),
         NEW l \in Loops, RunningBatch(l), Invoke(Current(l))
  PROVE  After([ran EXCEPT ![l] = @ + 1])
<1>. DEFINE f == Current(l)
            c == f.conn
            n == [ran EXCEPT ![l] = @ + 1]
            told == conn[c].told
<1>. SUFFICES After(n)
  OBVIOUS
<1>1. /\ QueueTypes(batch, ran, queue) /\ ran[l] < Len(batch[l])
      /\ f = batch[l][ran[l] + 1]
  BY DEF Before, RunningBatch, Current
<1>2. f \in Functors
  <2>1. batch[l] \in Seq(Functors) /\ ran[l] + 1 \in 1 .. Len(batch[l])
    BY <1>1 DEF QueueTypes
  <2> QED BY <1>1, <2>1, ElementOfSeq
<1>3. c \in Conns /\ f.op \in Ops
  BY <1>2 DEF Functors, Ops
<1>4. /\ conn[c] \in Connections /\ ConnInv(conn[c])
      /\ ioLoop[c] \in Loops \cup {"none"}
      /\ Carried(batch, ran, queue, ioLoop[c], connections_, told, c)
  BY <1>3 DEF Before, ConnsInv
<1>5. /\ ioLoop[c] # "none" /\ ioLoop[c] \in Loops
      /\ f.op = "connEstablished" <=> told = <<>>
      /\ f.op = "connDestroyed" => told = <<"UP">>
  <2>. DEFINE op == f.op
  <2>1. Is(batch[l][ran[l] + 1], op, c)
    BY <1>1 DEF Is
  <2>2. op \in Ops
    BY <1>3
  <2>. HIDE DEF f, c, told, op
  <2>3. /\ ioLoop[c] # "none"
        /\ op = "connEstablished" <=> told = <<>>
        /\ op = "connDestroyed" => told = <<"UP">>
    BY <1>1, <1>4, <2>1, <2>2, RunExpects
  <2> QED BY <1>4, <2>3 DEF op
<1>6. QueueTypes(batch, n, queue)
  <2>1. ran[l] + 1 \in Nat
    BY <1>1 DEF QueueTypes
  <2> QED BY <1>1, <2>1 DEF QueueTypes
<1>7. ASSUME NEW d \in Conns, ~Is(f, "connDestroyed", d)
      PROVE  Carried(batch, n, queue, ioLoop[d], connections_, conn[d].told, d)
  <2>1. /\ ioLoop[d] \in Loops \cup {"none"}
        /\ Carried(batch, ran, queue, ioLoop[d], connections_, conn[d].told, d)
    BY DEF Before
  <2> QED BY <1>1, <1>7, <2>1, RunKeepsCarried
<1>8. f.op # "connDestroyed" => Before(n)
  BY <1>6, <1>7 DEF Before, Is
<1>. HIDE DEF f, n
<1>9. CASE f.op = "connEstablished" /\ ConnEstablished(c) /\ UNCHANGED queue
  <2>. DEFINE r == Established(conn[c])
  <2>1. r \in Connections /\ ConnInv(r) /\ r.told = <<"UP">> /\ told = <<>>
    BY <1>4, <1>5, <1>9, EstablishedKeepsConn
  <2>2. conn' = [conn EXCEPT ![c] = r]
    BY <1>9 DEF ConnEstablished
  <2>. HIDE DEF r
  <2>3. /\ conn' \in [Conns -> Connections]
        /\ \A d \in Conns : conn'[d] = IF d = c THEN r ELSE conn[d]
    BY <1>3, <2>1, <2>2 DEF Before
  <2>4. \A d \in Conns : ConnInv(conn'[d]) /\ (conn[d].told # <<>> => conn'[d].told # <<>>)
    BY <2>1, <2>3, ToldValues DEF Before, ConnsInv
  <2>5. ASSUME NEW d \in Conns
        PROVE  Carried(batch, n, queue, ioLoop[d], connections_, conn'[d].told, d)
    <3>1. CASE d = c
      <4>1. Carried(batch, ran, queue, ioLoop[c], connections_, <<>>, c)
        BY <1>4, <2>1
      <4>2. Is(batch[l][ran[l] + 1], "connEstablished", c)
        <5>1. f.op = "connEstablished"
          BY ONLY <1>9, Zenon
        <5>2. Is(f, "connEstablished", c)
          BY ONLY <5>1, Zenon DEF Is
        <5> QED BY ONLY <1>1, <5>2
      <4>3. Carried(batch, n, queue, ioLoop[c], connections_, <<"UP">>, c)
        BY <1>1, <1>4, <4>1, <4>2, EstablishKeepsCarried DEF n
      <4> QED BY <2>1, <2>3, <3>1, <4>3
    <3>2. CASE d # c
      BY <1>7, <1>9, <2>3, <3>2 DEF Is
    <3> QED BY <3>1, <3>2
  <2>6. /\ userRef' \in [Conns -> BOOLEAN]
        /\ UNCHANGED <<connections_, queue, crashed>>
    BY <1>9 DEF ConnEstablished, Before
  <2> QED BY <2>3, <2>4, <2>5, <2>6 DEF Before, After, QueueTypes
<1>10. CASE /\ f.op = "connDestroyed"
            /\ IF Open(conn[c])
                 THEN /\ conn' = [conn EXCEPT ![c] = Destroyed(@)]
                      /\ userRef' = [userRef EXCEPT ![c] = FALSE]
                      /\ UNCHANGED <<connections_, queue, crashed>>
                 ELSE Crash
  <2>. DEFINE r == Destroyed(conn[c])
  <2>1. told = <<"UP">> /\ Open(conn[c])
    BY <1>4, <1>5, <1>10 DEF ConnInv
  <2>2. r \in Connections /\ ConnInv(r) /\ r.told = <<"UP", "DOWN">>
    BY <1>4, <2>1, DestroyedKeepsConn
  <2>3. /\ conn' = [conn EXCEPT ![c] = r]
        /\ userRef' = [userRef EXCEPT ![c] = FALSE]
        /\ UNCHANGED <<connections_, queue, crashed>>
    BY <1>10, <2>1
  <2>. HIDE DEF r
  <2>4. /\ conn' \in [Conns -> Connections]
        /\ \A d \in Conns : conn'[d] = IF d = c THEN r ELSE conn[d]
    BY <1>3, <2>2, <2>3 DEF Before
  <2>5. \A d \in Conns : ConnInv(conn'[d]) /\ (conn[d].told # <<>> => conn'[d].told # <<>>)
    BY <2>2, <2>4, ToldValues DEF Before, ConnsInv
  <2>6. ASSUME NEW d \in Conns
        PROVE  Carried(batch, n, queue, ioLoop[d], connections_, conn'[d].told, d)
    <3>1. CASE d = c
      <4>1. Carried(batch, ran, queue, ioLoop[c], connections_, <<"UP">>, c)
        BY <1>4, <2>1
      <4>2. Is(batch[l][ran[l] + 1], "connDestroyed", c)
        <5>1. f.op = "connDestroyed"
          BY ONLY <1>10, Zenon
        <5>2. Is(f, "connDestroyed", c)
          BY ONLY <5>1, Zenon DEF Is
        <5> QED BY ONLY <1>1, <5>2
      <4>3. Carried(batch, n, queue, ioLoop[c], connections_, <<"UP", "DOWN">>, c)
        BY <1>1, <1>4, <4>1, <4>2, DestroyKeepsCarried DEF n
      <4> QED BY <2>2, <2>4, <3>1, <4>3
    <3>2. CASE d # c
      BY <1>7, <2>4, <3>2 DEF Is
    <3> QED BY <3>1, <3>2
  <2>7. userRef' \in [Conns -> BOOLEAN]
    BY <2>3 DEF Before
  <2> QED BY <2>3, <2>4, <2>5, <2>6, <2>7 DEF Before, After, QueueTypes
<1>11. CASE /\ f.op = "removeConnectionInLoop"
            /\ \/ RemoveConnectionInLoop(c) /\ UNCHANGED <<conn, userRef>>
               \/ c \notin connections_ /\ Crash
  <2>1. Before(n) /\ told # <<>>
    BY <1>5, <1>8, <1>11
  <2>2. CASE RemoveConnectionInLoop(c) /\ UNCHANGED <<conn, userRef>>
    <3>1. conn' = [conn EXCEPT ![c] = conn[c]]
      BY <2>2 DEF Before
    <3> QED BY <1>3, <1>4, <1>5, <2>1, <2>2, <3>1, RemoveInOrder
  <2> QED BY <1>11, <2>1, <2>2, CrashInOrder
<1>12. CASE f.op = "sendInLoop" /\ SendInLoop(c)
  BY <1>3, <1>5, <1>8, <1>12, SendInOrder
<1>13. CASE /\ f.op = "wriComCb_"
            /\ UNCHANGED <<conn, connections_, queue, userRef, crashed>>
  <2>1. Before(n)
    BY <1>8, <1>13
  <2>2. conn' = [conn EXCEPT ![c] = conn[c]]
    BY <1>13 DEF Before
  <2> QED BY <1>3, <1>4, <1>13, <2>1, <2>2, RecordInOrder
<1>14. CASE /\ f.op = "shutdownInLoop"
            /\ conn' = [conn EXCEPT ![c] = ShutdownInLoop(@)]
            /\ UNCHANGED <<connections_, queue, userRef, crashed>>
  <2>. DEFINE r == ShutdownInLoop(conn[c])
  <2>1. r \in Connections /\ ConnInv(r) /\ r.told = told
    BY <1>4, ShutdownKeepsConn
  <2>2. conn' = [conn EXCEPT ![c] = r] /\ Before(n)
    BY <1>8, <1>14
  <2>. HIDE DEF r
  <2> QED BY <1>3, <1>14, <2>1, <2>2, RecordInOrder
<1>15. CASE /\ f.op = "forceCloseInLoop"
            /\ IF Open(conn[c])
                 THEN HandleClose(c, 1)
                 ELSE UNCHANGED <<conn, connections_, queue, userRef, crashed>>
  <2>1. Before(n)
    BY <1>8, <1>15
  <2>2. CASE HandleClose(c, 1)
    BY <1>3, <2>1, <2>2, CloseInOrder
  <2>3. CASE UNCHANGED <<conn, connections_, queue, userRef, crashed>>
    <3>1. conn' = [conn EXCEPT ![c] = conn[c]]
      BY <2>3 DEF Before
    <3> QED BY <1>3, <1>4, <2>1, <2>3, <3>1, RecordInOrder
  <2> QED BY <1>15, <2>2, <2>3
<1>16. CASE f.op \in RawThis /\ Crash
  BY <1>8, <1>16, CrashInOrder DEF RawThis
<1> QED BY <1>9, <1>10, <1>11, <1>12, <1>13, <1>14, <1>15, <1>16 DEF Invoke, f, n

-----------------------------------------------------------------------------
(* The steps.                                                              *)

(* In every reachable state things are in order before a handler begins.   *)
LEMMA Beginnings ==
  ASSUME IInv
  PROVE  Before(ran)
BY DEF IInv, TypeOK, ConnsInv, CarriersInv, CarriedInv, Before, QueueTypes

(* The base loop is a loop, and none is not.                               *)
LEMMA LoopTypes == Base \in Loops /\ "none" \notin Loops
BY ServerAssumption DEF Loops

(* A handler's step, with the positions and the users' calls it leaves.    *)
LEMMA HandlerStep ==
  ASSUME IInv, NEW n \in [Loops -> Nat], After(n), ran' = n,
         \A l \in Loops : n[l] \in 0 .. Len(batch[l]) /\ (batch[l] = <<>> => n[l] = 0),
         UNCHANGED <<batch, loopVars>>,
         calling' \in [Threads -> {NoCall} \cup (Calls \X Conns)],
         \A t \in Threads : calling'[t] # NoCall => calling'[t] = calling[t],
         delayed' \in [Conns -> Nat],
         calls' \in [Conns -> 0 .. MaxCalls]
  PROVE  IInv'
<1>1. TypeOK'
  BY DEF IInv, TypeOK, After, loopVars
<1>2. LoopsInv'
  <2>1. /\ (next_ = 0 \/ next_ < Len(loops_))'
        /\ \A l \in Loops : batch'[l] = <<>> => ran'[l] = 0
    BY DEF IInv, LoopsInv, loopVars
  <2>2. ASSUME NEW t \in Threads, calling'[t] # NoCall
        PROVE  conn'[calling'[t][2]].told # <<>>
    <3>1. calling'[t] = calling[t] /\ conn[calling[t][2]].told # <<>>
      BY <2>2 DEF IInv, LoopsInv
    <3>2. calling'[t][2] \in Conns
      BY <2>2, <3>1 DEF IInv, TypeOK
    <3> QED BY <3>1, <3>2 DEF After
  <2> QED BY <2>1, <2>2 DEF LoopsInv
<1>3. ConnsInv'
  BY DEF After, ConnsInv
<1>4. CarriersInv'
  BY DEF After, CarriersInv, CarriedInv, loopVars
<1> QED BY <1>1, <1>2, <1>3, <1>4 DEF IInv

(* A handler that is no functor of a batch leaves all of that alone.       *)
LEMMA EventStep ==
  ASSUME IInv, After(ran), UNCHANGED <<batch, ran, loopVars, calling>>,
         delayed' \in [Conns -> Nat], calls' \in [Conns -> 0 .. MaxCalls]
  PROVE  IInv'
BY HandlerStep DEF IInv, TypeOK, LoopsInv

(* An event of a connection.                                               *)
LEMMA HandleEventStep ==
  ASSUME IInv, NEW c \in Conns, HandleEvent(c)
  PROVE  IInv'
<1>1. \E times \in {1, 2} : HandleClose(c, times)
  BY DEF HandleEvent
<1>2. After(ran)
  BY <1>1, Beginnings, CloseInOrder
<1> QED BY <1>2, EventStep DEF HandleEvent, userVars, IInv, TypeOK

(* A functor of a batch.                                                   *)
LEMMA RunFunctorStep ==
  ASSUME IInv, NEW l \in Loops, RunFunctor(l)
  PROVE  IInv'
<1>. DEFINE n == [ran EXCEPT ![l] = @ + 1]
<1>1. /\ RunningBatch(l) /\ Invoke(Current(l)) /\ ran' = n
      /\ UNCHANGED <<batch, loopVars, calling, delayed, calls>>
  BY DEF RunFunctor, userVars
<1>2. After(n)
  BY <1>1, Beginnings, InvokeInOrder DEF IInv, TypeOK
<1>3. /\ n \in [Loops -> Nat]
      /\ \A k \in Loops : n[k] \in 0 .. Len(batch[k]) /\ (batch[k] = <<>> => n[k] = 0)
  <2>1. /\ ran \in [Loops -> Nat] /\ batch[l] \in Seq(Functors) /\ Len(batch[l]) \in Nat
        /\ \A k \in Loops : ran[k] \in 0 .. Len(batch[k]) /\ (batch[k] = <<>> => ran[k] = 0)
        /\ ran[l] < Len(batch[l]) /\ batch[l] # <<>>
    BY <1>1 DEF IInv, TypeOK, LoopsInv, RunningBatch
  <2>2. ran[l] + 1 \in Nat /\ ran[l] + 1 \in 0 .. Len(batch[l])
    BY <2>1
  <2> QED BY <2>1, <2>2
<1>. HIDE DEF n
<1> QED BY <1>1, <1>2, <1>3, HandlerStep DEF IInv, TypeOK

(* The timer of forceCloseWithDelay().                                     *)
LEMMA DelayedForceCloseStep ==
  ASSUME IInv, NEW c \in Conns, DelayedForceClose(c)
  PROVE  IInv'
<1>. SUFFICES After(ran)
  <2>1. delayed \in [Conns -> Nat] /\ delayed[c] \in Nat /\ delayed[c] > 0
    BY DEF DelayedForceClose, IInv, TypeOK
  <2>2. delayed' \in [Conns -> Nat]
    BY <2>1 DEF DelayedForceClose
  <2> QED BY <2>2, EventStep DEF DelayedForceClose, IInv, TypeOK
<1>1. Before(ran) /\ conn[c] \in Connections /\ ConnInv(conn[c])
  BY Beginnings DEF Before, ConnsInv
<1>2. CASE /\ Open(conn[c])
           /\ conn' = [conn EXCEPT ![c].state = "kDisconnecting"]
           /\ Push(ioLoop[c], Functor("forceCloseInLoop", c))
           /\ UNCHANGED <<connections_, userRef, crashed>>
  BY <1>1, <1>2, ForceCloseInOrder
<1>3. CASE UNCHANGED <<conn, connections_, queue, userRef, crashed>>
  <2>1. conn' = [conn EXCEPT ![c] = conn[c]]
    BY <1>3 DEF IInv, TypeOK
  <2> QED BY <1>1, <1>3, <2>1, RecordInOrder
<1> QED BY <1>1, <1>2, <1>3, CrashInOrder DEF DelayedForceClose

(* A user's call on the connection's own loop.                             *)
LEMMA LoopCallStep ==
  ASSUME IInv, NEW c \in Conns, NEW op \in LoopCalls, LoopCall(c, op)
  PROVE  IInv'
<1>. SUFFICES After(ran)
  <2>1. delayed' \in [Conns -> Nat]
    BY DEF LoopCall, IInv, TypeOK
  <2>2. calls' \in [Conns -> 0 .. MaxCalls]
    <3>1. calls[c] < MaxCalls /\ calls \in [Conns -> 0 .. MaxCalls] /\ MaxCalls \in Nat
      BY ServerAssumption DEF LoopCall, MayUse, IInv, TypeOK
    <3> QED BY <3>1 DEF LoopCall
  <2> QED BY <2>1, <2>2, EventStep DEF LoopCall
<1>1. Before(ran) /\ conn[c] \in Connections /\ ConnInv(conn[c])
  BY Beginnings DEF Before, ConnsInv
<1>2. Open(conn[c])
  BY DEF LoopCall, MayUse, Permits, Open
<1>3. conn[c].told # <<>> /\ ioLoop[c] \in Loops
  BY <1>1, <1>2, OpenHasLoop
<1>. DEFINE s == [conn[c] EXCEPT !.state = "kDisconnecting"]
<1>4. s \in Connections /\ ConnInv(s) /\ s.told = conn[c].told
  BY <1>1, <1>3, UserKeepsConn
<1>5. CASE SendInLoop(c)
  BY <1>1, <1>3, <1>5, SendInOrder
<1>6. CASE /\ conn' = [conn EXCEPT ![c] = ShutdownInLoop(
                                            [@ EXCEPT !.state = "kDisconnecting"])]
           /\ UNCHANGED <<connections_, queue, userRef, crashed>>
  <2>. DEFINE r == ShutdownInLoop(s)
  <2>1. r \in Connections /\ ConnInv(r) /\ r.told = conn[c].told
    BY <1>4, ShutdownKeepsConn
  <2>2. conn' = [conn EXCEPT ![c] = r]
    BY <1>6
  <2>. HIDE DEF r
  <2> QED BY <1>1, <1>6, <2>1, <2>2, RecordInOrder
<1>7. CASE /\ conn' = [conn EXCEPT ![c].state = "kDisconnecting"]
           /\ Push(ioLoop[c], Functor("forceCloseInLoop", c))
           /\ UNCHANGED <<connections_, userRef, crashed>>
  BY <1>1, <1>2, <1>7, ForceCloseInOrder
<1>8. CASE /\ conn' = [conn EXCEPT ![c].state = "kDisconnecting"]
           /\ UNCHANGED <<connections_, queue, userRef, crashed>>
  <2>1. conn' = [conn EXCEPT ![c] = s]
    BY <1>8
  <2>. HIDE DEF s
  <2> QED BY <1>1, <1>4, <1>8, <2>1, RecordInOrder
<1> QED BY <1>5, <1>6, <1>7, <1>8 DEF LoopCall

(* A user's call on another thread, after the test of state_, ...          *)
LEMMA EndThreadCallStep ==
  ASSUME IInv, NEW t \in Threads, EndThreadCall(t)
  PROVE  IInv'
<1>. DEFINE op == calling[t][1]
            c == calling[t][2]
            s == [conn[c] EXCEPT !.state = "kDisconnecting"]
            r == IF op = "send" THEN conn[c] ELSE s
<1>1. /\ calling[t] # NoCall
      /\ calling' = [calling EXCEPT ![t] = NoCall]
      /\ conn' = IF op = "send" THEN conn
                 ELSE [conn EXCEPT ![c].state = "kDisconnecting"]
      /\ UNCHANGED <<loopVars, connections_, batch, ran, userRef, calls, crashed>>
  BY DEF EndThreadCall
<1>2. op \in Calls /\ c \in Conns /\ conn[c].told # <<>>
  BY <1>1 DEF IInv, TypeOK, LoopsInv
<1>3. Before(ran) /\ conn[c] \in Connections /\ ConnInv(conn[c])
  BY <1>2, Beginnings DEF Before, ConnsInv
<1>4. ioLoop[c] \in Loops
  BY <1>2, <1>3 DEF Before, Carried
<1>5. r \in Connections /\ ConnInv(r) /\ r.told = conn[c].told
  BY <1>2, <1>3, UserKeepsConn
<1>6. conn' = [conn EXCEPT ![c] = r]
  BY <1>1, <1>2, <1>3 DEF Before
<1>7. \/ \E f \in {Functor(o, c) : o \in RawThis} : Push(ioLoop[c], f)
      \/ UNCHANGED queue
  BY DEF EndThreadCall, RawThis
<1>8. After(ran)
  <2>1. CASE UNCHANGED queue
    <3>. HIDE DEF r, c
    <3> QED BY <1>1, <1>2, <1>3, <1>5, <1>6, <2>1, RecordInOrder
  <2>2. ASSUME NEW o \in RawThis, Push(ioLoop[c], Functor(o, c))
        PROVE  After(ran)
    <3>. DEFINE f == Functor(o, c)
    <3>1. f \in Functors /\ f.conn = c /\ f.op \notin OnceOps
      BY <1>2, <2>2 DEF Functor, Functors, RawThis, OnceOps
    <3>2. Push(ioLoop[c], f)
      BY <2>2
    <3>. HIDE DEF r, c, f
    <3> QED BY <1>1, <1>2, <1>3, <1>4, <1>5, <1>6, <3>1, <3>2, QueuedInOrder
  <2> QED BY <1>7, <2>1, <2>2
<1>9. delayed' \in [Conns -> Nat]
  BY <1>2 DEF EndThreadCall, IInv, TypeOK
<1>10. /\ calling' \in [Threads -> {NoCall} \cup (Calls \X Conns)]
       /\ \A u \in Threads : calling'[u] # NoCall => calling'[u] = calling[u]
  BY <1>1 DEF IInv, TypeOK
<1> QED BY <1>1, <1>8, <1>9, <1>10, HandlerStep DEF IInv, TypeOK, LoopsInv

(* ... and its test.                                                       *)
LEMMA BeginThreadCallStep ==
  ASSUME IInv, NEW t \in Threads, NEW c \in Conns, NEW op \in ThreadCalls,
         BeginThreadCall(t, c, op)
  PROVE  IInv'
<1>1. conn[c].told # <<>>
  <2>1. Open(conn[c])
    BY DEF BeginThreadCall, MayUse, Permits, Open
  <2> QED BY <2>1, Beginnings, OpenHasLoop
<1>2. /\ calling' = [calling EXCEPT ![t] = <<op, c>>]
      /\ calls' = [calls EXCEPT ![c] = @ + 1] /\ calls[c] < MaxCalls
      /\ UNCHANGED <<conn, loopVars, connections_, queue, batch, ran, userRef,
                     delayed, crashed>>
  BY DEF BeginThreadCall, MayUse
<1>3. /\ calling' \in [Threads -> {NoCall} \cup (Calls \X Conns)]
      /\ calls' \in [Conns -> 0 .. MaxCalls]
  <2>1. op \in Calls /\ MaxCalls \in Nat
    BY ServerAssumption
  <2> QED BY <1>2, <2>1 DEF IInv, TypeOK
<1>4. TypeOK'
  BY <1>2, <1>3 DEF IInv, TypeOK, loopVars
<1>5. LoopsInv'
  <2>1. \A u \in Threads : calling'[u] = IF u = t THEN <<op, c>> ELSE calling[u]
    BY <1>2 DEF IInv, TypeOK
  <2>2. \A u \in Threads : calling'[u] # NoCall => conn[calling'[u][2]].told # <<>>
    BY <1>1, <2>1 DEF IInv, LoopsInv
  <2> QED BY <1>2, <2>2 DEF IInv, LoopsInv, loopVars
<1>6. ConnsInv' /\ CarriersInv'
  BY <1>2 DEF IInv, ConnsInv, CarriersInv, CarriedInv, loopVars
<1> QED BY <1>4, <1>5, <1>6 DEF IInv

(* The peer closes its end.                                                *)
LEMMA PeerClosesStep ==
  ASSUME IInv, NEW c \in Conns, PeerCloses(c)
  PROVE  IInv'
<1>1. PICK how \in {"closed", "reset"} : conn' = [conn EXCEPT ![c].peer = how]
  BY DEF PeerCloses
<1>. DEFINE r == [conn[c] EXCEPT !.peer = how]
<1>2. Before(ran) /\ conn[c] \in Connections /\ ConnInv(conn[c])
  BY Beginnings DEF Before, ConnsInv
<1>3. r \in Connections /\ ConnInv(r) /\ r.told = conn[c].told
  <2>1. /\ r \in Connections
        /\ r.told = conn[c].told /\ r.output = conn[c].output
        /\ r.wire = conn[c].wire /\ r.accepted = conn[c].accepted
        /\ r.state = conn[c].state /\ r.events = conn[c].events
    BY <1>2 DEF Connections
  <2> QED BY <1>2, <2>1, OthersKeepConn
<1>4. conn' = [conn EXCEPT ![c] = r]
  BY <1>1
<1>5. UNCHANGED <<loopVars, connections_, queue, batch, ran, userRef, calling,
                  delayed, calls, crashed>>
  BY DEF PeerCloses, userVars
<1>. HIDE DEF r
<1>6. After(ran)
  BY <1>2, <1>3, <1>4, <1>5, RecordInOrder
<1> QED BY <1>5, <1>6, EventStep DEF IInv, TypeOK

(* The swap of doPendingFunctors().                                        *)
LEMMA StartBatchStep ==
  ASSUME IInv, NEW l \in Loops, StartBatch(l)
  PROVE  IInv'
<1>1. /\ batch[l] = <<>> /\ ran[l] = 0 /\ queue[l] # <<>>
      /\ batch' = [batch EXCEPT ![l] = queue[l]]
      /\ queue' = [queue EXCEPT ![l] = <<>>]
      /\ UNCHANGED <<conn, loopVars, connections_, ran, userRef, userVars, crashed>>
  BY DEF StartBatch, HandlingEvents, IInv, LoopsInv
<1>2. TypeOK'
  <2>1. /\ batch' \in [Loops -> Seq(Functors)]
        /\ queue' \in [Loops -> Seq(Functors)]
        /\ queue[l] \in Seq(Functors)
    BY <1>1 DEF IInv, TypeOK
  <2>2. \A k \in Loops : ran[k] \in 0 .. Len(batch'[k])
    BY <1>1, <2>1 DEF IInv, TypeOK
  <2> QED BY <1>1, <2>1, <2>2 DEF IInv, TypeOK, loopVars, userVars
<1>3. LoopsInv'
  BY <1>1 DEF IInv, TypeOK, LoopsInv, loopVars, userVars
<1>4. ConnsInv'
  BY <1>1 DEF IInv, ConnsInv
<1>5. ASSUME NEW c \in Conns
      PROVE  Carried(batch', ran, queue', ioLoop[c], connections_, conn[c].told, c)
  <2>1. /\ QueueTypes(batch, ran, queue) /\ ioLoop[c] \in Loops \cup {"none"}
        /\ Carried(batch, ran, queue, ioLoop[c], connections_, conn[c].told, c)
    BY Beginnings DEF Before
  <2> QED BY <1>1, <2>1, SwapKeepsCarried
<1>6. CarriersInv'
  BY <1>1, <1>5 DEF CarriersInv, CarriedInv, loopVars
<1> QED BY <1>2, <1>3, <1>4, <1>6 DEF IInv

(* The end of its loop over the batch.                                     *)
LEMMA FinishBatchStep ==
  ASSUME IInv, NEW l \in Loops, FinishBatch(l)
  PROVE  IInv'
<1>1. /\ batch' = [batch EXCEPT ![l] = <<>>]
      /\ ran' = [ran EXCEPT ![l] = 0]
      /\ UNCHANGED <<conn, loopVars, connections_, queue, userRef, userVars, crashed>>
  BY DEF FinishBatch
<1>2. ran[l] = Len(batch[l])
  <2>1. ran[l] \in 0 .. Len(batch[l]) /\ ~(ran[l] < Len(batch[l])) /\ Len(batch[l]) \in Nat
    BY DEF FinishBatch, RunningBatch, IInv, TypeOK
  <2> QED BY <2>1
<1>3. TypeOK'
  <2>1. /\ batch' \in [Loops -> Seq(Functors)]
        /\ ran' \in [Loops -> Nat]
    BY <1>1 DEF IInv, TypeOK
  <2>2. \A k \in Loops : ran'[k] \in 0 .. Len(batch'[k])
    BY <1>1, <2>1 DEF IInv, TypeOK
  <2> QED BY <1>1, <2>1, <2>2 DEF IInv, TypeOK, loopVars, userVars
<1>4. LoopsInv'
  BY <1>1 DEF IInv, TypeOK, LoopsInv, loopVars, userVars
<1>5. ConnsInv'
  BY <1>1 DEF IInv, ConnsInv
<1>6. ASSUME NEW c \in Conns
      PROVE  Carried(batch', ran', queue, ioLoop[c], connections_, conn[c].told, c)
  <2>1. /\ QueueTypes(batch, ran, queue) /\ ioLoop[c] \in Loops \cup {"none"}
        /\ Carried(batch, ran, queue, ioLoop[c], connections_, conn[c].told, c)
    BY Beginnings DEF Before
  <2> QED BY <1>1, <1>2, <2>1, FinishKeepsCarried
<1>7. CarriersInv'
  BY <1>1, <1>6 DEF CarriersInv, CarriedInv, loopVars
<1> QED BY <1>3, <1>4, <1>5, <1>7 DEF IInv

(* newConnection(): the connection gets its owner and its first carrier.   *)
LEMMA NewConnectionStep ==
  ASSUME IInv, NEW c \in Conns, NewConnection(c)
  PROVE  IInv'
<1>. DEFINE io == NextLoop
            f == Functor("connEstablished", c)
            r == Established(conn[c])
<1>1. /\ ioLoop[c] = "none"
      /\ ioLoop' = [ioLoop EXCEPT ![c] = io]
      /\ next_' = IF next_ + 1 < Len(loops_) THEN next_ + 1 ELSE 0
      /\ connections_' = connections_ \cup {c}
      /\ UNCHANGED <<loops_, wriComCb_, batch, ran, userVars, crashed>>
  BY DEF NewConnection
<1>2. io \in Loops /\ io # "none"
  <2>1. loops_ \in Seq(Loops) /\ Len(loops_) \in Nat
    BY ServerAssumption DEF IInv, TypeOK
  <2>2. loops_ # <<>> => next_ + 1 \in 1 .. Len(loops_)
    BY <2>1 DEF IInv, TypeOK, LoopsInv
  <2>3. loops_ # <<>> => loops_[next_ + 1] \in Loops
    BY <2>1, <2>2, ElementOfSeq
  <2> QED BY <2>3, LoopTypes DEF NextLoop
<1>. HIDE DEF io
<1>3. /\ QueueTypes(batch, ran, queue)
      /\ conn[c] \in Connections /\ ConnInv(conn[c])
      /\ Carried(batch, ran, queue, "none", connections_, conn[c].told, c)
      /\ conn[c].told = <<>>
  BY <1>1, Beginnings DEF Before, ConnsInv, Carried
<1>4. r \in Connections /\ ConnInv(r) /\ r.told = <<"UP">>
  BY <1>3, EstablishedKeepsConn
<1>5. f \in Functors /\ f.conn = c
  BY DEF Functor, Functors, Owning, Carrying
<1>6. /\ ioLoop' \in [Conns -> Loops \cup {"none"}]
      /\ connections_' \subseteq Conns
      /\ next_' \in 0 .. Len(loops_)
      /\ next_' = 0 \/ next_' < Len(loops_)
  BY <1>1, <1>2, ServerAssumption DEF IInv, TypeOK
<1>7. ASSUME NEW d \in Conns, d # c
      PROVE  /\ Carried(batch, ran, queue, ioLoop'[d], connections_', conn[d].told, d)
             /\ Carried(batch, ran, [queue EXCEPT ![io] = Append(@, f)], ioLoop'[d],
                        connections_', conn[d].told, d)
  <2>1. /\ ioLoop[d] \in Loops \cup {"none"}
        /\ Carried(batch, ran, queue, ioLoop[d], connections_, conn[d].told, d)
    BY Beginnings DEF Before
  <2>2. (d \in connections_ <=> d \in connections_') /\ ioLoop'[d] = ioLoop[d]
    BY <1>1, <1>7, Beginnings DEF Before
  <2>3. Carried(batch, ran, queue, ioLoop[d], connections_', conn[d].told, d)
    BY <2>1, <2>2, OtherEntries
  <2>. HIDE DEF f
  <2>4. Carried(batch, ran, [queue EXCEPT ![io] = Append(@, f)], ioLoop[d],
                connections_', conn[d].told, d)
    BY <1>2, <1>3, <1>5, <1>7, <2>1, <2>3, QueueKeepsCarried
  <2> QED BY <2>2, <2>3, <2>4
<1>8. /\ Carried(batch, ran, queue, io, connections_', <<"UP">>, c)
      /\ Carried(batch, ran, [queue EXCEPT ![io] = Append(@, f)], io,
                 connections_', <<>>, c)
  BY <1>1, <1>2, <1>3, NewIsCarried
<1>9. ioLoop'[c] = io
  BY <1>1, Beginnings DEF Before
<1>. HIDE DEF f, r
<1>10. CASE /\ conn' = [conn EXCEPT ![c] = r]
            /\ userRef' = [userRef EXCEPT ![c] = TRUE]
            /\ UNCHANGED queue
  <2>1. /\ conn' \in [Conns -> Connections]
        /\ \A d \in Conns : conn'[d] = IF d = c THEN r ELSE conn[d]
    BY <1>4, <1>10 DEF IInv, TypeOK
  <2>2. TypeOK'
    BY <1>1, <1>6, <1>10, <2>1 DEF IInv, TypeOK, userVars
  <2>3. LoopsInv'
    <3>1. \A t \in Threads : calling[t] # NoCall => conn'[calling[t][2]].told # <<>>
      <4>1. ASSUME NEW t \in Threads, calling[t] # NoCall
            PROVE  conn'[calling[t][2]].told # <<>>
        <5>1. conn[calling[t][2]].told # <<>> /\ calling[t][2] \in Conns
          BY <4>1 DEF IInv, TypeOK, LoopsInv
        <5> QED BY <1>3, <2>1, <5>1
      <4> QED BY <4>1
    <3> QED BY <1>1, <1>6, <3>1 DEF IInv, LoopsInv, userVars
  <2>4. ConnsInv'
    BY <1>4, <2>1 DEF IInv, ConnsInv
  <2>5. \A d \in Conns : Carried(batch, ran, queue, ioLoop'[d], connections_',
                                 conn'[d].told, d)
    BY <1>4, <1>7, <1>8, <1>9, <2>1
  <2>6. CarriersInv'
    BY <1>1, <1>10, <2>5 DEF CarriersInv, CarriedInv
  <2> QED BY <2>2, <2>3, <2>4, <2>6 DEF IInv
<1>11. CASE /\ queue' = [queue EXCEPT ![io] = Append(@, f)]
            /\ UNCHANGED <<conn, userRef>>
  <2>1. queue' \in [Loops -> Seq(Functors)]
    BY <1>2, <1>3, <1>5, <1>11, AppendProperties DEF QueueTypes
  <2>2. TypeOK'
    BY <1>1, <1>6, <1>11, <2>1 DEF IInv, TypeOK, userVars
  <2>3. LoopsInv'
    BY <1>1, <1>6, <1>11 DEF IInv, LoopsInv, userVars
  <2>4. ConnsInv'
    BY <1>11 DEF IInv, ConnsInv
  <2>5. \A d \in Conns : Carried(batch, ran, queue', ioLoop'[d], connections_',
                                 conn[d].told, d)
    BY <1>3, <1>7, <1>8, <1>9, <1>11
  <2>6. CarriersInv'
    BY <1>1, <1>11, <2>5 DEF CarriersInv, CarriedInv
  <2> QED BY <2>2, <2>3, <2>4, <2>6 DEF IInv
<1> QED BY <1>10, <1>11 DEF NewConnection, Push, io, f, r

-----------------------------------------------------------------------------
(* The invariant holds initially.                                          *)
LEMMA InitIInv == Init => IInv
<1>. SUFFICES ASSUME Init PROVE IInv
  OBVIOUS
<1>1. NewConn \in Connections /\ ConnInv(NewConn) /\ NewConn.told = <<>>
  <2>1. <<>> \o <<>> = <<>>
    OBVIOUS
  <2>2. [i \in 1 .. 2 * 0 |-> i] = <<>>
    OBVIOUS
  <2>3. OutputInOrder(NewConn)
    BY <2>1, <2>2 DEF NewConn, OutputInOrder
  <2> QED BY <2>3, ToldValues DEF NewConn, Connections, States, ConnInv, WritingIffWaiting,
             ToldInOrder
<1>2. \A c \in Conns : conn[c] = NewConn
  BY DEF Init
<1>3. loops_ \in Seq(Loops)
  BY ServerAssumption DEF Init
<1>4. TypeOK
  <2>1. conn \in [Conns -> Connections] /\ ioLoop \in [Conns -> Loops \cup {"none"}]
    BY <1>1 DEF Init
  <2>2. <<>> \in Seq(Functors) /\ Len(<<>>) = 0
    OBVIOUS
  <2>3. /\ queue \in [Loops -> Seq(Functors)] /\ batch \in [Loops -> Seq(Functors)]
        /\ ran \in [Loops -> Nat] /\ \A l \in Loops : ran[l] \in 0 .. Len(batch[l])
    BY <2>2 DEF Init
  <2>4. next_ \in 0 .. Len(loops_) /\ loops_ \in Pools
    BY <1>3 DEF Init
  <2>5. calls \in [Conns -> 0 .. MaxCalls]
    BY ServerAssumption DEF Init
  <2> QED BY <2>1, <2>3, <2>4, <2>5 DEF Init, TypeOK
<1>5. LoopsInv
  BY DEF Init, LoopsInv, NoCall
<1>6. ConnsInv
  BY <1>1, <1>2 DEF ConnsInv
<1>7. CarriersInv
  <2>1. \A op, c : ~ToRun(<<>>, 0, <<>>, op, c) /\ OnceToRun(<<>>, 0, <<>>, op, c)
    BY DEF ToRun, OnceToRun, Left
  <2>2. \A l \in Loops : batch[l] = <<>> /\ ran[l] = 0 /\ queue[l] = <<>>
    BY DEF Init
  <2> QED BY <1>1, <1>2, <2>1, <2>2, ToldValues DEF Init, CarriersInv, CarriedInv, Carried
<1> QED BY <1>4, <1>5, <1>6, <1>7 DEF IInv

(* Every step keeps the invariant.                                         *)
LEMMA NextIInv == IInv /\ [Next]_vars => IInv'
<1>. SUFFICES ASSUME IInv, [Next]_vars PROVE IInv'
  OBVIOUS
<1>1. CASE UNCHANGED vars
  BY <1>1 DEF vars, loopVars, userVars, IInv, TypeOK, LoopsInv, ConnsInv, CarriersInv,
     CarriedInv
<1>2. ASSUME NEW c \in Conns,
             NewConnection(c) \/ HandleEvent(c) \/ DelayedForceClose(c) \/ PeerCloses(c)
      PROVE  IInv'
  BY <1>2, NewConnectionStep, HandleEventStep, DelayedForceCloseStep, PeerClosesStep
<1>3. ASSUME NEW l \in Loops, LoopStep(l)
      PROVE  IInv'
  BY <1>3, StartBatchStep, RunFunctorStep, FinishBatchStep DEF LoopStep
<1>4. CASE UserStep
  BY <1>4, LoopCallStep, BeginThreadCallStep, EndThreadCallStep DEF UserStep
<1> QED BY <1>1, <1>2, <1>3, <1>4 DEF Next

(* What TcpServer's hand-over rests on.                                    *)
THEOREM InductiveInvariant == Spec => []IInv
BY InitIInv, NextIInv, PTL DEF Spec

(* The server keeps its types.                                             *)
THEOREM TypeCorrect == Spec => []TypeOK
<1>1. IInv => TypeOK
  BY DEF IInv
<1> QED BY <1>1, InductiveInvariant, PTL

(* sendInLoop never puts data on the wire ahead of data that waits, nor    *)
(* loses or doubles any, whoever calls send and from which thread.         *)
THEOREM OutputStaysInOrder == Spec => []OutputsInOrder
<1>1. IInv => OutputsInOrder
  BY DEF IInv, ConnsInv, ConnInv, OutputsInOrder
<1> QED BY <1>1, InductiveInvariant, PTL

(* While a connection reads, it waits for POLLOUT just while data waits.   *)
THEOREM WaitingIsWatched == Spec => []WritingWhileWaiting
<1>1. IInv => WritingWhileWaiting
  BY DEF IInv, ConnsInv, ConnInv, WritingWhileWaiting
<1> QED BY <1>1, InductiveInvariant, PTL

(* The user hears of each connection UP once and then DOWN at most once:   *)
(* connEstablished and connDestroyed each run once, in this order.         *)
THEOREM CallbacksStayInOrder == Spec => []CallbacksInOrder
<1>1. IInv => CallbacksInOrder
  BY DEF IInv, ConnsInv, ConnInv, CallbacksInOrder
<1> QED BY <1>1, InductiveInvariant, PTL

(* What has still to run is in the queue or the batch.                     *)
LEMMA ToRunIsHeld ==
  ASSUME NEW q \in Seq(Functors), NEW b \in Seq(Functors), NEW n \in Nat,
         NEW op \in Carrying, NEW c, ToRun(b, n, q, op, c)
  PROVE  Holds(q \o b, Carrying, c)
<1>1. /\ DOMAIN q = 1 .. Len(q) /\ Len(q) \in Nat
      /\ DOMAIN b = 1 .. Len(b) /\ Len(b) \in Nat
  BY LenProperties
<1>2. /\ q \o b \in Seq(Functors) /\ Len(q \o b) = Len(q) + Len(b)
      /\ \A i \in 1 .. Len(q) + Len(b) :
            (q \o b)[i] = IF i <= Len(q) THEN q[i] ELSE b[i - Len(q)]
  BY ConcatProperties
<1>. DEFINE s == q \o b
<1>. HIDE DEF s
<1>3. DOMAIN s = 1 .. Len(q) + Len(b)
  BY <1>2, LenProperties DEF s
<1>4. \A i \in DOMAIN q : i \in DOMAIN s /\ s[i] = q[i]
  BY <1>1, <1>2, <1>3 DEF s
<1>5. \A i \in DOMAIN b : Len(q) + i \in DOMAIN s /\ s[Len(q) + i] = b[i]
  <2>1. ASSUME NEW i \in DOMAIN b
        PROVE  Len(q) + i \in DOMAIN s /\ s[Len(q) + i] = b[i]
    <3>1. /\ Len(q) + i \in 1 .. Len(q) + Len(b)
          /\ ~(Len(q) + i <= Len(q)) /\ (Len(q) + i) - Len(q) = i
      BY <1>1
    <3> QED BY <1>2, <1>3, <3>1 DEF s
  <2> QED BY <2>1
<1>6. \E i \in DOMAIN s : Is(s[i], op, c)
  BY <1>4, <1>5 DEF ToRun, Left
<1>7. Holds(s, Carrying, c)
  BY <1>6 DEF Holds, Elements, Is
<1> QED BY <1>7 DEF s

(* The last shared_ptr is never dropped between the two loops: from        *)
(* newConnection to its DOWN callback the server's map or a functor that   *)
(* leads to connDestroyed owns the connection.                             *)
THEOREM OpenStaysOwned == Spec => []OpenIsOwned
<1>1. IInv => OpenIsOwned
  <2>. SUFFICES ASSUME IInv, NEW c \in Conns, ioLoop[c] # "none",
                       "DOWN" \notin Elements(conn[c].told), c \notin connections_
                PROVE  \E l \in Loops : Holds(queue[l] \o batch[l], Carrying, c)
    BY DEF OpenIsOwned
  <2>1. /\ Carried(batch, ran, queue, ioLoop[c], connections_, conn[c].told, c)
        /\ conn[c].told \in {<<>>, <<"UP">>, <<"UP", "DOWN">>}
        /\ ioLoop[c] \in Loops /\ QueueTypes(batch, ran, queue)
    BY Beginnings DEF Before, ConnsInv, ConnInv, ToldInOrder
  <2>2. "DOWN" \in Elements(<<"UP", "DOWN">>)
    <3>1. 2 \in DOMAIN <<"UP", "DOWN">> /\ <<"UP", "DOWN">>[2] = "DOWN"
      OBVIOUS
    <3> QED BY <3>1 DEF Elements
  <2>3. conn[c].told = <<"UP">>
    BY <2>1, <2>2 DEF Carried
  <2>4. ToRun(batch[ioLoop[c]], ran[ioLoop[c]], queue[ioLoop[c]], "connDestroyed", c)
    BY <2>1, <2>3 DEF Carried
  <2>5. Holds(queue[ioLoop[c]] \o batch[ioLoop[c]], Carrying, c)
    BY <2>1, <2>4, ToRunIsHeld DEF QueueTypes, Carrying
  <2> QED BY <2>1, <2>5
<1> QED BY <1>1, InductiveInvariant, PTL
==============================================================================
