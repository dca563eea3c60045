-------------------------------- MODULE Codec --------------------------------
(***************************************************************************)
(* asio/Codec.h over Buffer and TcpConnection: one end sends messages with *)
(* LengthHeaderCodec::send, write(2) takes a part of what sendInLoop has,  *)
(* the bytes travel through the kernel, and the other end reads them in    *)
(* pieces of any size and decodes them in onMessage, one turn of its loop  *)
(* per step.                                                               *)
(*                                                                         *)
(* What write(2) does not take waits in the sender's outputBuffer_.  No    *)
(* write callback is set (OutputDrains of TcpServer), so no action takes   *)
(* it from there.  Neither end closes the connection here; a send on one   *)
(* that has left kConnected does nothing and is a stuttering step.         *)
(*                                                                         *)
(* A header, an int32_t in network order, is two digits of base Radix;     *)
(* bytes are numbers below Radix, and nothing tells a byte of a header     *)
(* from one of a message.                                                  *)
(***************************************************************************)
EXTENDS Buffer, SequencesExt

CONSTANTS
  Messages,   \* what users send: sequences of bytes
  MaxLen,     \* 65536 in the code
  Radix,      \* so an int32_t has Radix^2 values, half of them negative
  Extra,      \* sizeof(extrabuf)
  MaxSent     \* bound: messages sent

kHeaderLen == 2

ASSUME CodecAssumption ==
  /\ Radix \in Nat \ {0}
  /\ MaxLen \in Nat
  /\ Messages \subseteq Seq(0 .. Radix - 1)
  /\ kHeaderLen <= kCheapPrepend   \* the assert of Buffer::prepend
  /\ Extra \in Nat
  /\ MaxSent \in Nat

VARIABLES
  sent,          \* messages sendInLoop was given, in order
  outputBuffer_, \* TcpConnection::outputBuffer_ of the sender
  wire,          \* bytes in the kernel
  inputBuffer_,  \* TcpConnection::inputBuffer_ of the receiver
  decoding,      \* the receiver is in onMessage
  delivered,     \* messages the callback was given, in order
  state_,        \* TcpConnection::state_ of the receiver
  overrun        \* an append did not fit: an assert failed or memory is lost

vars ==
  <<sent, outputBuffer_, wire, inputBuffer_, decoding, delivered, state_, overrun>>

TypeOK ==
  /\ sent \in Seq(Messages)
  /\ LaidOut(outputBuffer_)
  /\ wire \in Seq(0 .. Radix - 1)
  /\ LaidOut(inputBuffer_)
  /\ decoding \in BOOLEAN
  /\ delivered \in Seq(Seq(0 .. Radix - 1))
  /\ state_ \in {"kConnected", "kDisconnecting"}
  /\ overrun \in BOOLEAN

Init ==
  /\ sent = <<>>
  /\ outputBuffer_ = NewBuffer
  /\ wire = <<>>
  /\ inputBuffer_ = NewBuffer
  /\ decoding = FALSE
  /\ delivered = <<>>
  /\ state_ = "kConnected"
  /\ overrun = FALSE

-----------------------------------------------------------------------------
(* htonl of the size cast to int32_t, and ntohl.                           *)
Encode(n) == <<(n \div Radix) % Radix, n % Radix>>

Decode(h) ==
  LET n == h[1] * Radix + h[2]
  IN  IF 2 * n >= Radix * Radix THEN n - Radix * Radix ELSE n

Frame(m) == Content(Prepended(Appended(NewBuffer, m), Encode(Len(m))))

(* Mutation of SendInLoop: write(2) is called in spite of what waits.      *)
SendInLoopOvertaking(bytes) ==
  \E n \in 0 .. Len(bytes) :
    LET rest == SubSeq(bytes, n + 1, Len(bytes))
    IN  /\ wire' = wire \o SubSeq(bytes, 1, n)
        /\ \/ /\ Fits(outputBuffer_, Len(rest))
              /\ outputBuffer_' = Appended(outputBuffer_, rest)
              /\ UNCHANGED overrun
           \/ /\ ~Fits(outputBuffer_, Len(rest))
              /\ overrun' = TRUE
              /\ UNCHANGED outputBuffer_

(* TcpConnection::sendInLoop: write(2) takes n bytes, none if it would     *)
(* block or fails, and is not called while earlier bytes wait (the channel *)
(* is writing exactly then).  The rest is appended, where no byte changes  *)
(* nothing.                                                                *)
SendInLoop(bytes) ==
  \E n \in 0 .. Len(bytes) :
    LET rest == SubSeq(bytes, n + 1, Len(bytes))
    IN  /\ Readable(outputBuffer_) > 0 => n = 0
        /\ wire' = wire \o SubSeq(bytes, 1, n)
        /\ \/ /\ Fits(outputBuffer_, Len(rest))
              /\ outputBuffer_' = Appended(outputBuffer_, rest)
              /\ UNCHANGED overrun
           \/ /\ ~Fits(outputBuffer_, Len(rest))
              /\ overrun' = TRUE
              /\ UNCHANGED outputBuffer_

(* LengthHeaderCodec::send, through a buffer of its own, which always has  *)
(* the room.  No length is refused here.                                   *)
Send(m) ==
  /\ Len(sent) < MaxSent
  /\ sent' = Append(sent, m)
  /\ SendInLoop(Frame(m))
  /\ UNCHANGED <<inputBuffer_, decoding, delivered, state_>>

(* TcpConnection::handleRead: readv(2) takes what has arrived, or a part.  *)
HandleRead ==
  /\ ~decoding
  /\ \E n \in 1 .. Len(wire) :
       LET bytes == SubSeq(wire, 1, n)
       IN  /\ n <= Writable(inputBuffer_) + Extra
           /\ wire' = SubSeq(wire, n + 1, Len(wire))
           /\ \/ /\ ReadFits(inputBuffer_, bytes)
                 /\ inputBuffer_' = ReadFd(inputBuffer_, bytes)
                 /\ decoding' = TRUE
                 /\ UNCHANGED overrun
              \/ /\ ~ReadFits(inputBuffer_, bytes)
                 /\ overrun' = TRUE
                 /\ UNCHANGED <<inputBuffer_, decoding>>
  /\ UNCHANGED <<sent, outputBuffer_, delivered, state_>>

(* onMessage.                                                              *)
HasHeader == Readable(inputBuffer_) >= kHeaderLen
Length == Decode(SubSeq(Content(inputBuffer_), 1, kHeaderLen))
Valid == Length \in 0 .. MaxLen
Complete == Readable(inputBuffer_) >= Length + kHeaderLen

(* Mutation of Deliver: an if in place of the while.                       *)
DeliverOnce ==
  /\ decoding /\ HasHeader /\ Valid /\ Complete
  /\ LET body == Retrieved(inputBuffer_, kHeaderLen)
     IN  /\ delivered' = Append(delivered, SubSeq(Content(body), 1, Length))
         /\ inputBuffer_' = Retrieved(body, Length)
  /\ decoding' = FALSE
  /\ UNCHANGED <<sent, outputBuffer_, wire, state_, overrun>>

Deliver ==
  /\ decoding /\ HasHeader /\ Valid /\ Complete
  /\ LET body == Retrieved(inputBuffer_, kHeaderLen)
     IN  /\ delivered' = Append(delivered, SubSeq(Content(body), 1, Length))
         /\ inputBuffer_' = Retrieved(body, Length)
  /\ UNCHANGED <<sent, outputBuffer_, wire, decoding, state_, overrun>>

(* The header stays in the buffer: every later read comes here again.      *)
Refuse ==
  /\ decoding /\ HasHeader /\ ~Valid
  /\ decoding' = FALSE
  /\ state_' = "kDisconnecting"
  /\ UNCHANGED <<sent, outputBuffer_, wire, inputBuffer_, delivered, overrun>>

AwaitMore ==
  /\ decoding
  /\ HasHeader => Valid /\ ~Complete
  /\ decoding' = FALSE
  /\ UNCHANGED <<sent, outputBuffer_, wire, inputBuffer_, delivered, state_, overrun>>

OnMessage == Deliver \/ Refuse \/ AwaitMore

Next ==
  /\ ~overrun
  /\ (\E m \in Messages : Send(m)) \/ HandleRead \/ OnMessage

(* The receiver's loop runs, and poll(2) reports what has arrived until it *)
(* is read.  Nobody has to send.                                           *)
Spec ==
  /\ Init /\ [][Next]_vars
  /\ WF_vars(~overrun /\ HandleRead)
  /\ WF_vars(~overrun /\ OnMessage)

-----------------------------------------------------------------------------
Frames(ms) == FlattenSeq([i \in DOMAIN ms |-> Frame(ms[i])])

(* The bytes in the receiver's buffer, in the kernel and in the sender's   *)
(* buffer are the frames of the messages not yet delivered: no partial     *)
(* write, compaction, growth or spill through extrabuf, and no cut through *)
(* a header, loses, doubles or moves a byte.                               *)
BufferHoldsStream ==
  ~overrun =>
    Content(inputBuffer_) \o wire \o Content(outputBuffer_) =
      Frames(SubSeq(sent, Len(delivered) + 1, Len(sent)))

(* "Solve the sticking of TCP packets" (Codec.h:11): messages come out as  *)
(* they went in, whole, in order, once each.                               *)
Stream == INSTANCE MessageStream
ImplementsMessageStream == Stream!Spec

(* The frames of the first k messages are out of the sender's buffer: what *)
(* waits there belongs to later ones.                                      *)
TakenWhole(k) ==
  Readable(outputBuffer_) <= Len(Frames(SubSeq(sent, k + 1, Len(sent))))

(* A message that write(2) took whole, if it and all before it are no      *)
(* longer than the limit, does arrive, however the stream is cut, and in   *)
(* spite of what waits or is refused after it, unless a buffer overruns.   *)
(* Of a message that is left in outputBuffer_, even in part, nothing is    *)
(* promised: no code sends the rest.                                       *)
Delivery ==
  \A k \in 1 .. MaxSent :
    (k <= Len(sent) /\ TakenWhole(k) /\ \A i \in 1 .. k : Len(sent[i]) <= MaxLen)
      ~> (overrun \/ Len(delivered) >= k)

(* A buffer overruns only when what it holds and what is to be added,      *)
(* which are the bytes of one read or those write(2) did not take of one   *)
(* frame, together exceed kInitialSize: makeSpace may fail to grow a used  *)
(* buffer, but never fails to find free space.                             *)
OverrunOnlyIfOverfull ==
  [][~overrun /\ overrun' =>
       IF sent' = sent
         THEN Readable(inputBuffer_) + Len(wire) - Len(wire') > kInitialSize
         ELSE Readable(outputBuffer_) + Len(Frame(Last(sent')))
                + Len(wire) - Len(wire') > kInitialSize]_vars

-----------------------------------------------------------------------------
(* "make sure the buffer has room for the data, or else grow the vector    *)
(* until it just fits" (Buffer.h:54).                                      *)
SpaceIsMade == ~overrun
==============================================================================
