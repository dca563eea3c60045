------------------------------- MODULE Buffer -------------------------------
(***************************************************************************)
(* Buffer.{h,cpp}: a vector and two indices.  A buffer is a record, and    *)
(* each member function an operator on records.  Indices count from 0 as   *)
(* in the code, so the byte at index i is data[i + 1].                     *)
(***************************************************************************)
EXTENDS Integers, Sequences

CONSTANTS
  kCheapPrepend, kInitialSize,  \* 8 and 1024 in the code
  SizeMax                       \* how many values a size_t has

ASSUME BufferAssumption ==
  /\ kCheapPrepend \in Nat
  /\ kInitialSize \in Nat
  /\ kCheapPrepend <= kInitialSize
  /\ SizeMax \in Nat
  /\ kCheapPrepend + kInitialSize < SizeMax

(* The layout drawn in Buffer.h:14.                                        *)
LaidOut(b) ==
  /\ b.data \in Seq(Nat)
  /\ b.readIndex \in 0 .. b.writeIndex
  /\ b.writeIndex \in 0 .. Len(b.data)

NewBuffer ==
  [data       |-> [i \in 1 .. kCheapPrepend + kInitialSize |-> 0],
   readIndex  |-> kCheapPrepend,
   writeIndex |-> kCheapPrepend]

Readable(b) == b.writeIndex - b.readIndex
Writable(b) == (Len(b.data) - b.writeIndex) % SizeMax
Content(b) == SubSeq(b.data, b.readIndex + 1, b.writeIndex)

(* std::copy of bytes to index at, as far as it stays in the vector.       *)
Copied(data, at, bytes) ==
  [i \in DOMAIN data |-> IF i - at \in DOMAIN bytes THEN bytes[i - at]
                                                    ELSE data[i]]

Resized(data, n) ==
  [i \in 1 .. n |-> IF i <= Len(data) THEN data[i] ELSE 0]

(* Whether makeSpace has to grow the vector.                               *)
MustGrow(b, len) == len + kCheapPrepend > Writable(b) + b.readIndex

Moved(b) ==
  [data       |-> Copied(b.data, kCheapPrepend, Content(b)),
   readIndex  |-> kCheapPrepend,
   writeIndex |-> kCheapPrepend + Readable(b)]

(* Mutation of MakeSpace: the content stays where it was.                  *)
MakeSpaceMovingIndices(b, len) ==
  IF MustGrow(b, len) THEN [b EXCEPT !.data = Resized(@, Writable(b) + len)]
                      ELSE [Moved(b) EXCEPT !.data = b.data]

(* Mutation of MakeSpace: free space before the content is not used.       *)
MakeSpaceGrowing(b, len) ==
  [b EXCEPT !.data = Resized(@, Writable(b) + len)]

(* The vector is resized to the free space plus len, whatever it holds.    *)
MakeSpace(b, len) ==
  IF MustGrow(b, len) THEN [b EXCEPT !.data = Resized(@, Writable(b) + len)]
                      ELSE Moved(b)

EnsureWritable(b, len) == IF Writable(b) < len THEN MakeSpace(b, len) ELSE b

(* append() has the room it needs.  Where it has not, either the assert of *)
(* ensureWritable fails, or the vector has become shorter than writeIndex, *)
(* writableBytes() has wrapped, and the copy runs past the end.            *)
Fits(b, len) ==
  LET e == EnsureWritable(b, len) IN e.writeIndex + len <= Len(e.data)

Appended(b, bytes) ==
  LET e == EnsureWritable(b, Len(bytes))
  IN  [e EXCEPT !.data = Copied(@, e.writeIndex, bytes),
                !.writeIndex = @ + Len(bytes)]

Retrieved(b, len) == [b EXCEPT !.readIndex = @ + len]

Prepended(b, bytes) ==
  [b EXCEPT !.data = Copied(@, b.readIndex - Len(bytes), bytes),
            !.readIndex = @ - Len(bytes)]

-----------------------------------------------------------------------------
(* readFd: readv(2) fills the writable space, then extrabuf, from which    *)
(* the rest is appended.                                                   *)
Filled(b, bytes) ==
  [b EXCEPT !.data = Copied(@, b.writeIndex, bytes), !.writeIndex = Len(b.data)]

Rest(b, bytes) == SubSeq(bytes, Writable(b) + 1, Len(bytes))

ReadFits(b, bytes) ==
  Len(bytes) > Writable(b) => Fits(Filled(b, bytes), Len(Rest(b, bytes)))

(* Mutation of ReadFd: writeIndex_ counts what is in extrabuf already.     *)
ReadFdCountingAll(b, bytes) ==
  IF Len(bytes) <= Writable(b)
    THEN [b EXCEPT !.data = Copied(@, b.writeIndex, bytes),
                   !.writeIndex = @ + Len(bytes)]
    ELSE Appended([Filled(b, bytes) EXCEPT !.writeIndex = Len(bytes)],
                  Rest(b, bytes))

ReadFd(b, bytes) ==
  IF Len(bytes) <= Writable(b)
    THEN [b EXCEPT !.data = Copied(@, b.writeIndex, bytes),
                   !.writeIndex = @ + Len(bytes)]
    ELSE Appended(Filled(b, bytes), Rest(b, bytes))
=============================================================================
