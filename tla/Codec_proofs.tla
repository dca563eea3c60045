----------------------------- MODULE Codec_proofs -----------------------------
(***************************************************************************)
(* Theorems about Codec and Buffer, for any messages, whatever write(2)    *)
(* takes of them and however the bytes arrive: the two buffers lose none,  *)
(* and the codec implements MessageStream.                                 *)
(***************************************************************************)
EXTENDS Codec, SequenceTheorems, WellFoundedInduction, TLAPS

Bytes == 0 .. Radix - 1
Size == kCheapPrepend + kInitialSize
Buffers == [data : Seq(Nat), readIndex : Nat, writeIndex : Nat]

(* The readable bytes of b are s.                                          *)
Holds(b, s) ==
  /\ b \in Buffers /\ LaidOut(b)
  /\ s \in Seq(Bytes) /\ Len(s) = Readable(b)
  /\ \A i \in 1 .. Len(s) : b.data[b.readIndex + i] = s[i]

(* The receiver's buffer keeps the size it was constructed with, and its   *)
(* read index never goes below where it started.                           *)
Kept(b) == Len(b.data) = Size /\ kCheapPrepend <= b.readIndex

(* The sender's buffer is only appended to: what it holds begins where it  *)
(* started, and growing it leaves no more free space than there was.       *)
Grown(b) ==
  /\ Size <= Len(b.data) /\ b.readIndex = kCheapPrepend
  /\ Len(b.data) - b.writeIndex < SizeMax

-----------------------------------------------------------------------------
(* Sequences.                                                              *)

(* What the assumptions and the sizes of the code say of the constants.    *)
LEMMA Constants ==
  /\ kCheapPrepend \in Nat /\ kInitialSize \in Nat /\ SizeMax \in Nat
  /\ Size \in Nat /\ Size < SizeMax /\ Size > 0
  /\ kHeaderLen = 2 /\ 2 <= kCheapPrepend /\ kCheapPrepend <= kInitialSize
  /\ Radix \in Nat \ {0} /\ MaxLen \in Nat /\ Extra \in Nat
  /\ Bytes \subseteq Nat
BY BufferAssumption, CodecAssumption DEF Size, kHeaderLen, Bytes

(* Induction over the naturals, as a fact about sets: the least natural    *)
(* that is not in S would be neither 0 nor the successor of one that is.   *)
LEMMA NatSetInduction ==
  ASSUME NEW S, 0 \in S, \A n \in Nat : n \in S => n + 1 \in S
  PROVE  Nat \subseteq S
<1>. DEFINE R == OpToRel(<, Nat)
<1>1. IsWellFoundedOn(R, Nat)
  BY NatLessThanWellFounded, Zenon
<1>2. \A x, y \in Nat : x < y => <<x, y>> \in R
  BY DEF OpToRel
<1>. HIDE DEF R
<1>3. SUFFICES ASSUME Nat \ S # {}
               PROVE  FALSE
  OBVIOUS
<1>4. PICK x \in Nat \ S : \A y \in Nat \ S : ~ (<<y, x>> \in R)
  BY <1>1, <1>3, WFMin
<1>5. x # 0 /\ x \in Nat
  OBVIOUS
<1>6. x - 1 \in Nat /\ x - 1 < x /\ (x - 1) + 1 = x
  BY <1>5
<1>7. x - 1 \in Nat \ S
  BY <1>6
<1> QED BY <1>2, <1>4, <1>5, <1>6, <1>7

(* SubSeq, element by element.                                             *)
LEMMA Part ==
  ASSUME NEW S, NEW s \in Seq(S), NEW m \in 1 .. Len(s) + 1,
         NEW n \in m - 1 .. Len(s)
  PROVE  /\ SubSeq(s, m, n) \in Seq(S)
         /\ Len(SubSeq(s, m, n)) = n - m + 1
         /\ \A i \in 1 .. n - m + 1 : SubSeq(s, m, n)[i] = s[m + i - 1]
<1>1. Len(s) \in Nat
  BY LenProperties
<1>2. m \in Int /\ n \in Int /\ m \in Nat \ {0} /\ m - 1 <= n /\ n <= Len(s)
  BY <1>1
<1>3. \A i \in m .. n : s[i] \in S
  <2>1. \A i \in m .. n : i \in 1 .. Len(s)
    BY <1>1, <1>2
  <2> QED BY <2>1, ElementOfSeq
<1>4. /\ SubSeq(s, m, n) \in Seq(S)
      /\ Len(SubSeq(s, m, n)) = IF m <= n THEN n - m + 1 ELSE 0
      /\ \A i \in 1 .. n - m + 1 : SubSeq(s, m, n)[i] = s[m + i - 1]
  BY <1>2, <1>3, SubSeqProperties
<1> QED BY <1>2, <1>4

(* A function on 1 .. n is a sequence of length n.                         *)
LEMMA Function ==
  ASSUME NEW S, NEW n \in Nat, NEW f \in [1 .. n -> S]
  PROVE  f \in Seq(S) /\ Len(f) = n
OBVIOUS

(* std::copy within bounds.                                                *)
LEMMA CopiedIs ==
  ASSUME NEW data \in Seq(Nat), NEW at \in Nat, NEW bytes \in Seq(Nat)
  PROVE  /\ Copied(data, at, bytes) \in Seq(Nat)
         /\ Len(Copied(data, at, bytes)) = Len(data)
         /\ \A i \in 1 .. Len(data) :
              Copied(data, at, bytes)[i] =
                IF i - at \in 1 .. Len(bytes) THEN bytes[i - at] ELSE data[i]
<1>1. /\ Len(data) \in Nat /\ DOMAIN data = 1 .. Len(data)
      /\ DOMAIN bytes = 1 .. Len(bytes)
  BY LenProperties
<1>2. /\ \A i \in 1 .. Len(data) : data[i] \in Nat
      /\ \A i \in 1 .. Len(bytes) : bytes[i] \in Nat
  BY ElementOfSeq
<1>3. Copied(data, at, bytes) =
        [i \in 1 .. Len(data) |->
           IF i - at \in 1 .. Len(bytes) THEN bytes[i - at] ELSE data[i]]
  BY <1>1 DEF Copied
<1>4. Copied(data, at, bytes) \in [1 .. Len(data) -> Nat]
  BY <1>2, <1>3
<1> QED BY <1>1, <1>3, <1>4, Function

(* vector::resize keeps what it has room for.                              *)
LEMMA ResizedIs ==
  ASSUME NEW data \in Seq(Nat), NEW n \in Nat
  PROVE  /\ Resized(data, n) \in Seq(Nat)
         /\ Len(Resized(data, n)) = n
         /\ \A i \in 1 .. n : i <= Len(data) => Resized(data, n)[i] = data[i]
<1>1. Len(data) \in Nat
  BY LenProperties
<1>2. \A i \in 1 .. Len(data) : data[i] \in Nat
  BY ElementOfSeq
<1>3. Resized(data, n) \in [1 .. n -> Nat]
  BY <1>1, <1>2 DEF Resized
<1>4. Resized(data, n) \in Seq(Nat) /\ Len(Resized(data, n)) = n
  BY <1>3, Function
<1> QED BY <1>4 DEF Resized

-----------------------------------------------------------------------------
(* Buffers.                                                                *)

(* What it means to hold s, in terms of the three fields.                  *)
LEMMA Shape ==
  ASSUME NEW b, NEW s, Holds(b, s)
  PROVE  /\ b.data \in Seq(Nat) /\ Len(b.data) \in Nat
         /\ b.readIndex \in Nat /\ b.writeIndex \in Nat
         /\ b.readIndex <= b.writeIndex /\ b.writeIndex <= Len(b.data)
         /\ b.writeIndex = b.readIndex + Len(s)
         /\ b = [data |-> b.data, readIndex |-> b.readIndex, writeIndex |-> b.writeIndex]
         /\ s \in Seq(Bytes) /\ s \in Seq(Nat) /\ Len(s) \in Nat
         /\ \A i \in 1 .. Len(s) : b.data[b.readIndex + i] = s[i]
<1>1. s \in Seq(Bytes) /\ Len(s) \in Nat /\ s \in Seq(Nat)
  BY Constants, SeqMonotonic, LenProperties DEF Holds
<1>2. /\ b.data \in Seq(Nat) /\ b.readIndex \in Nat /\ b.writeIndex \in Nat
      /\ b = [data |-> b.data, readIndex |-> b.readIndex, writeIndex |-> b.writeIndex]
  BY DEF Holds, Buffers
<1>3. Len(b.data) \in Nat
  BY <1>2, LenProperties
<1> QED BY <1>1, <1>2, <1>3 DEF Holds, LaidOut, Readable

(* What makes a record hold the bytes.                                     *)
LEMMA Holding ==
  ASSUME NEW data \in Seq(Nat), NEW r \in Nat, NEW s \in Seq(Bytes),
         r + Len(s) <= Len(data),
         \A i \in 1 .. Len(s) : data[r + i] = s[i]
  PROVE  Holds([data |-> data, readIndex |-> r, writeIndex |-> r + Len(s)], s)
<1>1. Len(s) \in Nat /\ Len(data) \in Nat
  BY LenProperties
<1> QED BY <1>1 DEF Holds, Buffers, LaidOut, Readable

(* A buffer is constructed empty.                                          *)
LEMMA NewHolds ==
  /\ Holds(NewBuffer, <<>>) /\ Len(NewBuffer.data) = Size
  /\ NewBuffer.readIndex = kCheapPrepend /\ NewBuffer.writeIndex = kCheapPrepend
<1>. DEFINE d == [i \in 1 .. kCheapPrepend + kInitialSize |-> 0]
<1>1. d \in Seq(Nat) /\ Len(d) = Size
  BY Constants, Function DEF Size
<1>2. NewBuffer = [data |-> d, readIndex |-> kCheapPrepend, writeIndex |-> kCheapPrepend]
  BY DEF NewBuffer
<1>3. <<>> \in Seq(Bytes) /\ Len(<<>>) = 0
  OBVIOUS
<1>. HIDE DEF d
<1>4. kCheapPrepend \in Nat /\ kCheapPrepend + 0 <= Len(d) /\ kCheapPrepend + 0 = kCheapPrepend
  BY <1>1, Constants DEF Size
<1>5. Holds([data |-> d, readIndex |-> kCheapPrepend,
             writeIndex |-> kCheapPrepend + Len(<<>>)], <<>>)
  <2>1. \A i \in 1 .. Len(<<>>) : d[kCheapPrepend + i] = <<>>[i]
    BY <1>3
  <2> QED BY <1>1, <1>3, <1>4, <2>1, Holding
<1> QED BY <1>1, <1>2, <1>3, <1>4, <1>5

(* peek() and readableBytes() return what is held.                         *)
LEMMA ContentHeld ==
  ASSUME NEW b, NEW s, Holds(b, s)
  PROVE  Content(b) = s /\ Readable(b) = Len(s)
<1>. DEFINE data == b.data
            m == b.readIndex + 1
            n == b.writeIndex
<1>1. /\ data \in Seq(Nat) /\ m \in 1 .. Len(data) + 1 /\ n \in m - 1 .. Len(data)
      /\ n - m + 1 = Len(s) /\ m \in Nat /\ n \in Nat
      /\ Len(s) \in Nat /\ s \in Seq(Nat)
      /\ \A i \in 1 .. Len(s) : data[m + i - 1] = s[i]
  <2>1. /\ b.readIndex \in Nat /\ n \in Nat /\ n = b.readIndex + Len(s)
        /\ n <= Len(data) /\ Len(data) \in Nat /\ data \in Seq(Nat)
        /\ Len(s) \in Nat /\ s \in Seq(Nat)
        /\ \A i \in 1 .. Len(s) : data[b.readIndex + i] = s[i]
    BY Shape
  <2>. HIDE DEF data, n
  <2>2. \A i \in 1 .. Len(s) : m + i - 1 = b.readIndex + i
    BY <2>1
  <2>3. \A i \in 1 .. Len(s) : data[m + i - 1] = s[i]
    BY <2>1, <2>2
  <2>4. m \in Nat /\ m - 1 = b.readIndex
    BY <2>1
  <2>5. b.readIndex \in Nat /\ n \in Nat /\ Len(data) \in Nat /\ Len(s) \in Nat
        /\ n = b.readIndex + Len(s) /\ n <= Len(data)
    BY ONLY <2>1
  <2>. HIDE DEF m
  <2>6. m \in 1 .. Len(data) + 1 /\ n \in m - 1 .. Len(data) /\ n - m + 1 = Len(s)
    BY ONLY <2>4, <2>5
  <2>7. data \in Seq(Nat) /\ s \in Seq(Nat)
    BY ONLY <2>1
  <2> QED BY ONLY <2>3, <2>4, <2>5, <2>6, <2>7
<1>2. Content(b) = SubSeq(data, m, n)
  BY DEF Content
<1>. HIDE DEF data, m, n
<1>3. /\ Content(b) \in Seq(Nat)
      /\ Len(Content(b)) = Len(s)
      /\ \A i \in 1 .. Len(s) : Content(b)[i] = s[i]
  <2>1. /\ SubSeq(data, m, n) \in Seq(Nat)
        /\ Len(SubSeq(data, m, n)) = n - m + 1
        /\ \A i \in 1 .. n - m + 1 : SubSeq(data, m, n)[i] = data[m + i - 1]
    BY <1>1, Part
  <2> QED BY <1>1, <1>2, <2>1
<1>4. Content(b) = s
  BY <1>1, <1>3, SeqEqual
<1> QED BY <1>4 DEF Holds

(* writableBytes() does not wrap while the indices are in order.           *)
LEMMA FreeIs ==
  ASSUME NEW b, NEW s, Holds(b, s), Len(b.data) - b.writeIndex < SizeMax
  PROVE  Writable(b) = Len(b.data) - b.writeIndex /\ Writable(b) \in Nat
<1>1. ASSUME NEW x \in Nat, NEW y \in Nat, x < y
      PROVE  x % y = x
  BY <1>1
<1>2. Len(b.data) - b.writeIndex \in Nat
  BY Shape
<1> QED BY <1>1, <1>2, Constants DEF Writable

(* Its value is a natural number in any case.                              *)
LEMMA WritableNat ==
  ASSUME NEW b, NEW s, Holds(b, s)
  PROVE  Writable(b) \in Nat
<1>1. ASSUME NEW x \in Nat, NEW y \in Nat, y > 0
      PROVE  x % y \in Nat
  BY <1>1
<1>2. Len(b.data) - b.writeIndex \in Nat
  BY Shape
<1>3. SizeMax \in Nat /\ SizeMax > 0
  BY Constants
<1> QED BY <1>1, <1>2, <1>3 DEF Writable

(* It is the free space of a vector as large as the one constructed.       *)
LEMMA WritableIs ==
  ASSUME NEW b, NEW s, Holds(b, s), Len(b.data) < SizeMax
  PROVE  Writable(b) = Len(b.data) - b.writeIndex /\ Writable(b) \in Nat
<1>1. ASSUME NEW x \in Nat, NEW y \in Nat, x < y
      PROVE  x % y = x
  BY <1>1
<1>2. Len(b.data) - b.writeIndex \in Nat /\ Len(b.data) - b.writeIndex < SizeMax
  BY Shape, Constants
<1> QED BY <1>1, <1>2, Constants DEF Writable

(* append() where there is room.                                           *)
Written(b, t) ==
  [data |-> Copied(b.data, b.writeIndex, t), readIndex |-> b.readIndex,
   writeIndex |-> b.writeIndex + Len(t)]

(* The bytes written end up behind those already there.                    *)
LEMMA WrittenHolds ==
  ASSUME NEW b, NEW s, Holds(b, s), NEW t \in Seq(Bytes),
         b.writeIndex + Len(t) <= Len(b.data)
  PROVE  Holds(Written(b, t), s \o t) /\ Len(Written(b, t).data) = Len(b.data)
<1>. DEFINE d == Copied(b.data, b.writeIndex, t)
            r == b.readIndex
            w == b.writeIndex
            n == Len(b.data)
            u == s \o t
<1>1. /\ r \in Nat /\ w \in Nat /\ n \in Nat /\ w = r + Len(s) /\ Len(s) \in Nat
      /\ b.data \in Seq(Nat) /\ s \in Seq(Bytes)
      /\ \A i \in 1 .. Len(s) : b.data[r + i] = s[i]
  BY Shape
<1>2. t \in Seq(Nat) /\ Len(t) \in Nat
  BY Constants, SeqMonotonic, LenProperties
<1>3. /\ d \in Seq(Nat) /\ Len(d) = n
      /\ \A i \in 1 .. n : d[i] = IF i - w \in 1 .. Len(t) THEN t[i - w] ELSE b.data[i]
  BY <1>1, <1>2, CopiedIs
<1>4. /\ u \in Seq(Bytes) /\ Len(u) = Len(s) + Len(t)
      /\ \A i \in 1 .. Len(s) + Len(t) :
           u[i] = IF i <= Len(s) THEN s[i] ELSE t[i - Len(s)]
  BY <1>1, ConcatProperties
<1>5. w + Len(t) <= n
  OBVIOUS
<1>6. Written(b, t) = [data |-> d, readIndex |-> r, writeIndex |-> w + Len(t)]
  BY DEF Written
<1>. HIDE DEF d, r, w, n, u
<1>7. ASSUME NEW i \in 1 .. Len(u)
      PROVE  d[r + i] = u[i]
  <2>1. i \in 1 .. Len(s) + Len(t) /\ r + i \in 1 .. n /\ (r + i) - w = i - Len(s)
    BY <1>1, <1>2, <1>4, <1>5
  <2>2. CASE i <= Len(s)
    <3>1. ~((r + i) - w \in 1 .. Len(t)) /\ i \in 1 .. Len(s)
      BY <1>1, <2>1, <2>2
    <3> QED BY <1>1, <1>3, <1>4, <2>1, <2>2, <3>1 DEF r
  <2>3. CASE i > Len(s)
    <3>1. (r + i) - w \in 1 .. Len(t) /\ ~(i <= Len(s))
      BY <1>1, <1>2, <2>1, <2>3
    <3> QED BY <1>3, <1>4, <2>1, <3>1
  <2> QED BY <1>1, <2>1, <2>2, <2>3
<1>8. w + Len(t) = r + Len(u) /\ r + Len(u) <= Len(d)
  BY <1>1, <1>2, <1>3, <1>4, <1>5
<1>9. Holds([data |-> d, readIndex |-> r, writeIndex |-> r + Len(u)], u)
  BY <1>1, <1>3, <1>4, <1>7, <1>8, Holding
<1> QED BY <1>3, <1>6, <1>8, <1>9 DEF u, n

(* makeSpace(): the content moves to the front, ...                        *)
LEMMA MovedHolds ==
  ASSUME NEW b, NEW s, Holds(b, s), kCheapPrepend <= b.readIndex
  PROVE  /\ Holds(Moved(b), s)
         /\ Len(Moved(b).data) = Len(b.data)
         /\ Moved(b).readIndex = kCheapPrepend
         /\ Moved(b).writeIndex = kCheapPrepend + Len(s)
<1>. DEFINE d == Copied(b.data, kCheapPrepend, s)
            c == kCheapPrepend
            n == Len(b.data)
<1>1. /\ c \in Nat /\ n \in Nat /\ Len(s) \in Nat /\ c + Len(s) <= n
      /\ b.data \in Seq(Nat) /\ s \in Seq(Bytes) /\ s \in Seq(Nat)
  BY Shape, Constants
<1>2. Moved(b) = [data |-> d, readIndex |-> c, writeIndex |-> c + Len(s)]
  BY ContentHeld DEF Moved
<1>3. /\ d \in Seq(Nat) /\ Len(d) = n
      /\ \A i \in 1 .. n : d[i] = IF i - c \in 1 .. Len(s) THEN s[i - c] ELSE b.data[i]
  BY <1>1, CopiedIs
<1>. HIDE DEF d, c, n
<1>4. ASSUME NEW i \in 1 .. Len(s)
      PROVE  d[c + i] = s[i]
  <2>1. c + i \in 1 .. n /\ (c + i) - c = i
    BY <1>1
  <2> QED BY <1>3, <2>1
<1>5. Holds([data |-> d, readIndex |-> c, writeIndex |-> c + Len(s)], s)
  BY <1>1, <1>3, <1>4, Holding
<1> QED BY <1>2, <1>3, <1>5 DEF c, n

(* ... or the vector is resized to no less than what is used of it.        *)
LEMMA ResizedHolds ==
  ASSUME NEW b, NEW s, Holds(b, s), NEW n \in Nat, b.writeIndex <= n
  PROVE  /\ Holds([b EXCEPT !.data = Resized(@, n)], s)
         /\ Len([b EXCEPT !.data = Resized(@, n)].data) = n
<1>. DEFINE d == Resized(b.data, n)
            r == b.readIndex
<1>1. /\ b.data \in Seq(Nat) /\ Len(b.data) \in Nat /\ r \in Nat /\ Len(s) \in Nat
      /\ b.writeIndex = r + Len(s) /\ r + Len(s) <= Len(b.data) /\ r + Len(s) <= n
      /\ s \in Seq(Bytes)
      /\ \A i \in 1 .. Len(s) : b.data[r + i] = s[i]
  BY Shape
<1>2. /\ d \in Seq(Nat) /\ Len(d) = n
      /\ \A i \in 1 .. n : i <= Len(b.data) => d[i] = b.data[i]
  BY <1>1, ResizedIs
<1>3. [b EXCEPT !.data = Resized(@, n)] =
        [data |-> d, readIndex |-> r, writeIndex |-> r + Len(s)]
  BY Shape
<1>. HIDE DEF d, r
<1>4. ASSUME NEW i \in 1 .. Len(s)
      PROVE  d[r + i] = s[i]
  <2>1. r + i \in 1 .. n /\ r + i <= Len(b.data)
    BY <1>1
  <2> QED BY <1>1, <1>2, <2>1
<1>5. Holds([data |-> d, readIndex |-> r, writeIndex |-> r + Len(s)], s)
  BY <1>1, <1>2, <1>4, Holding
<1> QED BY <1>2, <1>3, <1>5

(* retrieve().                                                             *)
Dropped(s, n) == SubSeq(s, n + 1, Len(s))

(* Dropped, element by element.                                            *)
LEMMA DroppedIs ==
  ASSUME NEW S, NEW s \in Seq(S), NEW n \in 0 .. Len(s)
  PROVE  /\ Dropped(s, n) \in Seq(S)
         /\ Len(Dropped(s, n)) = Len(s) - n
         /\ \A i \in 1 .. Len(s) - n : Dropped(s, n)[i] = s[n + i]
<1>. DEFINE m == n + 1
            k == Len(s)
<1>1. m \in 1 .. Len(s) + 1 /\ k \in m - 1 .. Len(s) /\ k - m + 1 = Len(s) - n
  BY LenProperties
<1>2. m - 1 = n
  OBVIOUS
<1>3. Dropped(s, n) = SubSeq(s, m, k)
  BY DEF Dropped
<1>. HIDE DEF m, k
<1>4. /\ SubSeq(s, m, k) \in Seq(S)
      /\ Len(SubSeq(s, m, k)) = k - m + 1
      /\ \A i \in 1 .. k - m + 1 : SubSeq(s, m, k)[i] = s[m + i - 1]
  BY <1>1, Part
<1>5. \A i \in 1 .. k - m + 1 : m + i - 1 = n + i
  BY DEF m
<1> QED BY <1>1, <1>3, <1>4, <1>5

(* retrieve() of what is there removes exactly that much from the front.   *)
LEMMA RetrievedHolds ==
  ASSUME NEW b, NEW s, Holds(b, s), NEW n \in 0 .. Len(s)
  PROVE  /\ Holds(Retrieved(b, n), Dropped(s, n))
         /\ Len(Retrieved(b, n).data) = Len(b.data)
         /\ Retrieved(b, n).readIndex = b.readIndex + n
<1>. DEFINE d == b.data
            r == b.readIndex + n
            u == Dropped(s, n)
<1>1. /\ d \in Seq(Nat) /\ Len(d) \in Nat /\ b.readIndex \in Nat /\ Len(s) \in Nat
      /\ b.writeIndex = b.readIndex + Len(s) /\ b.readIndex + Len(s) <= Len(d)
      /\ s \in Seq(Bytes)
      /\ \A i \in 1 .. Len(s) : d[b.readIndex + i] = s[i]
  BY Shape
<1>2. /\ u \in Seq(Bytes) /\ Len(u) = Len(s) - n
      /\ \A i \in 1 .. Len(s) - n : u[i] = s[n + i]
  BY <1>1, DroppedIs
<1>3. Retrieved(b, n) = [data |-> d, readIndex |-> r, writeIndex |-> r + Len(u)]
  <2>1. b.writeIndex = r + Len(u)
    BY <1>1, <1>2
  <2>2. b = [data |-> b.data, readIndex |-> b.readIndex, writeIndex |-> b.writeIndex]
    BY Shape
  <2>3. Retrieved(b, n) = [data |-> d, readIndex |-> r, writeIndex |-> b.writeIndex]
    BY <2>2 DEF Retrieved
  <2> QED BY <2>1, <2>3
<1>4. /\ r \in Nat /\ r + Len(u) <= Len(d)
      /\ \A i \in 1 .. Len(u) : n + i \in 1 .. Len(s) /\ r + i = b.readIndex + (n + i)
  <2>1. /\ Len(d) \in Nat /\ b.readIndex \in Nat /\ Len(s) \in Nat
        /\ b.readIndex + Len(s) <= Len(d) /\ Len(u) = Len(s) - n
        /\ n \in 0 .. Len(s) /\ r = b.readIndex + n
    BY <1>1, <1>2
  <2>. HIDE DEF d, r, u
  <2> QED BY ONLY <2>1
<1>. HIDE DEF d, r, u
<1>5. \A i \in 1 .. Len(u) : d[r + i] = u[i]
  BY <1>1, <1>2, <1>4
<1>6. Holds([data |-> d, readIndex |-> r, writeIndex |-> r + Len(u)], u)
  BY <1>1, <1>2, <1>4, <1>5, Holding
<1> QED BY <1>3, <1>6 DEF d, r, u

(* prepend().                                                              *)
LEMMA PrependedHolds ==
  ASSUME NEW b, NEW s, Holds(b, s), NEW h \in Seq(Bytes), Len(h) <= b.readIndex
  PROVE  Holds(Prepended(b, h), h \o s)
<1>. DEFINE r == b.readIndex - Len(h)
            d == Copied(b.data, r, h)
            n == Len(b.data)
            u == h \o s
<1>1. /\ b.readIndex \in Nat /\ n \in Nat /\ Len(s) \in Nat
      /\ b.writeIndex = b.readIndex + Len(s) /\ b.readIndex + Len(s) <= n
      /\ b.data \in Seq(Nat) /\ s \in Seq(Bytes)
      /\ \A i \in 1 .. Len(s) : b.data[b.readIndex + i] = s[i]
  BY Shape
<1>2. h \in Seq(Nat) /\ Len(h) \in Nat
  BY Constants, SeqMonotonic, LenProperties
<1>3. r \in Nat /\ b.readIndex = r + Len(h)
  BY <1>1, <1>2
<1>4. /\ u \in Seq(Bytes) /\ Len(u) = Len(h) + Len(s)
      /\ \A i \in 1 .. Len(h) + Len(s) :
           u[i] = IF i <= Len(h) THEN h[i] ELSE s[i - Len(h)]
  BY <1>1, ConcatProperties
<1>5. Prepended(b, h) = [data |-> d, readIndex |-> r, writeIndex |-> r + Len(u)]
  <2>1. b.writeIndex = r + Len(u)
    BY <1>1, <1>2, <1>3, <1>4
  <2>2. b = [data |-> b.data, readIndex |-> b.readIndex, writeIndex |-> b.writeIndex]
    BY Shape
  <2>3. Prepended(b, h) = [data |-> d, readIndex |-> r, writeIndex |-> b.writeIndex]
    <3>1. ASSUME NEW q, q = Prepended(b, h)
          PROVE  q = [data |-> d, readIndex |-> r, writeIndex |-> b.writeIndex]
      <4>. HIDE DEF r
      <4>1. q = [b EXCEPT !.data = d, !.readIndex = r]
        BY <3>1 DEF Prepended, r
      <4>. HIDE DEF d
      <4> QED BY <2>2, <4>1
    <3> QED BY <3>1
  <2> QED BY <2>1, <2>3
<1>. HIDE DEF r
<1>6. /\ d \in Seq(Nat) /\ Len(d) = n
      /\ \A i \in 1 .. n : d[i] = IF i - r \in 1 .. Len(h) THEN h[i - r] ELSE b.data[i]
  <2>1. b.data \in Seq(Nat) /\ r \in Nat /\ h \in Seq(Nat)
    BY <1>1, <1>2, <1>3
  <2> QED BY ONLY <2>1, CopiedIs
<1>. HIDE DEF d, n, u
<1>7. ASSUME NEW i \in 1 .. Len(u)
      PROVE  d[r + i] = u[i]
  <2>1. i \in 1 .. Len(h) + Len(s) /\ r + i \in 1 .. n /\ (r + i) - r = i
    BY <1>1, <1>2, <1>3, <1>4
  <2>2. CASE i <= Len(h)
    <3>1. (r + i) - r \in 1 .. Len(h)
      BY <1>2, <2>1, <2>2
    <3> QED BY <1>4, <1>6, <2>1, <2>2, <3>1
  <2>3. CASE i > Len(h)
    <3>1. /\ ~((r + i) - r \in 1 .. Len(h)) /\ ~(i <= Len(h))
          /\ i - Len(h) \in 1 .. Len(s) /\ r + i = b.readIndex + (i - Len(h))
      BY <1>1, <1>2, <1>3, <2>1, <2>3
    <3> QED BY <1>1, <1>4, <1>6, <2>1, <3>1
  <2> QED BY <1>2, <2>1, <2>2, <2>3
<1>8. r + Len(u) <= Len(d)
  BY <1>1, <1>2, <1>3, <1>4, <1>6
<1>9. Holds([data |-> d, readIndex |-> r, writeIndex |-> r + Len(u)], u)
  BY <1>3, <1>4, <1>6, <1>7, <1>8, Holding
<1> QED BY <1>5, <1>9 DEF u

-----------------------------------------------------------------------------
(* ensureWritable() and append(), where there is room afterwards.          *)
LEMMA EnsureHolds ==
  ASSUME NEW b, NEW s, Holds(b, s), NEW n \in Nat,
         kCheapPrepend <= b.readIndex, Fits(b, n)
  PROVE  /\ Holds(EnsureWritable(b, n), s)
         /\ EnsureWritable(b, n).writeIndex + n <= Len(EnsureWritable(b, n).data)
         /\ kCheapPrepend <= EnsureWritable(b, n).readIndex
<1>1. EnsureWritable(b, n).writeIndex + n <= Len(EnsureWritable(b, n).data)
  BY DEF Fits
<1>2. Writable(b) \in Nat /\ kCheapPrepend \in Nat
  BY WritableNat, Constants
<1>3. CASE ~(Writable(b) < n)
  <2>1. EnsureWritable(b, n) = b
    BY <1>3 DEF EnsureWritable
  <2> QED BY <1>1, <2>1
<1>4. CASE Writable(b) < n /\ MustGrow(b, n)
  <2>. DEFINE e == [b EXCEPT !.data = Resized(@, Writable(b) + n)]
  <2>1. EnsureWritable(b, n) = e
    BY <1>4 DEF EnsureWritable, MakeSpace
  <2>2. e.writeIndex = b.writeIndex /\ e.readIndex = b.readIndex
        /\ e.data = Resized(b.data, Writable(b) + n)
    <3>1. b = [data |-> b.data, readIndex |-> b.readIndex, writeIndex |-> b.writeIndex]
      BY Shape
    <3> QED BY <3>1
  <2>3. Len(e.data) = Writable(b) + n
    <3>1. b.data \in Seq(Nat) /\ Writable(b) + n \in Nat
      BY <1>2, Shape
    <3> QED BY <2>2, <3>1, ResizedIs
  <2>4. b.writeIndex <= Writable(b) + n /\ Writable(b) + n \in Nat
    <3>1. b.writeIndex \in Nat
      BY Shape
    <3>. HIDE DEF e
    <3> QED BY <1>1, <1>2, <2>1, <2>2, <2>3, <3>1
  <2>5. Holds(e, s)
    BY <2>4, ResizedHolds
  <2> QED BY <1>1, <2>1, <2>2, <2>5
<1>5. CASE Writable(b) < n /\ ~MustGrow(b, n)
  <2>1. EnsureWritable(b, n) = Moved(b)
    BY <1>5 DEF EnsureWritable, MakeSpace
  <2>2. Holds(Moved(b), s) /\ Moved(b).readIndex = kCheapPrepend
    BY MovedHolds
  <2>. DEFINE e == Moved(b)
  <2>3. e.writeIndex + n <= Len(e.data)
    BY <1>1, <2>1
  <2>. HIDE DEF e
  <2>4. /\ Holds(e, s) /\ e.writeIndex + n <= Len(e.data)
        /\ kCheapPrepend <= e.readIndex
    BY <1>2, <2>2, <2>3 DEF e
  <2> QED BY <2>1, <2>4 DEF e
<1> QED BY <1>3, <1>4, <1>5

(* The assert of makeSpace (Buffer.cpp:40): where it compacts, some bytes  *)
(* have been read, whatever the buffer holds and however much is appended. *)
LEMMA CompactsWhatWasRead ==
  ASSUME NEW b, NEW s, Holds(b, s), NEW n \in Nat,
         Writable(b) < n, ~MustGrow(b, n)
  PROVE  kCheapPrepend < b.readIndex
<1>1. Writable(b) \in Nat /\ kCheapPrepend \in Nat /\ b.readIndex \in Nat
  BY WritableNat, Shape, Constants
<1> QED BY <1>1 DEF MustGrow

(* append() keeps the content and adds to it, if ensureWritable()          *)
(* succeeds.                                                               *)
LEMMA AppendedHolds ==
  ASSUME NEW b, NEW s, Holds(b, s), NEW t \in Seq(Bytes),
         kCheapPrepend <= b.readIndex, Fits(b, Len(t))
  PROVE  /\ Holds(Appended(b, t), s \o t)
         /\ Appended(b, t) = Written(EnsureWritable(b, Len(t)), t)
<1>. DEFINE e == EnsureWritable(b, Len(t))
<1>1. Len(t) \in Nat
  BY LenProperties
<1>2. Holds(e, s) /\ e.writeIndex + Len(t) <= Len(e.data)
  BY <1>1, EnsureHolds
<1>3. Appended(b, t) = Written(e, t)
  <2>1. ASSUME NEW q, q = Appended(b, t)
        PROVE  q = Written(e, t)
    <3>. DEFINE d == Copied(e.data, e.writeIndex, t)
                w == e.writeIndex + Len(t)
    <3>1. q = [e EXCEPT !.data = d, !.writeIndex = w]
      BY <2>1 DEF Appended
    <3>2. e = [data |-> e.data, readIndex |-> e.readIndex, writeIndex |-> e.writeIndex]
      BY <1>2, Shape
    <3>3. Written(e, t) = [data |-> d, readIndex |-> e.readIndex, writeIndex |-> w]
      BY DEF Written
    <3>4. q = [data |-> d, readIndex |-> e.readIndex, writeIndex |-> w]
      <4>. HIDE DEF d, w, e
      <4> QED BY <3>1, <3>2
    <3> QED BY <3>3, <3>4
  <2> QED BY <2>1
<1>4. Holds(Written(e, t), s \o t)
  BY <1>2, WrittenHolds
<1> QED BY <1>3, <1>4

(* An append to the sender's output: where it fits, what is there already  *)
(* begins where a buffer starts, however often it has grown.               *)
LEMMA OutputAppends ==
  ASSUME NEW b, NEW s, Holds(b, s), Grown(b), NEW t \in Seq(Bytes), Fits(b, Len(t))
  PROVE  Holds(Appended(b, t), s \o t) /\ Grown(Appended(b, t))
<1>. DEFINE n == Len(t)
            w == Writable(b)
            e == EnsureWritable(b, n)
<1>1. /\ w = Len(b.data) - b.writeIndex /\ w \in Nat /\ w < SizeMax
      /\ Len(b.data) \in Nat /\ b.writeIndex \in Nat /\ n \in Nat
      /\ Size <= Len(b.data) /\ b.readIndex = kCheapPrepend
      /\ kCheapPrepend \in Nat /\ Size \in Nat /\ SizeMax \in Nat
  BY FreeIs, Shape, Constants, LenProperties DEF Grown
<1>2. kCheapPrepend <= b.readIndex
  BY <1>1
<1>3. Holds(Appended(b, t), s \o t) /\ Appended(b, t) = Written(e, t)
  BY <1>2, AppendedHolds
<1>4. Holds(e, s) /\ e.writeIndex + n <= Len(e.data)
  BY <1>1, <1>2, EnsureHolds
<1>5. /\ Size <= Len(e.data) /\ e.readIndex = kCheapPrepend
      /\ Len(e.data) - (e.writeIndex + n) < SizeMax
  <2>1. CASE ~(w < n)
    <3>1. e = b
      BY <2>1 DEF EnsureWritable
    <3>. HIDE DEF n, w, e
    <3> QED BY <1>1, <3>1
  <2>2. CASE w < n
    <3>1. MustGrow(b, n)
      <4>. HIDE DEF n
      <4> QED BY <1>1, <2>2 DEF MustGrow
    <3>2. e = [b EXCEPT !.data = Resized(@, w + n)]
      BY <2>2, <3>1 DEF EnsureWritable, MakeSpace
    <3>3. b = [data |-> b.data, readIndex |-> b.readIndex, writeIndex |-> b.writeIndex]
          /\ b.data \in Seq(Nat)
      BY Shape
    <3>. HIDE DEF n, w, e
    <3>4. /\ e.writeIndex = b.writeIndex /\ e.readIndex = b.readIndex
          /\ e.data = Resized(b.data, w + n)
      BY <3>2, <3>3
    <3>5. Len(e.data) = w + n
      <4>1. w + n \in Nat
        BY <1>1
      <4> QED BY ONLY <3>3, <3>4, <4>1, ResizedIs
    <3>6. b.writeIndex <= w
      BY <1>1, <1>4, <3>4, <3>5
    <3>7. Size <= w + n
      BY <1>1, <2>2, <3>6
    <3>8. (w + n) - (b.writeIndex + n) < SizeMax
      BY <1>1
    <3> QED BY <1>1, <3>4, <3>5, <3>7, <3>8
  <2>. HIDE DEF n, w, e
  <2> QED BY <1>1, <2>1, <2>2
<1>6. /\ Len(Written(e, t).data) = Len(e.data)
      /\ Written(e, t).readIndex = e.readIndex
      /\ Written(e, t).writeIndex = e.writeIndex + n
  BY <1>4, WrittenHolds DEF Written
<1>. HIDE DEF n, w, e
<1>7. Grown(Written(e, t))
  BY <1>5, <1>6 DEF Grown
<1> QED BY <1>3, <1>7

(* An append to it that does not fit would exceed the size that a buffer   *)
(* is constructed with.                                                    *)
LEMMA OutputOverfull ==
  ASSUME NEW b, NEW s, Holds(b, s), Grown(b), NEW n \in Nat, ~Fits(b, n)
  PROVE  Readable(b) + n > kInitialSize
<1>. DEFINE w == Writable(b)
<1>1. /\ w = Len(b.data) - b.writeIndex /\ w \in Nat
      /\ Len(b.data) \in Nat /\ b.writeIndex \in Nat
      /\ Size <= Len(b.data) /\ b.readIndex = kCheapPrepend
      /\ kCheapPrepend \in Nat /\ kInitialSize \in Nat
      /\ Size = kCheapPrepend + kInitialSize
      /\ Readable(b) = b.writeIndex - b.readIndex
  BY FreeIs, Shape, Constants DEF Grown, Readable, Size
<1>2. w < n
  <2> SUFFICES ASSUME ~(w < n)
               PROVE  FALSE
    OBVIOUS
  <2>1. EnsureWritable(b, n) = b
    BY DEF EnsureWritable
  <2>2. ~(b.writeIndex + n <= Len(b.data))
    BY <2>1 DEF Fits
  <2>. HIDE DEF w
  <2> QED BY <1>1, <2>2
<1>. HIDE DEF w
<1> QED BY <1>1, <1>2

(* The codec's own buffer: whatever the length, what it is resized to is   *)
(* enough, and there is room for the header in front.                      *)
LEMMA FrameIs ==
  ASSUME NEW m \in Messages
  PROVE  /\ m \in Seq(Bytes) /\ Encode(Len(m)) \in Seq(Bytes)
         /\ Len(Encode(Len(m))) = kHeaderLen
         /\ Frame(m) = Encode(Len(m)) \o m
         /\ Fits(NewBuffer, Len(m))
<1>. DEFINE n == Len(m)
            h == Encode(n)
            e == EnsureWritable(NewBuffer, n)
<1>1. m \in Seq(Bytes) /\ n \in Nat
  BY CodecAssumption, LenProperties DEF Bytes
<1>2. h \in Seq(Bytes) /\ Len(h) = 2
  <2>1. Radix \in Nat \ {0} /\ n \in Nat
    BY <1>1, Constants
  <2>2. n % Radix \in Bytes /\ (n \div Radix) % Radix \in Bytes
    <3>1. n \div Radix \in Nat
      BY <2>1
    <3>2. \A x \in Nat : x % Radix \in 0 .. Radix - 1
      BY <2>1
    <3> QED BY <2>1, <3>1, <3>2 DEF Bytes
  <2>. HIDE DEF n
  <2> QED BY <2>2 DEF Encode
<1>3. /\ Holds(NewBuffer, <<>>) /\ Len(NewBuffer.data) = Size
      /\ NewBuffer.readIndex = kCheapPrepend /\ NewBuffer.writeIndex = kCheapPrepend
  BY NewHolds
<1>4. Writable(NewBuffer) = kInitialSize
  BY <1>3, WritableIs, Constants DEF Size
<1>5. Fits(NewBuffer, n) /\ e.readIndex = kCheapPrepend
  <2>1. CASE n <= kInitialSize
    <3>1. e = NewBuffer
      BY <1>1, <1>4, <2>1, Constants DEF EnsureWritable
    <3> QED BY <1>1, <1>3, <2>1, <3>1, Constants DEF Fits, Size
  <2>2. CASE n > kInitialSize
    <3>. DEFINE len == kInitialSize + n
    <3>1. MustGrow(NewBuffer, n) /\ Writable(NewBuffer) < n
      BY <1>1, <1>3, <1>4, <2>2, Constants DEF MustGrow
    <3>2. e = [NewBuffer EXCEPT !.data = Resized(@, len)]
      BY <1>4, <3>1 DEF EnsureWritable, MakeSpace
    <3>3. NewBuffer.writeIndex <= len /\ len \in Nat
      BY <1>1, <1>3, Constants
    <3>4. Len([NewBuffer EXCEPT !.data = Resized(@, len)].data) = len
      BY <1>3, <3>3, ResizedHolds
    <3>5. e.readIndex = kCheapPrepend /\ e.writeIndex = kCheapPrepend
      <4>1. NewBuffer = [data |-> NewBuffer.data, readIndex |-> NewBuffer.readIndex,
                         writeIndex |-> NewBuffer.writeIndex]
        BY <1>3, Shape
      <4> QED BY <1>3, <3>2, <4>1
    <3>6. e.writeIndex + n <= Len(e.data)
      BY <1>1, <3>2, <3>4, <3>5, Constants
    <3> QED BY <3>5, <3>6 DEF Fits
  <2> QED BY <1>1, <2>1, <2>2, Constants
<1>. HIDE DEF n, h, e
<1>6. Holds(Appended(NewBuffer, m), m) /\ Appended(NewBuffer, m).readIndex = kCheapPrepend
  <2>1. kCheapPrepend <= NewBuffer.readIndex
    BY <1>3, Constants
  <2>2. Holds(Appended(NewBuffer, m), <<>> \o m) /\ Appended(NewBuffer, m) = Written(e, m)
    BY <1>1, <1>3, <1>5, <2>1, AppendedHolds DEF n, e
  <2>3. <<>> \o m = m
    BY <1>1, ConcatEmptySeq
  <2> QED BY <1>5, <2>2, <2>3 DEF Written
<1>7. Frame(m) = h \o m
  <2>1. Len(h) <= Appended(NewBuffer, m).readIndex
    BY <1>2, <1>6, Constants
  <2>2. Holds(Prepended(Appended(NewBuffer, m), h), h \o m)
    BY <1>2, <1>6, <2>1, PrependedHolds
  <2> QED BY <2>2, ContentHeld DEF Frame, h, n
<1> QED BY <1>1, <1>2, <1>5, <1>7 DEF h, n, kHeaderLen

-----------------------------------------------------------------------------
(* readFd().                                                               *)
Taken(s, n) == SubSeq(s, 1, n)

(* Taken, element by element; it complements Dropped.                      *)
LEMMA TakenIs ==
  ASSUME NEW S, NEW s \in Seq(S), NEW n \in 0 .. Len(s)
  PROVE  /\ Taken(s, n) \in Seq(S)
         /\ Len(Taken(s, n)) = n
         /\ \A i \in 1 .. n : Taken(s, n)[i] = s[i]
         /\ Taken(s, n) \o Dropped(s, n) = s
<1>1. Len(s) \in Nat /\ n \in Nat /\ n <= Len(s)
  BY LenProperties
<1>. DEFINE m == 1
<1>2. /\ m \in 1 .. Len(s) + 1 /\ n \in m - 1 .. Len(s) /\ n - m + 1 = n
      /\ \A i \in 1 .. n : m + i - 1 = i
  BY <1>1
<1>3. Taken(s, n) = SubSeq(s, m, n)
  BY DEF Taken
<1>. HIDE DEF m
<1>4. /\ Taken(s, n) \in Seq(S)
      /\ Len(Taken(s, n)) = n
      /\ \A i \in 1 .. n : Taken(s, n)[i] = s[i]
  <2>1. /\ SubSeq(s, m, n) \in Seq(S)
        /\ Len(SubSeq(s, m, n)) = n - m + 1
        /\ \A i \in 1 .. n - m + 1 : SubSeq(s, m, n)[i] = s[m + i - 1]
    BY <1>2, Part
  <2> QED BY <1>2, <1>3, <2>1
<1>5. /\ Dropped(s, n) \in Seq(S)
      /\ Len(Dropped(s, n)) = Len(s) - n
      /\ \A i \in 1 .. Len(s) - n : Dropped(s, n)[i] = s[n + i]
  BY DroppedIs
<1>. DEFINE t == Taken(s, n) \o Dropped(s, n)
<1>6. /\ t \in Seq(S) /\ Len(t) = Len(s)
      /\ \A i \in 1 .. Len(s) :
           t[i] = IF i <= n THEN Taken(s, n)[i] ELSE Dropped(s, n)[i - n]
  <2>1. n + (Len(s) - n) = Len(s)
    BY <1>1
  <2> QED BY <1>4, <1>5, <2>1, ConcatProperties
<1>. HIDE DEF t
<1>7. ASSUME NEW i \in 1 .. Len(s)
      PROVE  s[i] = t[i]
  <2>1. CASE i <= n
    <3>1. i \in 1 .. n
      BY <1>1, <2>1
    <3> QED BY <1>4, <1>6, <2>1, <3>1
  <2>2. CASE i > n
    <3>1. i - n \in 1 .. Len(s) - n /\ n + (i - n) = i /\ ~(i <= n)
      BY <1>1, <2>2
    <3>2. Dropped(s, n)[i - n] = s[i]
      BY <1>5, <3>1
    <3> QED BY <1>6, <3>1, <3>2
  <2> QED BY <1>1, <2>1, <2>2
<1>8. s = t
  BY <1>6, <1>7, SeqEqual
<1> QED BY <1>4, <1>8 DEF t

(* What exceeds the writable space fills it and leaves the rest over.      *)
LEMMA FilledHolds ==
  ASSUME NEW b, NEW s, Holds(b, s), Kept(b), NEW t \in Seq(Bytes),
         Len(t) > Writable(b)
  PROVE  /\ Writable(b) \in 0 .. Len(t)
         /\ Holds(Filled(b, t), s \o Taken(t, Writable(b)))
         /\ Kept(Filled(b, t))
         /\ Filled(b, t).writeIndex = Size
         /\ Filled(b, t).readIndex = b.readIndex
<1>. DEFINE n == Writable(b)
            w == b.writeIndex
            u == Taken(t, n)
            d == Copied(b.data, w, t)
            x == Copied(b.data, w, u)
<1>1. /\ n = Size - w /\ n \in Nat /\ w \in Nat /\ b.data \in Seq(Nat)
      /\ Len(b.data) = Size /\ Size \in Nat
  BY Constants, Shape, WritableIs DEF Kept
<1>2. Len(t) \in Nat /\ n \in 0 .. Len(t) /\ t \in Seq(Nat)
  <2>1. Len(t) \in Nat /\ t \in Seq(Nat)
    BY Constants, LenProperties, SeqMonotonic
  <2>2. Len(t) > n
    OBVIOUS
  <2>. HIDE DEF n
  <2> QED BY <1>1, <2>1, <2>2
<1>3. /\ u \in Seq(Bytes) /\ u \in Seq(Nat) /\ Len(u) = n
      /\ \A i \in 1 .. n : u[i] = t[i]
  BY <1>2, TakenIs, Constants, SeqMonotonic
<1>. HIDE DEF u, n
<1>4. d = x
  <2>. HIDE DEF w
  <2>1. /\ d \in Seq(Nat) /\ Len(d) = Len(b.data)
        /\ \A i \in 1 .. Len(b.data) : d[i] = IF i - w \in 1 .. Len(t) THEN t[i - w] ELSE b.data[i]
    <3>1. b.data \in Seq(Nat) /\ w \in Nat /\ t \in Seq(Nat)
      BY <1>1, <1>2
    <3> QED BY ONLY <3>1, CopiedIs
  <2>2. /\ x \in Seq(Nat) /\ Len(x) = Len(b.data)
        /\ \A i \in 1 .. Len(b.data) :
             x[i] = IF i - w \in 1 .. Len(u) THEN u[i - w] ELSE b.data[i]
    <3>1. b.data \in Seq(Nat) /\ w \in Nat /\ u \in Seq(Nat)
      BY <1>1, <1>3
    <3> QED BY ONLY <3>1, CopiedIs
  <2>3. \A i \in 1 .. Size : (i - w \in 1 .. Len(t)) <=> (i - w \in 1 .. n)
    BY <1>1, <1>2
  <2>. HIDE DEF d, x
  <2>4. \A i \in 1 .. Size : d[i] = x[i]
    BY <1>1, <1>3, <2>1, <2>2, <2>3
  <2>5. Len(d) = Size /\ Len(x) = Size
    BY <1>1, <2>1, <2>2
  <2> QED BY <2>1, <2>2, <2>4, <2>5, SeqEqual
<1>5. Filled(b, t) = Written(b, u)
  <2>1. ASSUME NEW q, q = Filled(b, t)
        PROVE  q = Written(b, u)
    <3>1. q = [b EXCEPT !.data = d, !.writeIndex = Len(b.data)]
      BY <2>1 DEF Filled
    <3>2. b = [data |-> b.data, readIndex |-> b.readIndex, writeIndex |-> b.writeIndex]
      BY Shape
    <3>3. q = [data |-> d, readIndex |-> b.readIndex, writeIndex |-> Len(b.data)]
      <4>. HIDE DEF d
      <4> QED BY <3>1, <3>2
    <3>4. Len(b.data) = w + Len(u)
      BY <1>1, <1>3
    <3> QED BY <1>4, <3>3, <3>4 DEF Written
  <2> QED BY <2>1
<1>6. w + Len(u) <= Len(b.data) /\ w + Len(u) = Size
  BY <1>1, <1>3
<1>7. Holds(Written(b, u), s \o u) /\ Len(Written(b, u).data) = Len(b.data)
  BY <1>3, <1>6, WrittenHolds
<1>8. Written(b, u).writeIndex = Size /\ Written(b, u).readIndex = b.readIndex
  BY <1>6 DEF Written
<1> QED BY <1>1, <1>2, <1>5, <1>7, <1>8 DEF Kept, n, u

(* The content is read as it came, if it fits, ...                         *)
LEMMA ReadFdHolds ==
  ASSUME NEW b, NEW s, Holds(b, s), Kept(b), NEW t \in Seq(Bytes), ReadFits(b, t)
  PROVE  Holds(ReadFd(b, t), s \o t) /\ Kept(ReadFd(b, t))
<1>1. /\ Len(t) \in Nat /\ Writable(b) \in Nat
      /\ Writable(b) = Len(b.data) - b.writeIndex
      /\ Len(b.data) \in Nat /\ b.writeIndex \in Nat
      /\ s \in Seq(Bytes)
  BY Constants, Shape, WritableIs, LenProperties DEF Kept
<1>2. CASE Len(t) <= Writable(b)
  <2>1. ReadFd(b, t) = Written(b, t)
    <3>1. ASSUME NEW q, q = ReadFd(b, t)
          PROVE  q = Written(b, t)
      <4>. DEFINE d == Copied(b.data, b.writeIndex, t)
                  w == b.writeIndex + Len(t)
      <4>1. q = [b EXCEPT !.data = d, !.writeIndex = w]
        BY <1>2, <3>1 DEF ReadFd
      <4>2. b = [data |-> b.data, readIndex |-> b.readIndex, writeIndex |-> b.writeIndex]
        BY Shape
      <4>3. q = [data |-> d, readIndex |-> b.readIndex, writeIndex |-> w]
        <5>. HIDE DEF d, w
        <5> QED BY <4>1, <4>2
      <4> QED BY <4>3 DEF Written
    <3> QED BY <3>1
  <2>2. b.writeIndex + Len(t) <= Len(b.data)
    BY <1>1, <1>2
  <2>3. Holds(Written(b, t), s \o t) /\ Len(Written(b, t).data) = Len(b.data)
    BY <2>2, WrittenHolds
  <2>4. Written(b, t).readIndex = b.readIndex
    BY DEF Written
  <2> QED BY <2>1, <2>3, <2>4 DEF Kept
<1>3. CASE Len(t) > Writable(b)
  <2>. DEFINE n == Writable(b)
              f == Filled(b, t)
              u == Dropped(t, n)
              e == EnsureWritable(f, Len(u))
  <2>1. /\ Writable(b) \in 0 .. Len(t)
        /\ Holds(f, s \o Taken(t, n)) /\ Kept(f) /\ f.writeIndex = Size
    BY <1>3, FilledHolds
  <2>2. /\ Taken(t, n) \in Seq(Bytes) /\ Taken(t, n) \o u = t
        /\ u \in Seq(Bytes) /\ Len(u) = Len(t) - n /\ Len(u) \in Nat \ {0}
    <3>1. n \in 0 .. Len(t)
      BY <2>1
    <3>. HIDE DEF n
    <3>2. /\ Taken(t, n) \in Seq(Bytes) /\ Taken(t, n) \o Dropped(t, n) = t
      BY <3>1, TakenIs
    <3>3. Dropped(t, n) \in Seq(Bytes) /\ Len(Dropped(t, n)) = Len(t) - n
      BY <3>1, DroppedIs
    <3>4. Len(t) > n
      BY <1>3 DEF n
    <3> QED BY <1>1, <3>1, <3>2, <3>3, <3>4
  <2>3. Fits(f, Len(u)) /\ ReadFd(b, t) = Appended(f, u)
    BY <1>1, <1>3 DEF ReadFits, ReadFd, Rest, Dropped
  <2>. HIDE DEF n, f, u
  <2>4. Len(f.data) < SizeMax /\ kCheapPrepend <= f.readIndex /\ Len(f.data) = Size
    BY <2>1, Constants DEF Kept
  <2>5. /\ Holds(Appended(f, u), (s \o Taken(t, n)) \o u)
        /\ Appended(f, u) = Written(e, u)
    BY <2>1, <2>2, <2>3, <2>4, AppendedHolds
  <2>6. (s \o Taken(t, n)) \o u = s \o t
    <3>1. s \in Seq(Bytes) /\ Taken(t, n) \in Seq(Bytes) /\ u \in Seq(Bytes)
      BY <1>1, <2>2
    <3>2. (s \o Taken(t, n)) \o u = s \o (Taken(t, n) \o u)
      BY <3>1, ConcatAssociative
    <3> QED BY <2>2, <3>2
  <2>7. /\ Holds(e, s \o Taken(t, n)) /\ kCheapPrepend <= e.readIndex
        /\ e.writeIndex + Len(u) <= Len(e.data)
    BY <2>1, <2>2, <2>3, <2>4, EnsureHolds
  <2>8. Len(e.data) = Size
    <3>1. Writable(f) = 0 /\ Size \in Nat /\ Size > 0
      BY <2>1, <2>4, WritableIs, Constants
    <3>2. CASE MustGrow(f, Len(u))
      <4>1. e = [f EXCEPT !.data = Resized(@, 0 + Len(u))]
        BY <2>2, <3>1, <3>2 DEF EnsureWritable, MakeSpace
      <4>2. f = [data |-> f.data, readIndex |-> f.readIndex, writeIndex |-> f.writeIndex]
        BY <2>1, Shape
      <4>3. e.writeIndex = Size /\ e.data = Resized(f.data, 0 + Len(u))
        BY <2>1, <4>1, <4>2
      <4>4. Len(e.data) = 0 + Len(u)
        <5>1. f.data \in Seq(Nat) /\ 0 + Len(u) \in Nat
          BY <2>1, <2>2, Shape
        <5> QED BY <4>3, <5>1, ResizedIs
      <4>. HIDE DEF e
      <4> QED BY <2>2, <2>7, <3>1, <4>3, <4>4
    <3>3. CASE ~MustGrow(f, Len(u))
      <4>1. e = Moved(f)
        BY <2>2, <3>1, <3>3 DEF EnsureWritable, MakeSpace
      <4> QED BY <2>1, <2>4, <4>1, MovedHolds
    <3> QED BY <3>2, <3>3
  <2>. HIDE DEF e
  <2>9. Len(Written(e, u).data) = Size /\ Written(e, u).readIndex = e.readIndex
    BY <2>2, <2>7, <2>8, WrittenHolds DEF Written
  <2> QED BY <2>3, <2>5, <2>6, <2>7, <2>9 DEF Kept
<1> QED BY <1>1, <1>2, <1>3

(* ... and if not, it is too much for the buffer.                          *)
LEMMA OnlyIfOverfull ==
  ASSUME NEW b, NEW s, Holds(b, s), Kept(b), NEW t \in Seq(Bytes), ~ReadFits(b, t)
  PROVE  Readable(b) + Len(t) > kInitialSize
<1>. DEFINE n == Writable(b)
            f == Filled(b, t)
            u == Rest(b, t)
<1>1. Len(t) > Writable(b) /\ ~Fits(f, Len(u))
  BY DEF ReadFits
<1>2. /\ Len(t) \in Nat /\ n \in Nat /\ n = Size - b.writeIndex
      /\ b.writeIndex \in Nat /\ b.readIndex \in Nat /\ Readable(b) = b.writeIndex - b.readIndex
  BY Constants, Shape, WritableIs, LenProperties DEF Kept, Readable
<1>3. /\ n \in 0 .. Len(t)
      /\ Holds(f, s \o Taken(t, n)) /\ Kept(f)
      /\ f.writeIndex = Size /\ f.readIndex = b.readIndex
  BY <1>1, FilledHolds
<1>4. Len(u) = Len(t) - n /\ Len(u) \in Nat
  <2>1. u = Dropped(t, n)
    BY DEF Rest, Dropped
  <2>2. Len(Dropped(t, n)) = Len(t) - n
    BY <1>3, DroppedIs
  <2> QED BY <1>2, <1>3, <2>1, <2>2
<1>. DEFINE z == s \o Taken(t, n)
<1>. HIDE DEF n, f, u, z
<1>5. /\ Holds(f, z) /\ Len(f.data) = Size /\ f.writeIndex = Size
      /\ kCheapPrepend <= f.readIndex
  BY <1>3 DEF z, Kept
<1>6. Writable(f) = 0
  BY <1>5, WritableIs, Constants
<1>7. /\ kCheapPrepend \in Nat /\ kInitialSize \in Nat
      /\ Size = kCheapPrepend + kInitialSize
      /\ Len(u) > 0
  <2>1. Len(t) > n
    BY <1>1 DEF n
  <2> QED BY <1>2, <1>4, <2>1, Constants DEF Size
<1>8. Len(u) + kCheapPrepend > b.readIndex
  <2>1. CASE MustGrow(f, Len(u))
    <3>1. Len(u) + kCheapPrepend > 0 + b.readIndex
      BY <1>3, <1>6, <2>1 DEF MustGrow
    <3> QED BY <1>2, <3>1
  <2>2. CASE ~MustGrow(f, Len(u))
    <3>1. EnsureWritable(f, Len(u)) = Moved(f)
      BY <1>6, <1>7, <2>2 DEF EnsureWritable, MakeSpace
    <3>2. Moved(f).writeIndex = kCheapPrepend + Len(z) /\ Len(Moved(f).data) = Size
      BY <1>5, MovedHolds
    <3>3. Size = b.readIndex + Len(z) /\ Len(z) \in Nat
      <4>1. f.writeIndex = f.readIndex + Len(z) /\ Len(z) \in Nat
        BY <1>5, Shape
      <4> QED BY <1>3, <4>1
    <3>4. ~(kCheapPrepend + Len(z) + Len(u) <= Size)
      BY <1>1, <3>1, <3>2 DEF Fits
    <3> QED BY <1>2, <1>4, <1>7, <3>3, <3>4
  <2> QED BY <2>1, <2>2
<1> QED BY <1>2, <1>4, <1>7, <1>8

-----------------------------------------------------------------------------
(* The codec.                                                              *)

(* A message of 4 GiB or more would have the header of a shorter one: the  *)
(* theorems about the stream assume that users send none, because send()   *)
(* refuses no length.                                                      *)
LengthsFit == \A m \in Messages : Len(m) < Radix * Radix

(* A header says how long the message is, or says that it is negative.     *)
LEMMA DecodeEncode ==
  ASSUME NEW n \in Nat, n < Radix * Radix, Decode(Encode(n)) >= 0
  PROVE  Decode(Encode(n)) = n
<1>. DEFINE R == Radix
            q == n \div R
<1>1. R \in Nat \ {0}
  BY Constants
<1>. HIDE DEF R
<1>2. n = R * q + (n % R) /\ n % R \in 0 .. R - 1 /\ q \in Nat
  BY <1>1
<1>3. q < R
  <2>1. ASSUME NEW x \in Nat, x >= R
        PROVE  R * x >= R * R
    BY <1>1, <2>1
  <2>2. n < R * R
    BY DEF R
  <2>. HIDE DEF q
  <2>3. q >= R => R * q >= R * R
    BY <1>2, <2>1
  <2>4. R * q \in Nat /\ R * R \in Nat
    BY <1>1, <1>2
  <2> QED BY <1>1, <1>2, <2>2, <2>3, <2>4
<1>4. q % R = q
  <2>1. ASSUME NEW x \in Nat, NEW y \in Nat, x < y
        PROVE  x % y = x
    BY <2>1
  <2>. HIDE DEF q
  <2> QED BY <1>1, <1>2, <1>3, <2>1
<1>5. Encode(n) = <<q, n % R>>
  BY <1>4 DEF Encode, R
<1>. HIDE DEF q
<1>6. q * R + (n % R) = n
  BY <1>1, <1>2
<1>7. Decode(Encode(n)) = IF 2 * n >= R * R THEN n - R * R ELSE n
  <2>1. Encode(n)[1] = q /\ Encode(n)[2] = n % R
    BY <1>5
  <2> QED BY <1>6, <2>1 DEF Decode, R
<1>8. n < R * R /\ R * R \in Nat
  BY <1>1 DEF R
<1> QED BY <1>7, <1>8

(* A frame is two header bytes, then the message.                          *)
LEMMA FrameType ==
  ASSUME NEW m \in Messages
  PROVE  /\ Frame(m) \in Seq(Bytes)
         /\ Len(m) \in Nat /\ Len(Frame(m)) = 2 + Len(m) /\ Len(Frame(m)) \in Nat
         /\ m \in Seq(Bytes)
         /\ \A i \in 1 .. 2 : Frame(m)[i] = Encode(Len(m))[i]
         /\ \A i \in 1 .. Len(m) : Frame(m)[2 + i] = m[i]
<1>. DEFINE h == Encode(Len(m))
<1>1. /\ m \in Seq(Bytes) /\ h \in Seq(Bytes) /\ Len(h) = 2 /\ Frame(m) = h \o m
      /\ Len(m) \in Nat
  BY FrameIs, Constants, LenProperties
<1>. HIDE DEF h
<1>2. /\ h \o m \in Seq(Bytes) /\ Len(h \o m) = 2 + Len(m)
      /\ \A i \in 1 .. 2 + Len(m) : (h \o m)[i] = IF i <= 2 THEN h[i] ELSE m[i - 2]
  <2>1. /\ h \o m \in Seq(Bytes) /\ Len(h \o m) = Len(h) + Len(m)
        /\ \A i \in 1 .. Len(h) + Len(m) :
             (h \o m)[i] = IF i <= Len(h) THEN h[i] ELSE m[i - Len(h)]
    BY <1>1, ConcatProperties
  <2> QED BY <1>1, <2>1
<1>3. \A i \in 1 .. 2 : i \in 1 .. 2 + Len(m) /\ i <= 2
  BY <1>1
<1>4. \A i \in 1 .. Len(m) : 2 + i \in 1 .. 2 + Len(m) /\ ~(2 + i <= 2) /\ (2 + i) - 2 = i
  BY <1>1
<1> QED BY <1>1, <1>2, <1>3, <1>4 DEF h

(* s is made of the frames of the messages of ms after the first d: at[k]  *)
(* is where message k ends.                                                *)
Cut(at, s, ms, d) ==
  /\ at \in [d .. Len(ms) -> 0 .. Len(s)]
  /\ at[d] = 0 /\ at[Len(ms)] = Len(s)
  /\ \A k \in d + 1 .. Len(ms) :
       /\ at[k] = at[k - 1] + Len(Frame(ms[k]))
       /\ \A i \in 1 .. Len(Frame(ms[k])) : s[at[k - 1] + i] = Frame(ms[k])[i]

Framed(s, ms, d) == \E at : Cut(at, s, ms, d)

(* No bytes, no messages.                                                  *)
LEMMA NothingFramed == Framed(<<>>, <<>>, 0)
<1>1. Cut([k \in 0 .. 0 |-> 0], <<>>, <<>>, 0)
  BY DEF Cut
<1> QED BY <1>1 DEF Framed

(* A frame more at the end.                                                *)
LEMMA FrameAdded ==
  ASSUME NEW s \in Seq(Bytes), NEW ms \in Seq(Messages), NEW d \in 0 .. Len(ms),
         Framed(s, ms, d), NEW m \in Messages
  PROVE  Framed(s \o Frame(m), Append(ms, m), d)
<1>. DEFINE n == Len(ms)
            ms2 == Append(ms, m)
            s2 == s \o Frame(m)
            l == Len(s)
            f == Len(Frame(m))
<1>1. PICK at : Cut(at, s, ms, d)
  BY DEF Framed
<1>. DEFINE at2 == [k \in d .. n + 1 |-> IF k = n + 1 THEN l + f ELSE at[k]]
<1>2. /\ n \in Nat /\ l \in Nat /\ f \in Nat /\ d \in Nat /\ d <= n
      /\ Frame(m) \in Seq(Bytes)
  BY FrameType, LenProperties
<1>3. /\ Len(ms2) = n + 1
      /\ \A k \in 1 .. n : ms2[k] = ms[k]
      /\ ms2[n + 1] = m
  BY AppendProperties
<1>4. /\ s2 \in Seq(Bytes) /\ Len(s2) = l + f
      /\ \A i \in 1 .. l + f : s2[i] = IF i <= l THEN s[i] ELSE Frame(m)[i - l]
  BY <1>2, ConcatProperties
<1>5. \A k \in 1 .. n : Len(Frame(ms[k])) \in Nat
  <2>1. \A k \in 1 .. n : ms[k] \in Messages
    BY ElementOfSeq
  <2> QED BY <2>1, FrameType
<1>6. /\ \A k \in d .. n : at[k] \in 0 .. l
      /\ at[d] = 0 /\ at[n] = l
      /\ \A k \in d + 1 .. n :
           /\ at[k] = at[k - 1] + Len(Frame(ms[k]))
           /\ \A i \in 1 .. Len(Frame(ms[k])) : s[at[k - 1] + i] = Frame(ms[k])[i]
  BY <1>1 DEF Cut
<1>. HIDE DEF n, ms2, s2, l, f
<1>7. /\ DOMAIN at2 = d .. n + 1
      /\ \A k \in d .. n : at2[k] = at[k]
      /\ at2[n + 1] = l + f
  <2>1. \A k \in d .. n : k \in d .. n + 1 /\ k # n + 1
    BY <1>2
  <2>2. n + 1 \in d .. n + 1
    BY <1>2
  <2> QED BY <2>1, <2>2
<1>8. at2 \in [d .. n + 1 -> 0 .. l + f]
  BY <1>2, <1>6
<1>. HIDE DEF at2
<1>9. ASSUME NEW k \in d + 1 .. n + 1
      PROVE  /\ at2[k] = at2[k - 1] + Len(Frame(ms2[k]))
             /\ \A i \in 1 .. Len(Frame(ms2[k])) : s2[at2[k - 1] + i] = Frame(ms2[k])[i]
  <2>1. CASE k = n + 1
    <3>1. k - 1 = n /\ n \in d .. n
      BY <1>2, <2>1
    <3>2. /\ at2[k] = l + f /\ at2[k - 1] = l
          /\ Frame(ms2[k]) = Frame(m) /\ Len(Frame(ms2[k])) = f
      BY <1>3, <1>6, <1>7, <2>1, <3>1 DEF f
    <3>3. ASSUME NEW i \in 1 .. f
          PROVE  s2[l + i] = Frame(m)[i]
      <4>1. l + i \in 1 .. l + f /\ ~(l + i <= l) /\ (l + i) - l = i
        BY <1>2
      <4> QED BY <1>4, <4>1
    <3> QED BY <3>2, <3>3
  <2>2. CASE k # n + 1
    <3>1. k \in d + 1 .. n /\ k \in 1 .. n /\ k \in d .. n /\ k - 1 \in d .. n
      BY <1>2, <2>2
    <3>2. /\ at2[k] = at[k] /\ at2[k - 1] = at[k - 1] /\ ms2[k] = ms[k]
          /\ at[k] = at[k - 1] + Len(Frame(ms[k]))
          /\ at[k] \in 0 .. l /\ at[k - 1] \in 0 .. l
          /\ Len(Frame(ms[k])) \in Nat
      BY <1>3, <1>5, <1>6, <1>7, <3>1
    <3>3. ASSUME NEW i \in 1 .. Len(Frame(ms[k]))
          PROVE  s2[at[k - 1] + i] = Frame(ms[k])[i]
      <4>. DEFINE j == at[k - 1] + i
      <4>1. j \in 1 .. l + f /\ j <= l
        <5>1. at[k - 1] \in Nat /\ at[k] <= l /\ i <= Len(Frame(ms[k])) /\ i \in Nat \ {0}
          BY <1>2, <3>2
        <5>2. j \in Nat \ {0} /\ j <= at[k]
          BY <3>2, <5>1
        <5>3. at[k] \in Nat
          BY <3>2
        <5>. HIDE DEF j
        <5> QED BY <1>2, <5>1, <5>2, <5>3
      <4>2. s[j] = Frame(ms[k])[i]
        BY <1>6, <3>1
      <4>. HIDE DEF j
      <4>3. s2[j] = Frame(ms[k])[i]
        BY <1>4, <4>1, <4>2
      <4> QED BY <4>3 DEF j
    <3> QED BY <3>2, <3>3
  <2> QED BY <2>1, <2>2
<1>10. at2[d] = 0 /\ at2[n + 1] = l + f
  <2>1. d \in d .. n
    BY <1>2
  <2> QED BY <1>6, <1>7, <2>1
<1>11. Cut(at2, s2, ms2, d)
  BY <1>3, <1>4, <1>8, <1>9, <1>10 DEF Cut
<1> QED BY <1>11 DEF Framed, s2, ms2

(* If there are bytes, they begin with a whole frame, ...                  *)
LEMMA FirstFrame ==
  ASSUME NEW s \in Seq(Bytes), NEW ms \in Seq(Messages), NEW d \in 0 .. Len(ms),
         Framed(s, ms, d), Len(s) > 0
  PROVE  /\ d + 1 \in 1 .. Len(ms) /\ ms[d + 1] \in Messages
         /\ Len(Frame(ms[d + 1])) <= Len(s)
         /\ \A i \in 1 .. Len(Frame(ms[d + 1])) : s[i] = Frame(ms[d + 1])[i]
<1>1. PICK at : Cut(at, s, ms, d)
  BY DEF Framed
<1>2. Len(ms) \in Nat /\ Len(s) \in Nat
  BY LenProperties
<1>3. d # Len(ms)
  BY <1>1, <1>2 DEF Cut
<1>4. d + 1 \in 1 .. Len(ms) /\ d + 1 \in d + 1 .. Len(ms) /\ d + 1 \in d .. Len(ms)
      /\ (d + 1) - 1 = d
  BY <1>2, <1>3
<1>5. ms[d + 1] \in Messages
  BY <1>4, ElementOfSeq
<1>6. Len(Frame(ms[d + 1])) \in Nat
  BY <1>5, FrameType
<1>. DEFINE F == Frame(ms[d + 1])
<1>7. at[d] = 0 /\ at[d + 1] = at[d] + Len(F) /\ at[d + 1] \in 0 .. Len(s)
      /\ \A i \in 1 .. Len(F) : s[at[d] + i] = F[i]
  BY <1>1, <1>4 DEF Cut
<1>. HIDE DEF F
<1>8. \A i \in 1 .. Len(F) : 0 + i = i
  OBVIOUS
<1> QED BY <1>2, <1>4, <1>5, <1>6, <1>7, <1>8 DEF F

(* ... after which there are the frames of the messages that follow.       *)
LEMMA FrameTaken ==
  ASSUME NEW s \in Seq(Bytes), NEW ms \in Seq(Messages), NEW d \in 0 .. Len(ms),
         Framed(s, ms, d), Len(s) > 0
  PROVE  Framed(Dropped(s, Len(Frame(ms[d + 1]))), ms, d + 1)
<1>. DEFINE n == Len(ms)
            f == Len(Frame(ms[d + 1]))
            s2 == Dropped(s, f)
            l == Len(s)
<1>1. PICK at : Cut(at, s, ms, d)
  BY DEF Framed
<1>. DEFINE at2 == [k \in d + 1 .. n |-> at[k] - f]
<1>2. /\ d + 1 \in 1 .. n /\ f <= l /\ f \in Nat /\ l \in Nat /\ n \in Nat
  BY FirstFrame, FrameType, LenProperties
<1>3. /\ s2 \in Seq(Bytes) /\ Len(s2) = l - f
      /\ \A i \in 1 .. l - f : s2[i] = s[f + i]
  <2>1. f \in 0 .. Len(s)
    BY <1>2
  <2>. HIDE DEF f
  <2> QED BY <2>1, DroppedIs
<1>4. \A k \in 1 .. n : Len(Frame(ms[k])) \in Nat
  <2>1. \A k \in 1 .. n : ms[k] \in Messages
    BY ElementOfSeq
  <2> QED BY <2>1, FrameType
<1>5. /\ \A k \in d .. n : at[k] \in 0 .. l
      /\ at[d] = 0 /\ at[n] = l
      /\ \A k \in d + 1 .. n :
           /\ at[k] = at[k - 1] + Len(Frame(ms[k]))
           /\ \A i \in 1 .. Len(Frame(ms[k])) : s[at[k - 1] + i] = Frame(ms[k])[i]
  BY <1>1 DEF Cut
<1>6. at[d + 1] = f
  <2>1. d + 1 \in d + 1 .. n /\ (d + 1) - 1 = d
    BY <1>2
  <2>2. at[d + 1] = at[d] + f
    BY <1>5, <2>1
  <2> QED BY <1>2, <1>5, <2>2
<1>. HIDE DEF n, f, s2, l
<1>7. /\ DOMAIN at2 = d + 1 .. n
      /\ \A k \in d + 1 .. n : at2[k] = at[k] - f
  OBVIOUS
<1>. HIDE DEF at2
<1>8. ASSUME NEW k \in d + 1 .. n
      PROVE  f <= at[k]
  <2>. DEFINE below == {j \in Nat : d + 1 + j \in d + 1 .. n => f <= at[d + 1 + j]}
  <2>1. 0 \in below
    <3>1. d + 1 + 0 = d + 1
      OBVIOUS
    <3> QED BY <1>2, <1>6, <3>1
  <2>2. ASSUME NEW j \in Nat, j \in below
        PROVE  j + 1 \in below
    <3> SUFFICES ASSUME d + 1 + (j + 1) \in d + 1 .. n
                 PROVE  f <= at[d + 1 + (j + 1)]
      OBVIOUS
    <3>. DEFINE x == d + 1 + (j + 1)
    <3>1. /\ x \in d + 1 .. n /\ x \in 1 .. n /\ x \in d .. n
          /\ x - 1 = d + 1 + j /\ d + 1 + j \in d + 1 .. n /\ d + 1 + j \in d .. n
      BY <1>2
    <3>2. f <= at[d + 1 + j]
      BY <2>2, <3>1
    <3>. HIDE DEF x
    <3>3. at[x] = at[d + 1 + j] + Len(Frame(ms[x])) /\ Len(Frame(ms[x])) \in Nat
      BY <1>4, <1>5, <3>1
    <3>4. at[x] \in 0 .. l /\ at[d + 1 + j] \in 0 .. l
      BY <1>5, <3>1
    <3>5. f <= at[x]
      BY <1>2, <3>2, <3>3, <3>4
    <3> QED BY <3>5 DEF x
  <2>. HIDE DEF below
  <2>3. Nat \subseteq below
    BY <2>1, <2>2, NatSetInduction
  <2>4. k - (d + 1) \in Nat /\ d + 1 + (k - (d + 1)) = k
    BY <1>2
  <2> QED BY <2>3, <2>4 DEF below
<1>9. at2 \in [d + 1 .. n -> 0 .. l - f]
  <2>1. ASSUME NEW k \in d + 1 .. n
        PROVE  at[k] - f \in 0 .. l - f
    <3>1. k \in d .. n
      BY <1>2
    <3>2. at[k] \in 0 .. l /\ f <= at[k]
      BY <1>5, <1>8, <3>1
    <3> QED BY <1>2, <3>2
  <2> QED BY <2>1 DEF at2
<1>10. ASSUME NEW k \in (d + 1) + 1 .. n
       PROVE  /\ at2[k] = at2[k - 1] + Len(Frame(ms[k]))
              /\ \A i \in 1 .. Len(Frame(ms[k])) : s2[at2[k - 1] + i] = Frame(ms[k])[i]
  <2>1. /\ k \in d + 1 .. n /\ k - 1 \in d + 1 .. n /\ k \in 1 .. n
        /\ k \in d .. n /\ k - 1 \in d .. n
    BY <1>2
  <2>2. /\ at[k] = at[k - 1] + Len(Frame(ms[k]))
        /\ Len(Frame(ms[k])) \in Nat
        /\ at[k] \in 0 .. l /\ at[k - 1] \in 0 .. l /\ f <= at[k - 1]
        /\ at2[k] = at[k] - f /\ at2[k - 1] = at[k - 1] - f
    BY <1>4, <1>5, <1>7, <1>8, <2>1
  <2>3. at2[k] = at2[k - 1] + Len(Frame(ms[k]))
    BY <1>2, <2>2
  <2>4. ASSUME NEW i \in 1 .. Len(Frame(ms[k]))
        PROVE  s2[at2[k - 1] + i] = Frame(ms[k])[i]
    <3>1. at2[k - 1] + i \in 1 .. l - f /\ f + (at2[k - 1] + i) = at[k - 1] + i
      <4>. DEFINE p == at[k - 1]
                  q == at2[k - 1]
                  j == Len(Frame(ms[k]))
      <4>1. /\ i \in 1 .. j /\ j \in Nat /\ p \in 0 .. l /\ f \in Nat /\ l \in Nat
            /\ f <= p /\ q = p - f /\ p + j \in 0 .. l
        BY <1>2, <2>2
      <4>. HIDE DEF p, q, j
      <4>2. q + i \in 1 .. l - f /\ f + (q + i) = p + i
        BY ONLY <4>1
      <4> QED BY ONLY <4>2 DEF p, q
    <3>2. s[at[k - 1] + i] = Frame(ms[k])[i]
      BY <1>5, <2>1
    <3> QED BY <1>3, <3>1, <3>2
  <2> QED BY <2>3, <2>4
<1>11. at2[d + 1] = 0 /\ at2[n] = l - f
  <2>1. d + 1 \in d + 1 .. n /\ n \in d + 1 .. n
    BY <1>2
  <2> QED BY <1>2, <1>5, <1>6, <1>7, <2>1
<1>12. Cut(at2, s2, ms, d + 1)
  BY <1>3, <1>9, <1>10, <1>11 DEF Cut, n
<1> QED BY <1>12 DEF Framed, s2, f

-----------------------------------------------------------------------------
(* Both buffers are sound, the receiver's keeps its size, ...              *)
BufferInv ==
  /\ TypeOK
  /\ Holds(inputBuffer_, Content(inputBuffer_))
  /\ Kept(inputBuffer_)
  /\ Holds(outputBuffer_, Content(outputBuffer_))
  /\ Grown(outputBuffer_)

(* ... and what is in it, in the kernel and in the sender's are the frames *)
(* of the messages that are still to be delivered.                         *)
Coming == Content(inputBuffer_) \o wire \o Content(outputBuffer_)
StreamInv ==
  ~overrun => /\ Len(delivered) <= Len(sent)
              /\ Framed(Coming, sent, Len(delivered))

(* The types that BufferInv gives to what StreamInv is about.              *)
LEMMA BufferSays ==
  ASSUME BufferInv
  PROVE  /\ Content(inputBuffer_) \in Seq(Bytes) /\ Len(Content(inputBuffer_)) \in Nat
         /\ Len(Content(inputBuffer_)) = Readable(inputBuffer_)
         /\ Content(outputBuffer_) \in Seq(Bytes) /\ Len(Content(outputBuffer_)) \in Nat
         /\ Len(Content(outputBuffer_)) = Readable(outputBuffer_)
         /\ wire \in Seq(Bytes) /\ Len(wire) \in Nat
         /\ sent \in Seq(Messages) /\ Len(sent) \in Nat
         /\ delivered \in Seq(Seq(Bytes)) /\ Len(delivered) \in Nat
         /\ Coming \in Seq(Bytes)
<1>1. /\ Content(inputBuffer_) \in Seq(Bytes)
      /\ Len(Content(inputBuffer_)) = Readable(inputBuffer_)
      /\ Content(outputBuffer_) \in Seq(Bytes)
      /\ Len(Content(outputBuffer_)) = Readable(outputBuffer_)
  BY DEF BufferInv, Holds
<1>2. wire \in Seq(Bytes) /\ sent \in Seq(Messages) /\ delivered \in Seq(Seq(Bytes))
  BY DEF BufferInv, TypeOK, Bytes
<1>3. Content(inputBuffer_) \o wire \in Seq(Bytes)
  BY <1>1, <1>2, ConcatProperties
<1>4. Coming \in Seq(Bytes)
  BY <1>1, <1>3, ConcatProperties DEF Coming
<1> QED BY <1>1, <1>2, <1>4, LenProperties

(* It is enough to know, of the buffer after a step, that it holds some    *)
(* bytes.                                                                  *)
LEMMA BufferFollows ==
  ASSUME NEW b, NEW s, Holds(b, s)
  PROVE  /\ Holds(b, Content(b)) /\ Content(b) = s /\ LaidOut(b)
<1>1. Content(b) = s
  BY ContentHeld
<1> QED BY <1>1 DEF Holds

(* Both parts hold initially.                                              *)
LEMMA InitHolds ==
  ASSUME Init
  PROVE  BufferInv /\ StreamInv
<1>1. Holds(NewBuffer, <<>>) /\ Kept(NewBuffer) /\ Grown(NewBuffer)
  BY NewHolds, Constants DEF Kept, Grown
<1>2. /\ Holds(NewBuffer, Content(NewBuffer)) /\ Content(NewBuffer) = <<>>
      /\ LaidOut(NewBuffer)
  BY <1>1, BufferFollows
<1>3. BufferInv
  <2>1. /\ sent = <<>> /\ wire = <<>> /\ inputBuffer_ = NewBuffer /\ decoding = FALSE
        /\ outputBuffer_ = NewBuffer
        /\ delivered = <<>> /\ state_ = "kConnected" /\ overrun = FALSE
    BY DEF Init
  <2>2. /\ sent \in Seq(Messages) /\ wire \in Seq(0 .. Radix - 1)
        /\ delivered \in Seq(Seq(0 .. Radix - 1))
    BY <2>1, EmptySeq
  <2>3. TypeOK
    BY <1>2, <2>1, <2>2 DEF TypeOK
  <2> QED BY <1>1, <1>2, <2>1, <2>3 DEF BufferInv
<1>4. StreamInv
  <2>1. Coming = (<<>> \o <<>>) \o <<>>
    BY <1>2 DEF Init, Coming
  <2>2. <<>> \o <<>> = <<>>
    BY EmptySeq, ConcatEmptySeq
  <2>3. Coming = <<>> /\ sent = <<>> /\ Len(delivered) = 0 /\ Len(sent) = 0
    BY <2>1, <2>2 DEF Init
  <2> QED BY <2>3, NothingFramed DEF StreamInv
<1> QED BY <1>3, <1>4

(* Concatenation of byte sequences is associative.                        *)
LEMMA Joined ==
  \A x, y, z \in Seq(Bytes) : (x \o y) \o z = x \o (y \o z)
BY ConcatAssociative

(* t after the kernel's bytes w and d after those of the sender's buffer o *)
(* are t and d after all of them.                                          *)
JoinsUp(h, w, o, t, d) ==
  (h \o (w \o t)) \o (o \o d) = ((h \o w) \o o) \o (t \o d)

(* A frame split between the kernel and the sender's buffer is at the end  *)
(* of the stream, if nothing waited in the buffer or nothing was written.  *)
LEMMA SplitJoined ==
  ASSUME NEW h \in Seq(Bytes), NEW w \in Seq(Bytes), NEW o \in Seq(Bytes),
         NEW t \in Seq(Bytes), NEW d \in Seq(Bytes), o = <<>> \/ t = <<>>
  PROVE  JoinsUp(h, w, o, t, d)
<1>. USE DEF JoinsUp
<1>1. h \o w \in Seq(Bytes) /\ t \o d \in Seq(Bytes)
  BY ConcatProperties
<1>2. (h \o w) \o t = h \o (w \o t)
  BY Joined, SMTT(60)
<1>3. CASE o = <<>>
  <2>1. o \o d = d /\ (h \o w) \o o = h \o w
    BY <1>1, <1>3, ConcatEmptySeq
  <2>2. ((h \o w) \o t) \o d = (h \o w) \o (t \o d)
    <3>. DEFINE c == h \o w
    <3>1. c \in Seq(Bytes)
      BY <1>1
    <3>. HIDE DEF c
    <3>2. (c \o t) \o d = c \o (t \o d)
      BY <3>1, Joined, SMTT(60)
    <3> QED BY <3>2 DEF c
  <2> QED BY <1>2, <2>1, <2>2
<1>4. CASE t = <<>>
  <2>1. (h \o w) \o t = h \o w /\ t \o d = d
    BY <1>1, <1>4, ConcatEmptySeq
  <2>2. ((h \o w) \o o) \o d = (h \o w) \o (o \o d)
    <3>. DEFINE c == h \o w
    <3>1. c \in Seq(Bytes)
      BY <1>1
    <3>. HIDE DEF c
    <3>2. (c \o o) \o d = c \o (o \o d)
      BY <3>1, Joined, SMTT(60)
    <3> QED BY <3>2 DEF c
  <2> QED BY <1>2, <2>1, <2>2
<1> QED BY <1>3, <1>4

(* sendInLoop(): a part of a frame is written, the rest kept for later.    *)
LEMMA SendKeeps ==
  ASSUME BufferInv, ~overrun, NEW m \in Messages, Send(m)
  PROVE  /\ BufferInv' /\ (StreamInv => StreamInv')
         /\ sent' = Append(sent, m) /\ delivered' = delivered
         /\ overrun' => Readable(outputBuffer_) + Len(Frame(m))
                          + Len(wire) - Len(wire') > kInitialSize
<1>. DEFINE f == Frame(m)
            b == outputBuffer_
            o == Content(outputBuffer_)
            h == Content(inputBuffer_)
<1>1. PICK n \in 0 .. Len(f) :
        /\ Readable(b) > 0 => n = 0
        /\ wire' = wire \o Taken(f, n)
        /\ \/ /\ Fits(b, Len(Dropped(f, n)))
              /\ b' = Appended(b, Dropped(f, n))
              /\ UNCHANGED overrun
           \/ /\ ~Fits(b, Len(Dropped(f, n)))
              /\ overrun' = TRUE
              /\ UNCHANGED b
  BY DEF Send, SendInLoop, Taken, Dropped
<1>2. sent' = Append(sent, m) /\ UNCHANGED <<inputBuffer_, decoding, delivered, state_>>
  BY DEF Send
<1>. DEFINE t == Taken(f, n)
            d == Dropped(f, n)
<1>3. /\ h \in Seq(Bytes) /\ o \in Seq(Bytes) /\ wire \in Seq(Bytes)
      /\ Len(o) = Readable(b) /\ Len(o) \in Nat /\ Len(wire) \in Nat
      /\ Coming \in Seq(Bytes) /\ sent \in Seq(Messages)
      /\ Len(sent) \in Nat /\ Len(delivered) \in Nat
  BY BufferSays
<1>4. f \in Seq(Bytes) /\ Len(f) \in Nat /\ n \in Nat
  BY FrameType
<1>. HIDE DEF f
<1>5. /\ t \in Seq(Bytes) /\ Len(t) = n
      /\ d \in Seq(Bytes) /\ Len(d) = Len(f) - n /\ Len(d) \in Nat
  BY <1>4, TakenIs, DroppedIs, LenProperties
<1>6. Holds(b, o) /\ Grown(b)
  BY DEF BufferInv
<1>7. /\ sent' \in Seq(Messages) /\ Len(sent') = Len(sent) + 1
  BY <1>2, <1>3, AppendProperties
<1>8. wire' \in Seq(Bytes) /\ Len(wire') = Len(wire) + n
  BY <1>1, <1>3, <1>5, ConcatProperties
<1>9. CASE Fits(b, Len(d)) /\ b' = Appended(b, d) /\ UNCHANGED overrun
  <2>1. Holds(Appended(b, d), o \o d) /\ Grown(Appended(b, d))
    <3>. HIDE DEF d, b, o
    <3> QED BY <1>5, <1>6, <1>9, OutputAppends
  <2>2. Holds(b, Content(b))' /\ Content(b)' = o \o d /\ LaidOut(b)' /\ Grown(b)'
    <3>. DEFINE c == Appended(b, d)
    <3>1. Holds(c, Content(c)) /\ Content(c) = o \o d /\ LaidOut(c) /\ Grown(c)
      BY <2>1, BufferFollows
    <3>2. b' = c
      BY <1>9
    <3>. HIDE DEF c
    <3> QED BY <3>1, <3>2
  <2>3. BufferInv'
    BY <1>2, <1>7, <1>8, <1>9, <2>2 DEF BufferInv, TypeOK, Bytes
  <2>4. Coming' = Coming \o f
    <3>1. (h \o (wire \o t)) \o (o \o d) = ((h \o wire) \o o) \o f
      <4>1. o = <<>> \/ t = <<>>
        <5>1. Len(o) = 0 \/ Len(t) = 0
          <6>. HIDE DEF o, b
          <6> QED BY <1>1, <1>3, <1>5
        <5> QED BY <1>3, <1>5, <5>1, EmptySeq
      <4>2. /\ h \in Seq(Bytes) /\ wire \in Seq(Bytes) /\ o \in Seq(Bytes)
            /\ t \in Seq(Bytes) /\ d \in Seq(Bytes)
        BY <1>3, <1>5
      <4>3. t \o d = f
        BY <1>4, TakenIs
      <4>. HIDE DEF h, o, b, t, d
      <4>4. JoinsUp(h, wire, o, t, d)
        BY <4>1, <4>2, SplitJoined
      <4> QED BY <4>3, <4>4, Zenon DEF JoinsUp
    <3>2. Coming' = (h \o wire') \o (o \o d)
      BY <1>2, <2>2 DEF Coming
    <3> QED BY <1>1, <3>1, <3>2 DEF Coming
  <2>5. ASSUME StreamInv
        PROVE  StreamInv'
    <3>1. Len(delivered) \in 0 .. Len(sent) /\ Framed(Coming, sent, Len(delivered))
      BY <1>3, <2>5 DEF StreamInv
    <3>2. Framed(Coming \o f, Append(sent, m), Len(delivered))
      BY <1>3, <3>1, FrameAdded DEF f
    <3>3. Len(delivered') <= Len(sent')
      BY <1>2, <1>3, <1>7, <3>1
    <3>4. Framed(Coming', sent', Len(delivered'))
      BY <1>2, <2>4, <3>2
    <3> QED BY <3>3, <3>4 DEF StreamInv
  <2> QED BY <1>2, <1>9, <2>3, <2>5
<1>10. CASE ~Fits(b, Len(d)) /\ overrun' = TRUE /\ UNCHANGED b
  <2>1. BufferInv'
    BY <1>2, <1>7, <1>8, <1>10 DEF BufferInv, TypeOK, Bytes
  <2>2. Readable(b) + Len(d) > kInitialSize
    <3>. HIDE DEF d, b, o
    <3> QED BY <1>5, <1>6, <1>10, OutputOverfull
  <2>3. Readable(b) + Len(f) + Len(wire) - Len(wire') > kInitialSize
    <3>1. Readable(b) \in Nat /\ kInitialSize \in Nat
      BY <1>3, Constants
    <3>. HIDE DEF b, d
    <3> QED BY <1>3, <1>4, <1>5, <1>8, <2>2, <3>1
  <2>4. StreamInv'
    BY <1>10 DEF StreamInv
  <2> QED BY <1>2, <2>1, <2>3, <2>4 DEF f
<1> QED BY <1>1, <1>9, <1>10

(* handleRead(): what is read moves from the kernel to the buffer.         *)
LEMMA ReadKeeps ==
  ASSUME BufferInv, ~overrun, HandleRead
  PROVE  /\ BufferInv' /\ (StreamInv => StreamInv')
         /\ sent' = sent /\ delivered' = delivered
         /\ overrun' => Readable(inputBuffer_) + Len(wire) - Len(wire') > kInitialSize
<1>. DEFINE b == inputBuffer_
            h == Content(inputBuffer_)
<1>1. PICK n \in 1 .. Len(wire) :
        /\ wire' = Dropped(wire, n)
        /\ \/ /\ ReadFits(b, Taken(wire, n))
              /\ b' = ReadFd(b, Taken(wire, n))
              /\ decoding' = TRUE
              /\ UNCHANGED overrun
           \/ /\ ~ReadFits(b, Taken(wire, n))
              /\ overrun' = TRUE
              /\ UNCHANGED <<b, decoding>>
  BY DEF HandleRead, Taken, Dropped
<1>2. UNCHANGED <<sent, outputBuffer_, delivered, state_>>
  BY DEF HandleRead
<1>. DEFINE t == Taken(wire, n)
<1>3. /\ h \in Seq(Bytes) /\ wire \in Seq(Bytes) /\ n \in 0 .. Len(wire)
      /\ Len(wire) \in Nat /\ n \in Nat
  BY BufferSays
<1>4. /\ t \in Seq(Bytes) /\ Len(t) = n /\ t \o Dropped(wire, n) = wire
      /\ Dropped(wire, n) \in Seq(Bytes) /\ Len(Dropped(wire, n)) = Len(wire) - n
  BY <1>3, TakenIs, DroppedIs
<1>5. Holds(b, h) /\ Kept(b)
  BY DEF BufferInv
<1>6. CASE /\ ReadFits(b, t) /\ b' = ReadFd(b, t)
           /\ decoding' = TRUE /\ UNCHANGED overrun
  <2>1. Holds(ReadFd(b, t), h \o t) /\ Kept(ReadFd(b, t))
    BY <1>4, <1>5, <1>6, ReadFdHolds
  <2>2. /\ Holds(b, Content(b))' /\ Content(b)' = h \o t /\ LaidOut(b)' /\ Kept(b)'
    <3>. DEFINE c == ReadFd(b, t)
    <3>1. Holds(c, Content(c)) /\ Content(c) = h \o t /\ LaidOut(c) /\ Kept(c)
      BY <2>1, BufferFollows
    <3>2. b' = c
      BY <1>6
    <3>. HIDE DEF c
    <3> QED BY <3>1, <3>2
  <2>3. BufferInv'
    BY <1>1, <1>2, <1>4, <1>6, <2>2 DEF BufferInv, TypeOK, Bytes
  <2>4. Coming' = Coming
    <3>. DEFINE u == Dropped(wire, n)
    <3>1. h \in Seq(Bytes) /\ t \in Seq(Bytes) /\ u \in Seq(Bytes)
      BY <1>3, <1>4
    <3>2. (h \o t) \o u = h \o (t \o u)
      <4>. HIDE DEF h, t, u
      <4> QED BY ONLY <3>1, ConcatAssociative
    <3>3. Coming' = ((h \o t) \o u) \o Content(outputBuffer_)
      BY <1>1, <1>2, <2>2 DEF Coming
    <3> QED BY <1>4, <3>2, <3>3 DEF Coming
  <2> QED BY <1>2, <1>6, <2>3, <2>4 DEF StreamInv
<1>7. CASE ~ReadFits(b, t) /\ overrun' = TRUE /\ UNCHANGED <<b, decoding>>
  <2>1. BufferInv'
    BY <1>1, <1>2, <1>4, <1>7 DEF BufferInv, TypeOK, Bytes
  <2>2. Readable(b) + Len(t) > kInitialSize
    BY <1>4, <1>5, <1>7, OnlyIfOverfull
  <2>3. Readable(b) \in Nat
    BY BufferSays
  <2>4. Readable(b) + Len(wire) - Len(wire') > kInitialSize
    <3>1. Len(wire') = Len(wire) - n /\ Len(t) = n
      BY <1>1, <1>4
    <3>. HIDE DEF b, t
    <3> QED BY <1>3, <2>2, <2>3, <3>1
  <2> QED BY <1>2, <1>7, <2>1, <2>4 DEF StreamInv
<1> QED BY <1>1, <1>6, <1>7

(* onMessage() takes a header and as many bytes as it says.                *)
LEMMA DeliverTakes ==
  ASSUME BufferInv, Deliver
  PROVE  LET h == Content(inputBuffer_)
             n == Decode(Taken(h, 2))
         IN  /\ n \in 0 .. MaxLen /\ 2 + n <= Len(h) /\ Len(h) >= 2
             /\ delivered' = Append(delivered, Taken(Dropped(h, 2), n))
             /\ Holds(inputBuffer_', Dropped(Dropped(h, 2), n)) /\ Kept(inputBuffer_')
             /\ UNCHANGED <<sent, outputBuffer_, wire, decoding, state_, overrun>>
<1>. DEFINE b == inputBuffer_
            h == Content(inputBuffer_)
            n == Decode(Taken(h, 2))
            body == Retrieved(b, 2)
            after == Retrieved(body, n)
<1>1. Holds(b, h) /\ Kept(b) /\ Readable(b) = Len(h) /\ h \in Seq(Bytes) /\ Len(h) \in Nat
  BY BufferSays DEF BufferInv
<1>2. Length = n /\ kHeaderLen = 2
  BY Constants DEF Length, Taken
<1>3. /\ Len(h) >= 2 /\ n \in 0 .. MaxLen /\ Len(h) >= n + 2
      /\ delivered' = Append(delivered, SubSeq(Content(body), 1, n))
      /\ b' = after
      /\ UNCHANGED <<sent, outputBuffer_, wire, decoding, state_, overrun>>
  BY <1>1, <1>2 DEF Deliver, HasHeader, Valid, Complete
<1>. HIDE DEF h, n
<1>4. 2 \in 0 .. Len(h) /\ n \in Nat
  BY <1>1, <1>3, Constants
<1>5. /\ Holds(body, Dropped(h, 2)) /\ Len(body.data) = Len(b.data)
      /\ body.readIndex = b.readIndex + 2
  BY <1>1, <1>4, RetrievedHolds
<1>6. Content(body) = Dropped(h, 2) /\ Len(Dropped(h, 2)) = Len(h) - 2
  BY <1>1, <1>4, <1>5, ContentHeld, DroppedIs
<1>. HIDE DEF body
<1>7. n \in 0 .. Len(Dropped(h, 2))
  BY <1>1, <1>3, <1>4, <1>6
<1>8. /\ Holds(after, Dropped(Dropped(h, 2), n))
      /\ Len(after.data) = Len(body.data)
      /\ after.readIndex = body.readIndex + n
  BY <1>5, <1>7, RetrievedHolds
<1>9. Kept(after)
  <2>1. b.readIndex \in Nat
    BY <1>1, Shape
  <2>. HIDE DEF after, b
  <2> QED BY <1>1, <1>4, <1>5, <1>8, <2>1, Constants DEF Kept
<1>10. /\ delivered' = Append(delivered, Taken(Dropped(h, 2), n))
       /\ Holds(inputBuffer_', Dropped(Dropped(h, 2), n)) /\ Kept(inputBuffer_')
  <2>1. inputBuffer_' = after
    BY <1>3
  <2>. HIDE DEF after
  <2> QED BY <1>3, <1>6, <1>8, <1>9, <2>1 DEF Taken
<1>11. 2 + n <= Len(h)
  BY <1>1, <1>3, <1>4
<1> QED BY <1>3, <1>10, <1>11 DEF h, n

(* These are a whole message, the next one.                                *)
LEMMA MessageOut ==
  ASSUME LengthsFit,
         NEW h \in Seq(Bytes), NEW w \in Seq(Bytes), NEW ms \in Seq(Messages),
         NEW d \in 0 .. Len(ms), Framed(h \o w, ms, d),
         NEW n \in Nat, n = Decode(Taken(h, 2)), 2 + n <= Len(h)
  PROVE  /\ d + 1 \in 1 .. Len(ms) /\ ms[d + 1] \in Messages
         /\ Taken(Dropped(h, 2), n) = ms[d + 1]
         /\ Framed(Dropped(Dropped(h, 2), n) \o w, ms, d + 1)
<1>. DEFINE s == h \o w
            m == ms[d + 1]
            F == Frame(m)
<1>1. Len(h) \in Nat /\ Len(w) \in Nat /\ 2 <= Len(h) /\ 2 \in 0 .. Len(h)
  BY LenProperties
<1>2. /\ s \in Seq(Bytes) /\ Len(s) = Len(h) + Len(w)
      /\ \A i \in 1 .. Len(h) + Len(w) : s[i] = IF i <= Len(h) THEN h[i] ELSE w[i - Len(h)]
  BY ConcatProperties
<1>3. \A i \in 1 .. Len(h) : s[i] = h[i]
  <2>1. \A i \in 1 .. Len(h) : i \in 1 .. Len(h) + Len(w) /\ i <= Len(h)
    BY <1>1
  <2> QED BY <1>2, <2>1
<1>4. Len(s) > 0
  BY <1>1, <1>2
<1>5. Framed(s, ms, d)
  OBVIOUS
<1>. HIDE DEF s
<1>6. /\ d + 1 \in 1 .. Len(ms) /\ m \in Messages
      /\ Len(F) <= Len(s) /\ \A i \in 1 .. Len(F) : s[i] = F[i]
  BY <1>2, <1>4, <1>5, FirstFrame
<1>7. Framed(Dropped(s, Len(F)), ms, d + 1)
  BY <1>2, <1>4, <1>5, FrameTaken
<1>. HIDE DEF m
<1>8. /\ Len(m) \in Nat /\ Len(F) = 2 + Len(m) /\ m \in Seq(Bytes)
      /\ \A i \in 1 .. 2 : F[i] = Encode(Len(m))[i]
      /\ \A i \in 1 .. Len(m) : F[2 + i] = m[i]
      /\ Encode(Len(m)) \in Seq(Bytes) /\ Len(Encode(Len(m))) = 2
  BY <1>6, FrameType, FrameIs, Constants
<1>. HIDE DEF F
<1>9. n = Len(m)
  <2>1. /\ Taken(h, 2) \in Seq(Bytes) /\ Len(Taken(h, 2)) = 2
        /\ \A i \in 1 .. 2 : Taken(h, 2)[i] = h[i]
    BY <1>1, TakenIs
  <2>2. \A i \in 1 .. 2 : i \in 1 .. Len(h) /\ i \in 1 .. Len(F)
    BY <1>1, <1>8
  <2>3. \A i \in 1 .. 2 : Taken(h, 2)[i] = Encode(Len(m))[i]
    BY <1>3, <1>6, <1>8, <2>1, <2>2
  <2>4. Taken(h, 2) = Encode(Len(m))
    <3>. DEFINE t == Taken(h, 2)
                e == Encode(Len(m))
    <3>1. /\ t \in Seq(Bytes) /\ e \in Seq(Bytes) /\ Len(t) = Len(e) /\ Len(t) = 2
          /\ \A i \in 1 .. 2 : t[i] = e[i]
      BY <1>8, <2>1, <2>3
    <3>. HIDE DEF t, e
    <3>2. \A i \in 1 .. Len(t) : t[i] = e[i]
      BY ONLY <3>1
    <3>3. t = e
      BY ONLY <3>1, <3>2, SeqEqual
    <3> QED BY <3>3 DEF t, e
  <2>5. Len(m) < Radix * Radix
    BY <1>6 DEF LengthsFit
  <2> QED BY <1>8, <2>4, <2>5, DecodeEncode
<1>10. /\ Dropped(h, 2) \in Seq(Bytes) /\ Len(Dropped(h, 2)) = Len(h) - 2
       /\ \A i \in 1 .. Len(h) - 2 : Dropped(h, 2)[i] = h[2 + i]
       /\ n \in 0 .. Len(h) - 2
  <2>1. /\ Dropped(h, 2) \in Seq(Bytes) /\ Len(Dropped(h, 2)) = Len(h) - 2
        /\ \A i \in 1 .. Len(h) - 2 : Dropped(h, 2)[i] = h[2 + i]
    BY <1>1, DroppedIs
  <2>2. n \in 0 .. Len(h) - 2
    BY <1>1
  <2> QED BY <2>1, <2>2
<1>. DEFINE g == Dropped(h, 2)
<1>11. /\ Taken(g, n) \in Seq(Bytes) /\ Len(Taken(g, n)) = n
       /\ \A i \in 1 .. n : Taken(g, n)[i] = g[i]
       /\ Dropped(g, n) \in Seq(Bytes) /\ Len(Dropped(g, n)) = Len(g) - n
       /\ \A i \in 1 .. Len(g) - n : Dropped(g, n)[i] = g[n + i]
  <2>1. g \in Seq(Bytes) /\ n \in 0 .. Len(g)
    BY <1>10
  <2>. HIDE DEF g
  <2>2. /\ Taken(g, n) \in Seq(Bytes) /\ Len(Taken(g, n)) = n
        /\ \A i \in 1 .. n : Taken(g, n)[i] = g[i]
    BY <2>1, TakenIs
  <2>3. /\ Dropped(g, n) \in Seq(Bytes) /\ Len(Dropped(g, n)) = Len(g) - n
        /\ \A i \in 1 .. Len(g) - n : Dropped(g, n)[i] = g[n + i]
    BY <2>1, DroppedIs
  <2> QED BY <2>2, <2>3
<1>12. Taken(g, n) = m
  <2>1. ASSUME NEW i \in 1 .. n
        PROVE  g[i] = m[i]
    <3>1. /\ i \in 1 .. Len(h) - 2 /\ 2 + i \in 1 .. Len(h) /\ 2 + i \in 1 .. Len(F)
          /\ i \in 1 .. Len(m)
      BY <1>1, <1>8, <1>9
    <3> QED BY <1>3, <1>6, <1>8, <1>10, <3>1
  <2>2. \A i \in 1 .. n : Taken(g, n)[i] = m[i]
    BY <1>11, <2>1
  <2>. HIDE DEF g
  <2>. DEFINE t == Taken(g, n)
  <2>3. t \in Seq(Bytes) /\ m \in Seq(Bytes) /\ Len(t) = n /\ Len(m) = n
    BY <1>8, <1>9, <1>11
  <2>4. \A i \in 1 .. n : t[i] = m[i]
    BY <2>2
  <2>. HIDE DEF t
  <2>5. t = m
    BY ONLY <2>3, <2>4, SeqEqual
  <2> QED BY <2>5 DEF t
<1>13. Dropped(g, n) \o w = Dropped(s, Len(F))
  <2>. DEFINE x == Dropped(g, n)
              y == x \o w
              z == Dropped(s, Len(F))
              l == Len(h) - 2 - n
  <2>1. /\ x \in Seq(Bytes) /\ Len(x) = l /\ l \in Nat
        /\ \A i \in 1 .. l : x[i] = h[2 + (n + i)]
    <3>1. Len(g) - n = l /\ l \in Nat
      BY <1>1, <1>10
    <3>2. \A i \in 1 .. l : n + i \in 1 .. Len(h) - 2
      BY <1>1, <3>1
    <3>3. \A i \in 1 .. l : x[i] = g[n + i] /\ g[n + i] = h[2 + (n + i)]
      BY <1>10, <1>11, <3>1, <3>2
    <3> QED BY <1>11, <3>1, <3>3
  <2>. HIDE DEF x, l, g
  <2>2. /\ y \in Seq(Bytes) /\ Len(y) = l + Len(w)
        /\ \A i \in 1 .. l + Len(w) : y[i] = IF i <= l THEN x[i] ELSE w[i - l]
    BY <2>1, ConcatProperties
  <2>3. Len(F) = 2 + n /\ Len(F) \in 0 .. Len(s)
    BY <1>1, <1>2, <1>8, <1>9
  <2>4. /\ z \in Seq(Bytes) /\ Len(z) = Len(s) - Len(F)
        /\ \A i \in 1 .. Len(s) - Len(F) : z[i] = s[Len(F) + i]
    <3>1. s \in Seq(Bytes) /\ Len(F) \in 0 .. Len(s)
      BY <1>2, <2>3
    <3> QED BY ONLY <3>1, DroppedIs
  <2>5. Len(s) - Len(F) = l + Len(w) /\ l = Len(h) - 2 - n
    BY <1>1, <1>2, <2>3 DEF l
  <2>. HIDE DEF y, z
  <2>6. ASSUME NEW i \in 1 .. l + Len(w)
        PROVE  y[i] = z[i]
    <3>1. z[i] = s[2 + (n + i)]
      <4>1. z[i] = s[Len(F) + i]
        BY <2>4, <2>5
      <4>2. Len(F) + i = 2 + (n + i)
        BY <2>3
      <4> QED BY <4>1, <4>2
    <3>2. CASE i <= l
      <4>1. i \in 1 .. l /\ 2 + (n + i) \in 1 .. Len(h)
        <5>1. i \in Nat \ {0} /\ i <= l /\ l = Len(h) - 2 - n /\ n \in Nat /\ Len(h) \in Nat
          BY <1>1, <2>1, <2>5, <3>2
        <5>2. i \in 1 .. l /\ 2 + (n + i) \in 1 .. Len(h)
          BY ONLY <5>1
        <5> QED BY ONLY <5>2
      <4> QED BY <1>3, <2>1, <2>2, <3>1, <3>2, <4>1
    <3>3. CASE i > l
      <4>1. /\ 2 + (n + i) \in 1 .. Len(h) + Len(w) /\ ~(2 + (n + i) <= Len(h))
            /\ (2 + (n + i)) - Len(h) = i - l /\ ~(i <= l)
        <5>1. /\ i \in Nat \ {0} /\ i > l /\ i <= l + Len(w)
              /\ l = Len(h) - 2 - n /\ n \in Nat /\ Len(h) \in Nat /\ Len(w) \in Nat
          BY <1>1, <2>1, <2>5, <3>3
        <5>. DEFINE j == 2 + (n + i)
                    k == Len(h)
        <5>2. k \in Nat /\ j \in Nat \ {0} /\ j > k /\ j - k = i - l
          BY ONLY <5>1
        <5>3. j <= k + Len(w) /\ Len(w) \in Nat
          BY ONLY <5>1
        <5>. HIDE DEF j, k
        <5>4. j \in 1 .. k + Len(w) /\ ~(j <= k)
          BY ONLY <5>2, <5>3
        <5> QED BY <5>1, <5>2, <5>4 DEF j, k
      <4>2. s[2 + (n + i)] = w[i - l]
        BY <1>2, <4>1
      <4> QED BY <2>2, <3>1, <4>1, <4>2
    <3> QED BY <2>1, <3>2, <3>3
  <2>7. Len(y) = Len(z)
    BY <2>2, <2>4, <2>5
  <2>8. y = z
    BY <2>2, <2>4, <2>6, <2>7, SeqEqual
  <2> QED BY <2>8 DEF y, z, x
<1> QED BY <1>6, <1>7, <1>12, <1>13 DEF m, F

(* onMessage() keeps the buffer sound, whatever the header says.           *)
LEMMA DeliverKeepsBuffer ==
  ASSUME BufferInv, Deliver
  PROVE  BufferInv'
<1>. DEFINE h == Content(inputBuffer_)
            n == Decode(Taken(h, 2))
            g == Dropped(h, 2)
            t == Taken(g, n)
<1>1. /\ n \in 0 .. MaxLen /\ 2 + n <= Len(h) /\ Len(h) >= 2
      /\ delivered' = Append(delivered, t)
      /\ Holds(inputBuffer_', Dropped(g, n)) /\ Kept(inputBuffer_')
      /\ UNCHANGED <<sent, outputBuffer_, wire, decoding, state_, overrun>>
  BY DeliverTakes
<1>2. /\ h \in Seq(Bytes) /\ Len(h) \in Nat /\ delivered \in Seq(Seq(Bytes))
      /\ n \in Nat
  BY <1>1, BufferSays, Constants
<1>. HIDE DEF h, n
<1>3. g \in Seq(Bytes) /\ Len(g) = Len(h) - 2
  <2>1. 2 \in 0 .. Len(h)
    BY <1>1, <1>2
  <2> QED BY <1>2, <2>1, DroppedIs
<1>4. n \in 0 .. Len(g)
  BY <1>1, <1>2, <1>3
<1>. HIDE DEF g
<1>5. t \in Seq(Bytes)
  BY <1>3, <1>4, TakenIs
<1>. HIDE DEF t
<1>6. delivered' \in Seq(Seq(Bytes))
  BY <1>1, <1>2, <1>5, AppendProperties
<1>7. /\ Holds(inputBuffer_, Content(inputBuffer_))' /\ LaidOut(inputBuffer_)'
      /\ Kept(inputBuffer_)'
  BY <1>1, BufferFollows
<1> QED BY <1>1, <1>6, <1>7 DEF BufferInv, TypeOK, Bytes

(* onMessage() delivers the oldest message not yet delivered, and leaves   *)
(* the rest framed.                                                        *)
LEMMA DeliverKeepsStream ==
  ASSUME LengthsFit, BufferInv, StreamInv, ~overrun, Deliver
  PROVE  /\ StreamInv'
         /\ Len(delivered) < Len(sent)
         /\ delivered' = Append(delivered, sent[Len(delivered) + 1])
         /\ sent' = sent
<1>. DEFINE h == Content(inputBuffer_)
            n == Decode(Taken(h, 2))
            g == Dropped(h, 2)
            d == Len(delivered)
<1>1. /\ n \in 0 .. MaxLen /\ 2 + n <= Len(h) /\ Len(h) >= 2
      /\ delivered' = Append(delivered, Taken(g, n))
      /\ Holds(inputBuffer_', Dropped(g, n)) /\ Kept(inputBuffer_')
      /\ UNCHANGED <<sent, outputBuffer_, wire, decoding, state_, overrun>>
  BY DeliverTakes
<1>2. /\ h \in Seq(Bytes) /\ wire \in Seq(Bytes) /\ sent \in Seq(Messages)
      /\ delivered \in Seq(Seq(Bytes)) /\ d \in Nat /\ Len(sent) \in Nat /\ n \in Nat
  BY <1>1, BufferSays, Constants
<1>. DEFINE o == Content(outputBuffer_)
            w == wire \o o
<1>3. /\ d \in 0 .. Len(sent) /\ Framed(h \o w, sent, d)
      /\ o \in Seq(Bytes) /\ w \in Seq(Bytes)
  <2>1. o \in Seq(Bytes)
    BY BufferSays
  <2>2. Coming = h \o w
    <3>. HIDE DEF h, o
    <3>1. (h \o wire) \o o = h \o (wire \o o)
      BY ONLY <1>2, <2>1, Joined, SMTT(60)
    <3> QED BY <3>1 DEF Coming, h, o
  <2>3. w \in Seq(Bytes)
    BY <1>2, <2>1, ConcatProperties
  <2>4. d \in 0 .. Len(sent) /\ Framed(Coming, sent, d)
    BY <1>2 DEF StreamInv
  <2> QED BY <2>1, <2>2, <2>3, <2>4
<1>. HIDE DEF w
<1>4. /\ d + 1 \in 1 .. Len(sent) /\ sent[d + 1] \in Messages
      /\ Taken(g, n) = sent[d + 1]
      /\ Framed(Dropped(g, n) \o w, sent, d + 1)
      /\ Dropped(g, n) \in Seq(Bytes)
  <2>1. n = Decode(Taken(h, 2))
    OBVIOUS
  <2>2. Dropped(g, n) \in Seq(Bytes)
    BY <1>1 DEF Holds
  <2>. HIDE DEF h, n, d, o
  <2> QED BY <1>1, <1>2, <1>3, <2>1, <2>2, MessageOut
<1>5. Coming' = Dropped(g, n) \o w
  <2>1. Content(inputBuffer_') = Dropped(g, n)
    BY <1>1, BufferFollows
  <2>. DEFINE r == Dropped(g, n)
  <2>2. Coming' = (r \o wire) \o o
    <3>. HIDE DEF r
    <3> QED BY <1>1, <2>1 DEF Coming, r
  <2>. HIDE DEF r, o
  <2>3. (r \o wire) \o o = r \o (wire \o o)
    <3>1. r \in Seq(Bytes) /\ wire \in Seq(Bytes) /\ o \in Seq(Bytes)
      BY <1>2, <1>3, <1>4 DEF r
    <3> QED BY ONLY <3>1, Joined, SMTT(60)
  <2> QED BY <2>2, <2>3 DEF w, r
<1>6. Len(delivered') = d + 1
  <2>1. sent[d + 1] \in Seq(Bytes)
    BY <1>4, FrameType
  <2> QED BY <1>1, <1>2, <1>4, <2>1, AppendProperties
<1>7. StreamInv'
  <2>. HIDE DEF g, n, d
  <2> QED BY <1>1, <1>2, <1>4, <1>5, <1>6 DEF StreamInv
<1>8. d < Len(sent)
  BY <1>2, <1>4
<1> QED BY <1>1, <1>4, <1>7, <1>8

(* What is not taken out of the buffer stays there.                        *)
LEMMA RestKeeps ==
  ASSUME BufferInv, ~overrun,
         Refuse \/ AwaitMore \/ UNCHANGED vars
  PROVE  /\ BufferInv' /\ (StreamInv => StreamInv')
         /\ UNCHANGED <<sent, outputBuffer_, delivered, overrun, wire, inputBuffer_>>
<1>1. UNCHANGED <<sent, outputBuffer_, wire, inputBuffer_, delivered, overrun>>
  BY DEF Refuse, AwaitMore, vars
<1>2. decoding' \in BOOLEAN /\ state_' \in {"kConnected", "kDisconnecting"}
  BY DEF BufferInv, TypeOK, Refuse, AwaitMore, vars
<1>3. BufferInv'
  BY <1>1, <1>2 DEF BufferInv, TypeOK
<1>4. StreamInv => StreamInv'
  BY <1>1 DEF StreamInv, Coming
<1> QED BY <1>1, <1>3, <1>4

-----------------------------------------------------------------------------
(* The buffer's part is inductive by itself.                               *)
LEMMA StepKeepsBuffer ==
  ASSUME BufferInv, [Next]_vars
  PROVE  BufferInv'
<1>1. ASSUME ~overrun, NEW m \in Messages, Send(m)
      PROVE  BufferInv'
  BY <1>1, SendKeeps
<1>2. CASE ~overrun /\ HandleRead
  BY <1>2, ReadKeeps
<1>3. CASE Deliver
  BY <1>3, DeliverKeepsBuffer
<1>4. CASE ~overrun /\ (Refuse \/ AwaitMore)
  BY <1>4, RestKeeps
<1>5. CASE UNCHANGED vars
  BY <1>5 DEF BufferInv, TypeOK, vars
<1> QED BY <1>1, <1>2, <1>3, <1>4, <1>5 DEF Next, OnMessage

(* The indices of either end's buffer stay in order and within its vector, *)
(* whatever write(2) takes, whatever sizes bytes come in and whatever the  *)
(* headers say: no handler of the code leaves the type invariant.          *)
THEOREM TypeCorrect == Spec => []TypeOK
<1>1. Init => BufferInv
  BY InitHolds
<1>2. BufferInv /\ [Next]_vars => BufferInv'
  BY StepKeepsBuffer
<1>3. BufferInv => TypeOK
  BY DEF BufferInv
<1> QED BY <1>1, <1>2, <1>3, PTL DEF Spec

(* makeSpace (Buffer.cpp:31) never fails to find free space: an append     *)
(* that does not fit means that what the buffer holds and what is added,   *)
(* the bytes of a read or what write(2) left of a frame, together exceed   *)
(* the size the buffer was constructed with.                               *)
THEOREM OverrunExplained == Spec => OverrunOnlyIfOverfull
<1>. DEFINE A ==
       ~overrun /\ overrun' =>
         IF sent' = sent
           THEN Readable(inputBuffer_) + Len(wire) - Len(wire') > kInitialSize
           ELSE Readable(outputBuffer_) + Len(Frame(Last(sent')))
                  + Len(wire) - Len(wire') > kInitialSize
<1>1. Init => BufferInv
  BY InitHolds
<1>2. BufferInv /\ [Next]_vars => BufferInv'
  BY StepKeepsBuffer
<1>3. BufferInv /\ [Next]_vars => [A]_vars
  <2> SUFFICES ASSUME BufferInv, Next
               PROVE  A
    BY DEF BufferInv
  <2>1. ~overrun
    BY DEF Next
  <2>2. ASSUME NEW m \in Messages, Send(m)
        PROVE  A
    <3>1. sent' = Append(sent, m) /\ sent \in Seq(Messages) /\ Len(sent) \in Nat
      BY <2>1, <2>2, SendKeeps, BufferSays
    <3>2. Len(sent') = Len(sent) + 1 /\ sent'[Len(sent) + 1] = m
      BY <3>1, AppendProperties
    <3>3. sent' # sent /\ Last(sent') = m
      BY <3>1, <3>2 DEF Last
    <3> QED BY <2>1, <2>2, <3>3, SendKeeps
  <2>3. CASE HandleRead
    BY <2>1, <2>3, ReadKeeps
  <2>4. CASE OnMessage
    BY <2>1, <2>4 DEF OnMessage, Deliver, Refuse, AwaitMore
  <2>. HIDE DEF A
  <2> QED BY <2>2, <2>3, <2>4 DEF Next
<1> QED BY <1>1, <1>2, <1>3, PTL DEF Spec, OverrunOnlyIfOverfull, A

-----------------------------------------------------------------------------
(* The two parts together are inductive.                                   *)
LEMMA StepKeeps ==
  ASSUME LengthsFit, BufferInv, StreamInv, [Next]_vars
  PROVE  BufferInv' /\ StreamInv'
<1>1. BufferInv'
  BY StepKeepsBuffer
<1>2. ASSUME ~overrun, NEW m \in Messages, Send(m)
      PROVE  StreamInv'
  BY <1>2, SendKeeps
<1>3. CASE ~overrun /\ HandleRead
  BY <1>1, <1>3, ReadKeeps
<1>4. CASE ~overrun /\ Deliver
  BY <1>1, <1>4, DeliverKeepsStream
<1>5. CASE ~overrun /\ (Refuse \/ AwaitMore)
  BY <1>1, <1>5, RestKeeps
<1>6. CASE UNCHANGED vars
  BY <1>1, <1>6 DEF StreamInv, Coming, vars
<1> QED BY <1>1, <1>2, <1>3, <1>4, <1>5, <1>6 DEF Next, OnMessage

(* What the other theorems of the stream follow from: the receiver's       *)
(* buffer, the kernel and the sender's buffer hold the frames of exactly   *)
(* the messages sent and not yet delivered, if no message is so long that  *)
(* its length does not fit in a header (Codec.h:55 casts it to int32_t     *)
(* without a check).                                                       *)
THEOREM InductiveInvariant ==
  ASSUME LengthsFit
  PROVE  Spec => [](BufferInv /\ StreamInv)
<1>1. Init => BufferInv /\ StreamInv
  BY InitHolds
<1>2. (BufferInv /\ StreamInv) /\ [Next]_vars => (BufferInv /\ StreamInv)'
  BY StepKeeps
<1> QED BY <1>1, <1>2, PTL DEF Spec

(* The codec implements the stream of messages it promises: every step is  *)
(* a send, the delivery of the next message whole, or invisible.           *)
THEOREM StreamImplemented ==
  ASSUME LengthsFit
  PROVE  Spec => ImplementsMessageStream
<1>1. Init => Stream!Init
  BY DEF Init, Stream!Init
<1>2. (BufferInv /\ StreamInv) /\ [Next]_vars => [Stream!Next]_<<sent, delivered>>
  <2> SUFFICES ASSUME BufferInv, StreamInv, [Next]_vars
               PROVE  [Stream!Next]_<<sent, delivered>>
    OBVIOUS
  <2>1. ASSUME NEW m \in Messages, Send(m)
        PROVE  Stream!Next
    BY <2>1 DEF Send, Stream!Next, Stream!Send
  <2>2. CASE ~overrun /\ HandleRead
    BY <2>2, ReadKeeps
  <2>3. CASE ~overrun /\ Deliver
    BY <2>3, DeliverKeepsStream DEF Stream!Next, Stream!Deliver
  <2>4. CASE ~overrun /\ (Refuse \/ AwaitMore)
    BY <2>4, RestKeeps
  <2>5. CASE UNCHANGED vars
    BY <2>5 DEF vars
  <2> QED BY <2>1, <2>2, <2>3, <2>4, <2>5 DEF Next, OnMessage
<1> QED BY <1>1, <1>2, InductiveInvariant, PTL DEF Spec, ImplementsMessageStream, Stream!Spec

-----------------------------------------------------------------------------
(* What FlattenSeq returns: the library defines it by recursion, and the   *)
(* prefixes of the flat sequence are the only function that satisfies the  *)
(* recursive equation.                                                     *)
IsFlat(ss, g) ==
  g = [i \in 1 .. Len(ss) |-> IF i = 1 THEN ss[i] ELSE g[i - 1] \o ss[i]]

(* FlattenSeq as a choice among the functions that satisfy its equation.   *)
LEMMA FlattenChooses ==
  ASSUME NEW ss, Len(ss) # 0
  PROVE  FlattenSeq(ss) = (CHOOSE g : IsFlat(ss, g))[Len(ss)]
BY Zenon DEF FlattenSeq, IsFlat

(* A longer prefix is a shorter one and what follows it.                   *)
LEMMA TakenMore ==
  ASSUME NEW S, NEW s \in Seq(S), NEW t \in Seq(S), NEW k \in Nat,
         k + Len(t) <= Len(s), \A j \in 1 .. Len(t) : s[k + j] = t[j]
  PROVE  Taken(s, k + Len(t)) = Taken(s, k) \o t
<1>. DEFINE n == k + Len(t)
            p == Taken(s, k)
            x == Taken(s, n)
            y == p \o t
<1>1. Len(t) \in Nat /\ Len(s) \in Nat /\ n \in 0 .. Len(s) /\ k \in 0 .. Len(s)
  BY LenProperties
<1>2. n = k + Len(t)
  OBVIOUS
<1>. HIDE DEF n
<1>3. x \in Seq(S) /\ Len(x) = n /\ \A i \in 1 .. n : x[i] = s[i]
  BY <1>1, TakenIs
<1>4. p \in Seq(S) /\ Len(p) = k /\ \A i \in 1 .. k : p[i] = s[i]
  BY <1>1, TakenIs
<1>. HIDE DEF p, x
<1>5. /\ y \in Seq(S) /\ Len(y) = Len(p) + Len(t)
      /\ \A i \in 1 .. Len(p) + Len(t) : y[i] = IF i <= Len(p) THEN p[i] ELSE t[i - Len(p)]
  BY <1>4, ConcatProperties
<1>. HIDE DEF y
<1>6. ASSUME NEW i \in 1 .. n
      PROVE  x[i] = y[i]
  <2>1. y[i] = IF i <= k THEN p[i] ELSE t[i - k]
    BY <1>2, <1>4, <1>5
  <2>2. CASE i <= k
    <3>1. i \in 1 .. k
      BY <1>1, <2>2
    <3> QED BY <1>3, <1>4, <2>1, <2>2, <3>1
  <2>3. CASE i > k
    <3>1. i - k \in 1 .. Len(t) /\ k + (i - k) = i /\ ~(i <= k)
      BY <1>1, <1>2, <2>3
    <3>2. s[k + (i - k)] = t[i - k]
      BY <3>1
    <3> QED BY <1>3, <2>1, <3>1, <3>2
  <2> QED BY <1>1, <2>2, <2>3
<1>7. x = y
  <2>1. Len(x) = Len(y) /\ \A i \in 1 .. Len(x) : x[i] = y[i]
    BY <1>2, <1>3, <1>4, <1>5, <1>6
  <2> QED BY <1>3, <1>5, <2>1, SeqEqual
<1> QED BY <1>7 DEF n, p, x, y

Parted(s, n, ss, a) ==
  /\ a \in [0 .. n -> 0 .. Len(s)] /\ a[0] = 0 /\ a[n] = Len(s)
  /\ \A i \in 1 .. n :
       /\ a[i] = a[i - 1] + Len(ss[i])
       /\ \A j \in 1 .. Len(ss[i]) : s[a[i - 1] + j] = ss[i][j]

(* If s is cut into the parts ss at the places a, then the parts laid end  *)
(* to end are s.                                                           *)
LEMMA PartsFlatten ==
  ASSUME NEW S, NEW s \in Seq(S), NEW n \in Nat \ {0}, NEW ss \in [1 .. n -> Seq(S)],
         NEW a, Parted(s, n, ss, a)
  PROVE  FlattenSeq(ss) = s
<1>. USE DEF Parted
<1>. DEFINE prefixes == [i \in 1 .. n |-> Taken(s, a[i])]
<1>1. Len(ss) = n /\ Len(s) \in Nat
  BY LenProperties
<1>2. ASSUME NEW i \in 1 .. n
      PROVE  /\ a[i] \in Nat /\ a[i] <= Len(s) /\ a[i - 1] \in Nat
             /\ ss[i] \in Seq(S) /\ Len(ss[i]) \in Nat
             /\ a[i] = a[i - 1] + Len(ss[i])
             /\ \A j \in 1 .. Len(ss[i]) : s[a[i - 1] + j] = ss[i][j]
  <2>1. i \in 0 .. n /\ i - 1 \in 0 .. n
    OBVIOUS
  <2>2. ss[i] \in Seq(S)
    OBVIOUS
  <2> QED BY <1>1, <2>1, <2>2, LenProperties
<1>3. ASSUME NEW i \in 1 .. n
      PROVE  Taken(s, a[i]) = Taken(s, a[i - 1]) \o ss[i]
  <2>. DEFINE t == ss[i]
              k == a[i - 1]
  <2>1. /\ k \in Nat /\ t \in Seq(S) /\ k + Len(t) <= Len(s) /\ a[i] = k + Len(t)
        /\ \A j \in 1 .. Len(t) : s[k + j] = t[j]
    BY <1>2
  <2>. HIDE DEF t, k
  <2>2. Taken(s, k + Len(t)) = Taken(s, k) \o t
    BY <2>1, TakenMore
  <2> QED BY <2>1, <2>2 DEF t, k
<1>4. Taken(s, a[1]) = ss[1]
  <2>1. 1 \in 1 .. n /\ 1 - 1 = 0
    OBVIOUS
  <2>2. Taken(s, a[1]) = Taken(s, 0) \o ss[1] /\ ss[1] \in Seq(S)
    BY <1>3, <2>1
  <2>3. Taken(s, 0) \in Seq(S) /\ Len(Taken(s, 0)) = 0
    <3>1. 0 \in 0 .. Len(s)
      BY <1>1
    <3> QED BY <3>1, TakenIs
  <2>4. Taken(s, 0) = <<>>
    BY <2>3, EmptySeq
  <2> QED BY <2>2, <2>4, ConcatEmptySeq
<1>5. IsFlat(ss, prefixes)
  <2>1. ASSUME NEW i \in 1 .. n
        PROVE  Taken(s, a[i]) = IF i = 1 THEN ss[i] ELSE prefixes[i - 1] \o ss[i]
    <3>1. CASE i = 1
      BY <1>4, <3>1
    <3>2. CASE i # 1
      <4>1. i - 1 \in 1 .. n
        BY <3>2
      <4>2. prefixes[i - 1] = Taken(s, a[i - 1])
        BY <4>1
      <4>. HIDE DEF prefixes
      <4> QED BY <1>3, <3>2, <4>2
    <3> QED BY <3>1, <3>2
  <2> QED BY <1>1, <2>1 DEF IsFlat
<1>. DEFINE f == CHOOSE g : IsFlat(ss, g)
<1>6. IsFlat(ss, f)
  BY <1>5
<1>. HIDE DEF f, prefixes
<1>7. \A i \in 1 .. n : f[i] = IF i = 1 THEN ss[i] ELSE f[i - 1] \o ss[i]
  BY <1>1, <1>6 DEF IsFlat
<1>8. f[n] = Taken(s, a[n])
  <2>. DEFINE below == {j \in Nat : j + 1 \in 1 .. n => f[j + 1] = Taken(s, a[j + 1])}
  <2>1. 0 \in below
    <3>1. 0 + 1 = 1 /\ 1 \in 1 .. n
      OBVIOUS
    <3>2. f[1] = ss[1]
      BY <1>7, <3>1
    <3> QED BY <1>4, <3>1, <3>2
  <2>2. ASSUME NEW j \in Nat, j \in below
        PROVE  j + 1 \in below
    <3> SUFFICES ASSUME (j + 1) + 1 \in 1 .. n
                 PROVE  f[(j + 1) + 1] = Taken(s, a[(j + 1) + 1])
      OBVIOUS
    <3>. DEFINE i == (j + 1) + 1
    <3>1. i \in 1 .. n /\ i # 1 /\ i - 1 = j + 1 /\ j + 1 \in 1 .. n
      OBVIOUS
    <3>2. f[j + 1] = Taken(s, a[j + 1])
      BY <2>2, <3>1
    <3>. HIDE DEF i, below
    <3>3. f[i] = f[i - 1] \o ss[i]
      BY <1>7, <3>1
    <3>4. f[i] = Taken(s, a[i])
      BY <1>3, <3>1, <3>2, <3>3
    <3> QED BY <3>4 DEF i
  <2>. HIDE DEF below
  <2>3. Nat \subseteq below
    BY <2>1, <2>2, NatSetInduction
  <2>4. n - 1 \in Nat /\ (n - 1) + 1 = n /\ n \in 1 .. n
    OBVIOUS
  <2>5. n - 1 \in below
    BY <2>3, <2>4
  <2> QED BY <2>4, <2>5 DEF below
<1>9. Taken(s, Len(s)) = s
  <2>. DEFINE x == Taken(s, Len(s))
  <2>1. x \in Seq(S) /\ Len(x) = Len(s) /\ \A i \in 1 .. Len(s) : x[i] = s[i]
    <3>1. Len(s) \in 0 .. Len(s) /\ s \in Seq(S)
      BY <1>1
    <3> QED BY ONLY <3>1, TakenIs
  <2>. HIDE DEF x
  <2>2. x = s
    <3>1. Len(x) = Len(s) /\ \A i \in 1 .. Len(x) : x[i] = s[i]
      BY <2>1
    <3> QED BY <2>1, <3>1, SeqEqual
  <2> QED BY <2>2 DEF x
<1>10. FlattenSeq(ss) = f[Len(ss)]
  <2>1. Len(ss) # 0
    BY <1>1
  <2> QED BY <2>1, FlattenChooses DEF f
<1> QED BY <1>1, <1>8, <1>9, <1>10

(* Being cut into frames and being the concatenation of the frames are the *)
(* same.                                                                   *)
LEMMA FramedIs ==
  ASSUME NEW s \in Seq(Bytes), NEW ms \in Seq(Messages), NEW d \in 0 .. Len(ms),
         Framed(s, ms, d)
  PROVE  s = Frames(SubSeq(ms, d + 1, Len(ms)))
<1>. DEFINE n == Len(ms) - d
            q == Dropped(ms, d)
            ss == [i \in DOMAIN q |-> Frame(q[i])]
<1>1. PICK at : Cut(at, s, ms, d)
  BY DEF Framed
<1>2. Len(ms) \in Nat /\ n \in Nat /\ d + n = Len(ms) /\ Len(s) \in Nat
  BY LenProperties
<1>3. /\ q \in Seq(Messages) /\ Len(q) = n
      /\ \A i \in 1 .. n : q[i] = ms[d + i]
  BY DroppedIs
<1>4. Frames(SubSeq(ms, d + 1, Len(ms))) = FlattenSeq(ss)
  BY DEF Frames, Dropped
<1>. HIDE DEF q
<1>5. /\ DOMAIN q = 1 .. n
      /\ \A i \in 1 .. n : /\ q[i] = ms[d + i] /\ q[i] \in Messages
                           /\ Frame(q[i]) \in Seq(Bytes) /\ Len(Frame(q[i])) \in Nat
  <2>1. DOMAIN q = 1 .. n
    BY <1>3, LenProperties
  <2>2. ASSUME NEW i \in 1 .. n
        PROVE  q[i] = ms[d + i] /\ q[i] \in Messages
    BY <1>3, ElementOfSeq
  <2> QED BY <2>1, <2>2, FrameType
<1>6. ss \in [1 .. n -> Seq(Bytes)] /\ \A i \in 1 .. n : ss[i] = Frame(q[i])
  BY <1>5
<1>7. Len(ss) = n /\ ss \in Seq(Seq(Bytes))
  <2>. HIDE DEF ss, n
  <2> QED BY <1>2, <1>6, Function
<1>8. CASE n = 0
  <2>1. s = <<>>
    <3>1. d = Len(ms)
      <4>1. d \in Nat /\ d + n = d
        <5>1. d \in Nat
          BY <1>2
        <5>. HIDE DEF n
        <5> QED BY <1>8, <5>1
      <4>. HIDE DEF n
      <4> QED BY <1>2, <4>1
    <3>2. Len(s) = 0
      BY <1>1, <3>1 DEF Cut
    <3> QED BY <3>2, EmptySeq
  <2>2. ss = <<>>
    <3>. HIDE DEF ss
    <3> QED BY <1>7, <1>8, EmptySeq
  <2>3. FlattenSeq(ss) = ss
    <3>. HIDE DEF ss
    <3> QED BY <1>7, <1>8 DEF FlattenSeq
  <2> QED BY <1>4, <2>1, <2>2, <2>3
<1>9. CASE n # 0
  <2>. DEFINE a == [i \in 0 .. n |-> at[d + i]]
  <2>1. /\ \A k \in d .. Len(ms) : at[k] \in 0 .. Len(s)
        /\ at[d] = 0 /\ at[Len(ms)] = Len(s)
        /\ \A k \in d + 1 .. Len(ms) :
             /\ at[k] = at[k - 1] + Len(Frame(ms[k]))
             /\ \A i \in 1 .. Len(Frame(ms[k])) : s[at[k - 1] + i] = Frame(ms[k])[i]
    BY <1>1 DEF Cut
  <2>2. \A i \in 0 .. n : d + i \in d .. Len(ms) /\ a[i] = at[d + i]
    BY <1>2
  <2>3. a \in [0 .. n -> 0 .. Len(s)]
    BY <2>1, <2>2
  <2>4. a[0] = 0 /\ a[n] = Len(s)
    <3>1. 0 \in 0 .. n /\ n \in 0 .. n /\ d + 0 = d
      BY <1>2
    <3>. HIDE DEF a, n
    <3> QED BY <1>2, <2>1, <2>2, <3>1
  <2>. HIDE DEF a
  <2>5. ASSUME NEW i \in 1 .. n
        PROVE  /\ a[i] = a[i - 1] + Len(ss[i])
               /\ \A j \in 1 .. Len(ss[i]) : s[a[i - 1] + j] = ss[i][j]
    <3>. DEFINE k == d + i
    <3>1. /\ k \in d + 1 .. Len(ms) /\ k - 1 = d + (i - 1)
          /\ i \in 0 .. n /\ i - 1 \in 0 .. n
      BY <1>2
    <3>2. ss[i] = Frame(ms[k])
      <4>. HIDE DEF ss
      <4> QED BY <1>5, <1>6
    <3>3. a[i] = at[k] /\ a[i - 1] = at[k - 1]
      <4>1. a[i - 1] = at[d + (i - 1)]
        BY <2>2, <3>1
      <4> QED BY <2>2, <3>1, <4>1
    <3>. HIDE DEF k, ss
    <3>4. /\ at[k] = at[k - 1] + Len(Frame(ms[k]))
          /\ \A j \in 1 .. Len(Frame(ms[k])) : s[at[k - 1] + j] = Frame(ms[k])[j]
      BY <2>1, <3>1
    <3> QED BY ONLY <3>2, <3>3, <3>4
  <2>6. FlattenSeq(ss) = s
    <3>1. n \in Nat \ {0}
      BY <1>2, <1>9
    <3>2. \A i \in 1 .. n :
            /\ a[i] = a[i - 1] + Len(ss[i])
            /\ \A j \in 1 .. Len(ss[i]) : s[a[i - 1] + j] = ss[i][j]
      BY <2>5
    <3>. HIDE DEF ss, n
    <3>3. ss \in [1 .. n -> Seq(Bytes)]
      BY <1>6
    <3>4. s \in Seq(Bytes)
      OBVIOUS
    <3>5. Parted(s, n, ss, a)
      BY ONLY <2>3, <2>4, <3>2 DEF Parted
    <3> QED BY <3>1, <3>3, <3>4, <3>5, PartsFlatten
  <2> QED BY <1>4, <2>6
<1> QED BY <1>8, <1>9

(* The bytes in the receiver's buffer, in the kernel and in the sender's   *)
(* buffer are the frames of the messages not yet delivered, laid end to    *)
(* end: compacting, growing, partial writes (TcpConnection.cpp:239) and    *)
(* spilling through extrabuf (Buffer.cpp:26) lose, double and move none.   *)
THEOREM BytesAreKept ==
  ASSUME LengthsFit
  PROVE  Spec => []BufferHoldsStream
<1>1. BufferInv /\ StreamInv => BufferHoldsStream
  <2> SUFFICES ASSUME BufferInv, StreamInv, ~overrun
               PROVE  Content(inputBuffer_) \o wire \o Content(outputBuffer_) =
                        Frames(SubSeq(sent, Len(delivered) + 1, Len(sent)))
    BY DEF BufferHoldsStream
  <2>1. /\ Coming \in Seq(Bytes) /\ sent \in Seq(Messages)
        /\ Len(delivered) \in Nat /\ Len(sent) \in Nat
    BY BufferSays
  <2>2. Len(delivered) \in 0 .. Len(sent) /\ Framed(Coming, sent, Len(delivered))
    BY <2>1 DEF StreamInv
  <2>3. Coming = Frames(SubSeq(sent, Len(delivered) + 1, Len(sent)))
    BY <2>1, <2>2, FramedIs
  <2> QED BY <2>3 DEF Coming
<1> QED BY <1>1, InductiveInvariant, PTL
==============================================================================
