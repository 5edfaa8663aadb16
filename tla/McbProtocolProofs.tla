-------------------------- MODULE McbProtocolProofs --------------------------
(***************************************************************************)
(* What is known of the operators of McbProtocol, for every payload and    *)
(* every stream of bytes: the sum behind the checksum, where buildFrame()  *)
(* puts what, what receive() cuts off and what parseFrame() accepts.       *)
(***************************************************************************)
EXTENDS McbProtocol, SequenceTheorems, WellFoundedInduction, TLAPS

(***************************************************************************)
(* A set of naturals that is not empty has a least element.  Everything    *)
(* below that goes over a sequence from its front is by this: the least    *)
(* place where it fails would have one before it.                          *)
(***************************************************************************)
LEMMA LeastNatural ==
  ASSUME NEW T, T \subseteq Nat, T # {}
  PROVE  \E x \in T : \A y \in T : x <= y
<1> DEFINE R == OpToRel(<, Nat)
<1>1. IsWellFoundedOn(R, Nat)
  BY NatLessThanWellFounded
<1>2. \A x, y \in Nat : y < x => <<y, x>> \in R
  BY DEF OpToRel
<1> HIDE DEF R
<1>3. PICK x \in T : \A y \in T : <<y, x>> \notin R
  BY <1>1, WFMin
<1>4. \A y \in T : ~ (y < x)
  BY <1>2, <1>3
<1>5. \A y \in T : x <= y
  BY <1>4
<1> QED
  BY <1>5

(***************************************************************************)
(* The partial sums of a payload.  A recursive function is whatever        *)
(* satisfies its equation, if anything does; that something does is shown  *)
(* for longer and longer fronts of the payload.                            *)
(***************************************************************************)
IsSum(sum, p, m) ==
  sum = [n \in 0 .. m |-> IF n = 0 THEN 0 ELSE sum[n - 1] + p[n]]

LEMMA SumExists ==
  ASSUME NEW p, NEW size \in Nat
  PROVE  \E sum : IsSum(sum, p, size)
<1> DEFINE T == {m \in Nat : ~ \E sum : IsSum(sum, p, m)}
<1> SUFFICES ASSUME T # {}  PROVE FALSE
  OBVIOUS
<1>1. PICK m \in T : \A k \in T : m <= k
  BY LeastNatural
<1>2. m # 0
  <2> DEFINE zero == [n \in 0 .. 0 |-> 0]
  <2>1. zero = [n \in 0 .. 0 |-> IF n = 0 THEN 0 ELSE zero[n - 1] + p[n]]
    OBVIOUS
  <2> QED
    BY <2>1 DEF IsSum
<1>3. m \in Nat \ {0} /\ m - 1 \in Nat /\ m - 1 \notin T
  BY <1>1, <1>2
<1>4. PICK sum : IsSum(sum, p, m - 1)
  BY <1>3
<1> DEFINE longer == [n \in 0 .. m |-> IF n = m THEN sum[m - 1] + p[m] ELSE sum[n]]
<1>5. \A n \in 0 .. m - 1 : sum[n] = IF n = 0 THEN 0 ELSE sum[n - 1] + p[n]
  BY <1>3, <1>4 DEF IsSum
<1>6. ASSUME NEW n \in 0 .. m
      PROVE  longer[n] = IF n = 0 THEN 0 ELSE longer[n - 1] + p[n]
  <2>1. CASE n = m
    <3>1. longer[m] = sum[m - 1] + p[m] /\ longer[m - 1] = sum[m - 1]
      BY <1>3
    <3> QED
      BY <1>3, <2>1, <3>1
  <2>2. CASE n # m
    <3>1. n \in 0 .. m - 1 /\ longer[n] = sum[n]
      BY <1>3, <2>2
    <3>2. n # 0 => longer[n - 1] = sum[n - 1]
      BY <1>3, <3>1
    <3> QED
      BY <1>5, <3>1, <3>2
  <2> QED
    BY <2>1, <2>2
<1>7. IsSum(longer, p, m)
  <2>1. longer = [n \in 0 .. m |-> longer[n]]
    OBVIOUS
  <2> HIDE DEF longer
  <2>2. longer = [n \in 0 .. m |-> IF n = 0 THEN 0 ELSE longer[n - 1] + p[n]]
    BY <1>6, <2>1
  <2> QED
    BY <2>2 DEF IsSum
<1> QED
  BY <1>1, <1>7

(* What the sum of a payload is computed from.                             *)
LEMMA SumEquation ==
  ASSUME NEW p, Len(p) \in Nat
  PROVE  \E sum : /\ SumOf(p) = sum[Len(p)] /\ sum[0] = 0
                  /\ \A n \in 1 .. Len(p) : sum[n] = sum[n - 1] + p[n]
<1> DEFINE sum == CHOOSE s : IsSum(s, p, Len(p))
<1>1. IsSum(sum, p, Len(p))
  BY SumExists
<1>2. SumOf(p) = sum[Len(p)]
  BY Zenon DEF SumOf, IsSum
<1> HIDE DEF sum
<1>3. \A n \in 0 .. Len(p) : sum[n] = IF n = 0 THEN 0 ELSE sum[n - 1] + p[n]
  BY <1>1 DEF IsSum
<1>4. sum[0] = 0
  BY <1>3
<1>5. \A n \in 1 .. Len(p) : sum[n] = sum[n - 1] + p[n]
  BY <1>3
<1> QED
  BY <1>2, <1>4, <1>5

(***************************************************************************)
(* Something that holds at 0 and is carried from each place to the next    *)
(* holds at all of them.                                                   *)
(***************************************************************************)
LEMMA Carried ==
  ASSUME NEW size \in Nat, NEW H, 0 \in H,
         \A n \in 1 .. size : n - 1 \in H => n \in H
  PROVE  \A n \in 0 .. size : n \in H
<1> DEFINE T == {n \in 0 .. size : n \notin H}
<1> SUFFICES ASSUME T # {}  PROVE FALSE
  OBVIOUS
<1>1. PICK n \in T : \A k \in T : n <= k
  <2>1. T \subseteq Nat
    OBVIOUS
  <2> QED
    BY <2>1, LeastNatural
<1>2. n # 0 /\ n \in 1 .. size
  BY <1>1
<1>3. n - 1 \in 0 .. size /\ n - 1 \notin T
  BY <1>1, <1>2
<1> QED
  BY <1>1, <1>2, <1>3

(* The sum of bytes is a natural.                                          *)
LEMMA SumIsNatural ==
  ASSUME NEW p \in Seq(Nat)
  PROVE  SumOf(p) \in Nat
<1>1. PICK size \in Nat : size = Len(p)
  OBVIOUS
<1>2. \A n \in 1 .. size : p[n] \in Nat
  BY <1>1
<1>3. PICK sum : /\ SumOf(p) = sum[size] /\ sum[0] = 0
                 /\ \A n \in 1 .. size : sum[n] = sum[n - 1] + p[n]
  BY <1>1, SumEquation
<1> DEFINE H == {n \in 0 .. size : sum[n] \in Nat}
<1>4. 0 \in H
  BY <1>3
<1>5. ASSUME NEW n \in 1 .. size, n - 1 \in H  PROVE n \in H
  <2>1. sum[n - 1] \in Nat /\ p[n] \in Nat /\ sum[n] = sum[n - 1] + p[n]
    BY <1>2, <1>3, <1>5
  <2> QED
    BY <2>1
<1> HIDE DEF H
<1>6. \A n \in 0 .. size : n \in H
  BY <1>4, <1>5, Carried
<1> QED
  BY <1>3, <1>6 DEF H

(* Where one byte is replaced, the sum changes by the difference.          *)
LEMMA SumOfChanged ==
  ASSUME NEW p \in Seq(Nat), NEW q \in Seq(Nat), Len(p) = Len(q),
         NEW i \in 1 .. Len(p), \A n \in 1 .. Len(p) : n # i => p[n] = q[n]
  PROVE  SumOf(q) = SumOf(p) + q[i] - p[i]
<1>1. PICK size \in Nat : size = Len(p)
  OBVIOUS
<1>2. /\ Len(q) = size /\ i \in 1 .. size
      /\ \A n \in 1 .. size : p[n] \in Nat /\ q[n] \in Nat /\ (n # i => p[n] = q[n])
  BY <1>1
<1>3. PICK sp : /\ SumOf(p) = sp[size] /\ sp[0] = 0
                /\ \A n \in 1 .. size : sp[n] = sp[n - 1] + p[n]
  BY <1>1, SumEquation
<1>4. PICK sq : /\ SumOf(q) = sq[size] /\ sq[0] = 0
                /\ \A n \in 1 .. size : sq[n] = sq[n - 1] + q[n]
  <2>1. Len(q) \in Nat
    BY <1>2
  <2> QED
    BY <1>2, <2>1, SumEquation
<1>5. PICK d \in Int : d = q[i] - p[i]
  BY <1>2
<1> DEFINE H == {n \in 0 .. size : /\ sp[n] \in Nat /\ sq[n] \in Nat
                                   /\ n < i => sq[n] = sp[n]
                                   /\ n >= i => sq[n] = sp[n] + d}
<1>6. 0 \in H
  BY <1>2, <1>3, <1>4
<1>7. ASSUME NEW n \in 1 .. size, n - 1 \in H  PROVE n \in H
  <2>1. PICK a \in Nat, b \in Nat :
          /\ a = sp[n - 1] /\ b = sq[n - 1]
          /\ n - 1 < i => b = a
          /\ n - 1 >= i => b = a + d
    BY <1>7
  <2>2. PICK x \in Nat, y \in Nat :
          /\ x = p[n] /\ y = q[n] /\ (n # i => x = y) /\ (n = i => d = y - x)
    BY <1>2, <1>5
  <2>3. sp[n] = a + x /\ sq[n] = b + y
    BY <1>3, <1>4, <2>1, <2>2
  <2>4. n < i => sq[n] = sp[n]
    BY <1>2, <2>1, <2>2, <2>3
  <2>5. n >= i => sq[n] = sp[n] + d
    <3>1. CASE n = i
      <4>1. n - 1 < i
        BY <1>2, <3>1
      <4>2. b = a /\ d = y - x
        BY <2>1, <2>2, <3>1, <4>1
      <4> QED
        BY <2>3, <4>2
    <3>2. CASE n > i
      <4>1. n - 1 >= i /\ n # i
        BY <1>2, <3>2
      <4>2. b = a + d /\ x = y
        BY <2>1, <2>2, <4>1
      <4> QED
        BY <2>3, <4>2, <1>5
    <3> QED
      BY <3>1, <3>2, <1>2
  <2>6. sp[n] \in Nat /\ sq[n] \in Nat
    BY <2>3
  <2> QED
    BY <2>4, <2>5, <2>6
<1> HIDE DEF H
<1>8. \A n \in 0 .. size : n \in H
  BY <1>6, <1>7, Carried
<1>9. PICK a \in Nat : a = sp[size] /\ sq[size] = a + d
  BY <1>2, <1>8 DEF H
<1>10. PICK x \in Nat, y \in Nat : x = p[i] /\ y = q[i] /\ d = y - x
  BY <1>2, <1>5
<1>11. SumOf(q) = a + d /\ SumOf(p) = a
  BY <1>3, <1>4, <1>9
<1>12. a + d = a + y - x
  BY <1>10
<1> QED
  BY <1>10, <1>11, <1>12

-----------------------------------------------------------------------------
LEMMA JoinShape ==
  ASSUME NEW S, NEW a \in Seq(S), NEW b \in Seq(S)
  PROVE  /\ a \o b \in Seq(S)
         /\ Len(a \o b) = Len(a) + Len(b)
         /\ \A i \in 1 .. Len(a) : (a \o b)[i] = a[i]
         /\ \A i \in 1 .. Len(b) : (a \o b)[Len(a) + i] = b[i]
  OBVIOUS

(***************************************************************************)
(* Where the elements of three joined sequences are.                       *)
(***************************************************************************)
LEMMA SandwichShape ==
  ASSUME NEW S, NEW a \in Seq(S), NEW b \in Seq(S), NEW d \in Seq(S)
  PROVE  /\ a \o b \o d \in Seq(S)
         /\ Len(a \o b \o d) = Len(a) + Len(b) + Len(d)
         /\ \A i \in 1 .. Len(a) : (a \o b \o d)[i] = a[i]
         /\ \A i \in 1 .. Len(b) : (a \o b \o d)[Len(a) + i] = b[i]
         /\ \A i \in 1 .. Len(d) : (a \o b \o d)[Len(a) + Len(b) + i] = d[i]
<1> DEFINE ab == a \o b
           abd == ab \o d
           la == Len(a)
           lb == Len(b)
           ld == Len(d)
<1>1. ab \in Seq(S) /\ Len(ab) = la + lb
  OBVIOUS
<1>2. abd \in Seq(S)
  BY <1>1
<1>3. Len(abd) = Len(ab) + ld
  BY <1>1, JoinShape
<1>4. \A i \in 1 .. Len(ab) : abd[i] = ab[i]
  BY <1>1, JoinShape
<1>5. \A i \in 1 .. ld : abd[Len(ab) + i] = d[i]
  BY <1>1, JoinShape
<1>6. \A i \in 1 .. la : ab[i] = a[i]
  BY JoinShape
<1>7. \A i \in 1 .. lb : ab[la + i] = b[i]
  BY JoinShape
<1>8. la \in Nat /\ lb \in Nat /\ ld \in Nat
  OBVIOUS
<1> HIDE DEF ab, abd, la, lb, ld
<1>9. Len(abd) = la + lb + ld
  BY <1>1, <1>3, <1>8
<1>10. \A i \in 1 .. la : abd[i] = a[i]
  BY <1>1, <1>4, <1>6, <1>8
<1>11. \A i \in 1 .. lb : abd[la + i] = b[i]
  BY <1>1, <1>4, <1>7, <1>8
<1>12. \A i \in 1 .. ld : abd[la + lb + i] = d[i]
  BY <1>1, <1>5, <1>8
<1> QED
  BY <1>2, <1>9, <1>10, <1>11, <1>12 DEF ab, abd, la, lb, ld

(***************************************************************************)
(* The same for a header of three cells and a trailer of two.              *)
(***************************************************************************)
Sized(a, d) == Len(a) = 3 /\ Len(d) = 2

Framed(f, a, b, d) ==
  /\ Len(f) = Len(b) + 5
  /\ \A i \in 1 .. 3 : f[i] = a[i]
  /\ \A i \in 1 .. Len(b) : f[i + 3] = b[i]
  /\ f[Len(b) + 4] = d[1] /\ f[Len(b) + 5] = d[2]

LEMMA FramedShape ==
  ASSUME NEW S, NEW a \in Seq(S), NEW b \in Seq(S), NEW d \in Seq(S), Sized(a, d)
  PROVE  Framed(a \o b \o d, a, b, d)
<1> DEFINE f == a \o b \o d
<1>1. Len(b) \in Nat
  OBVIOUS
<1>2. Len(f) = Len(a) + Len(b) + Len(d)
  BY SandwichShape
<1>3. \A i \in 1 .. Len(a) : f[i] = a[i]
  BY SandwichShape
<1>4. \A i \in 1 .. Len(b) : f[Len(a) + i] = b[i]
  BY SandwichShape
<1>5. \A i \in 1 .. Len(d) : f[Len(a) + Len(b) + i] = d[i]
  BY SandwichShape
<1> HIDE DEF f
<1>6. Len(f) = Len(b) + 5
  BY <1>1, <1>2 DEF Sized
<1>7. \A i \in 1 .. 3 : f[i] = a[i]
  BY <1>3 DEF Sized
<1>8. \A i \in 1 .. Len(b) : f[i + 3] = b[i]
  BY <1>1, <1>4 DEF Sized
<1>9. f[Len(b) + 4] = d[1] /\ f[Len(b) + 5] = d[2]
  BY <1>1, <1>5 DEF Sized
<1> QED
  BY <1>6, <1>7, <1>8, <1>9 DEF f, Framed

LEMMA ModByte == \A n \in Nat : n % 256 \in Byte
  BY DEF Byte

LEMMA BytesAreNaturals == \A p \in Seq(Byte) : p \in Seq(Nat)
<1>1. Byte \subseteq Nat
  BY DEF Byte
<1>2. Seq(Byte) \subseteq Seq(Nat)
  BY <1>1, SeqMonotonic
<1> QED
  BY <1>2

LEMMA ChecksumIsByte ==
  ASSUME NEW c \in Byte, NEW p \in Seq(Byte)
  PROVE  calculateChecksum(c, p) \in Byte
<1>1. SumOf(p) \in Nat
  BY BytesAreNaturals, SumIsNatural
<1>2. c + SumOf(p) \in Nat
  BY <1>1 DEF Byte
<1> QED
  BY <1>2, ModByte DEF calculateChecksum

(***************************************************************************)
(* What buildFrame() puts where.                                           *)
(***************************************************************************)
LEMMA FrameShape ==
  ASSUME NEW c \in Byte, NEW p \in Seq(Byte)
  PROVE  /\ buildFrame(c, p) \in Seq(Byte)
         /\ Len(buildFrame(c, p)) = Len(p) + 5
         /\ buildFrame(c, p)[1] = STX
         /\ buildFrame(c, p)[2] = LengthByte(p)
         /\ buildFrame(c, p)[3] = c
         /\ \A i \in 1 .. Len(p) : buildFrame(c, p)[i + 3] = p[i]
         /\ buildFrame(c, p)[Len(p) + 4] = calculateChecksum(c, p)
         /\ buildFrame(c, p)[Len(p) + 5] = ETX
<1> DEFINE k == calculateChecksum(c, p)
           head == <<STX, LengthByte(p), c>>
           tail == <<k, ETX>>
           f == head \o p \o tail
<1>1. Len(p) \in Nat /\ k \in Byte
  BY ChecksumIsByte
<1>2. LengthByte(p) \in Byte
  BY <1>1, ModByte DEF LengthByte
<1>3. /\ head \in Seq(Byte) /\ Len(head) = 3
      /\ head[1] = STX /\ head[2] = LengthByte(p) /\ head[3] = c
  BY <1>2 DEF Byte, STX
<1>4. /\ tail \in Seq(Byte) /\ Len(tail) = 2
      /\ tail[1] = k /\ tail[2] = ETX
  BY <1>1 DEF Byte, ETX
<1>5. buildFrame(c, p) = f
  BY DEF buildFrame
<1> HIDE DEF head, tail, k
<1>6. f \in Seq(Byte)
  BY <1>1, <1>3, <1>4, SandwichShape
<1>7. Sized(head, tail)
  BY <1>3, <1>4 DEF Sized
<1>8. head \in Seq(Byte) /\ tail \in Seq(Byte)
  BY <1>3, <1>4
<1>9. Framed(f, head, p, tail)
  BY <1>1, <1>7, <1>8, FramedShape
<1> HIDE DEF f
<1>10. /\ Len(f) = Len(p) + 5
       /\ f[1] = head[1] /\ f[2] = head[2] /\ f[3] = head[3]
       /\ \A i \in 1 .. Len(p) : f[i + 3] = p[i]
       /\ f[Len(p) + 4] = tail[1] /\ f[Len(p) + 5] = tail[2]
  BY <1>9 DEF Framed
<1> QED
  BY <1>3, <1>4, <1>5, <1>6, <1>10, Zenon DEF k

(***************************************************************************)
(* Of a frame buildFrame() made for a command toMCBCommand() knows, with a *)
(* payload that fits the length byte, parseFrame() returns the payload.    *)
(***************************************************************************)
THEOREM RoundTrip ==
  ASSUME NEW c \in Recognised, NEW p \in Seq(Byte), Len(p) <= MaxPayload
  PROVE  parseFrame(buildFrame(c, p)) = [ok |-> TRUE, command |-> c, data |-> p]
<1> DEFINE f == buildFrame(c, p)
<1>1. c \in Byte /\ Len(p) \in Nat
  BY DEF Recognised, Byte
<1>2. /\ f \in Seq(Byte) /\ Len(f) = Len(p) + 5
      /\ f[1] = STX /\ f[2] = LengthByte(p) /\ f[3] = c
      /\ \A i \in 1 .. Len(p) : f[i + 3] = p[i]
      /\ f[Len(p) + 4] = calculateChecksum(c, p) /\ f[Len(p) + 5] = ETX
  BY <1>1, FrameShape
<1> HIDE DEF f
<1>3. f[2] = Len(p) + 1
  BY <1>1, <1>2 DEF LengthByte, MaxPayload
<1>4. Delimited(f) /\ SizeAgrees(f)
  BY <1>1, <1>2, <1>3 DEF Delimited, SizeAgrees, MCB_MIN_FRAME_SIZE
<1>5. DataOf(f) = p
  <2>1. DataOf(f) = SubSeq(f, 4, Len(p) + 3)
    BY <1>1, <1>3 DEF DataOf
  <2>2. \A i \in 4 .. Len(p) + 3 : f[i] \in Byte /\ f[i] = p[i - 3]
    <3>1. \A i \in 4 .. Len(p) + 3 : i - 3 \in 1 .. Len(p) /\ (i - 3) + 3 = i
      BY <1>1
    <3>2. \A j \in 1 .. Len(p) : p[j] \in Byte
      OBVIOUS
    <3> QED
      BY <1>2, <3>1, <3>2
  <2>3. /\ DataOf(f) \in Seq(Byte)
        /\ Len(DataOf(f)) = Len(p)
        /\ \A i \in 1 .. Len(p) : DataOf(f)[i] = f[i + 3]
    BY <1>1, <2>1, <2>2, SubSeqProperties
  <2> QED
    BY <1>2, <2>3, SeqEqual
<1>6. toMCBCommand(f[3]) = c
  BY <1>2 DEF toMCBCommand
<1>7. ChecksumAgrees(f)
  BY <1>1, <1>2, <1>3, <1>5, <1>6 DEF ChecksumAgrees
<1> QED
  BY <1>4, <1>5, <1>6, <1>7 DEF parseFrame, Accepts, f

-----------------------------------------------------------------------------
(***************************************************************************)
(* What receive() returns ends in the first ETX.                           *)
(***************************************************************************)
LEMMA ReceiveShape ==
  ASSUME NEW S, NEW s \in Seq(S), EtxAt(s) # {}
  PROVE  \E i \in EtxAt(s) : /\ \A j \in EtxAt(s) : i <= j
                             /\ receive(s) = SubSeq(s, 1, i)
<1> DEFINE First(i) == \A j \in EtxAt(s) : i <= j
           c == CHOOSE i \in EtxAt(s) : First(i)
<1>1. EtxAt(s) \subseteq Nat
  BY DEF EtxAt
<1>2. \E i \in EtxAt(s) : First(i)
  BY <1>1, LeastNatural
<1>3. c \in EtxAt(s) /\ First(c)
  BY <1>2
<1>4. receive(s) = SubSeq(s, 1, c)
  BY DEF receive
<1> HIDE DEF c
<1> QED
  BY <1>3, <1>4

(***************************************************************************)
(* A frame with no ETX between its first and its last byte is read whole.  *)
(***************************************************************************)
LEMMA WholeWhenTransparent ==
  ASSUME NEW S, NEW s \in Seq(S), Len(s) >= 5, s[1] = STX, s[Len(s)] = ETX,
         \A i \in 2 .. Len(s) - 1 : s[i] # ETX
  PROVE  receive(s) = s
<1> DEFINE n == Len(s)
<1>1. n \in Nat /\ n >= 5 /\ SubSeq(s, 1, n) = s
  BY SubSeqFull
<1>2. EtxAt(s) = {i \in 1 .. n : s[i] = ETX}
  BY DEF EtxAt
<1>3. s[n] = ETX /\ \A i \in 2 .. n - 1 : s[i] # ETX
  OBVIOUS
<1> HIDE DEF n
<1>4. \A i \in 1 .. n : i = 1 \/ i = n \/ i \in 2 .. n - 1
  BY <1>1
<1>5. n \in EtxAt(s) /\ \A i \in EtxAt(s) : i = n
  BY <1>1, <1>2, <1>3, <1>4 DEF STX, ETX
<1>6. PICK i \in EtxAt(s) : receive(s) = SubSeq(s, 1, i)
  BY <1>5, ReceiveShape
<1> QED
  BY <1>1, <1>5, <1>6

-----------------------------------------------------------------------------
(* Two sums that differ by less than 256 differ modulo 256.                *)
LEMMA SameModulo ==
  ASSUME NEW a \in Nat, NEW b \in Nat, a % 256 = b % 256, a - b \in -255 .. 255
  PROVE  a = b
  OBVIOUS

LEMMA SameCommand ==
  ASSUME NEW a \in Byte, NEW b \in Byte, NEW p \in Seq(Byte),
         calculateChecksum(a, p) = calculateChecksum(b, p)
  PROVE  a = b
<1>1. PICK s \in Nat : s = SumOf(p)
  BY BytesAreNaturals, SumIsNatural
<1>2. (a + s) % 256 = (b + s) % 256
  BY <1>1 DEF calculateChecksum
<1>3. a + s \in Nat /\ b + s \in Nat /\ (a + s) - (b + s) \in -255 .. 255
  BY DEF Byte
<1>4. a + s = b + s
  BY <1>2, <1>3, SameModulo
<1> QED
  BY <1>4 DEF Byte

(* Where the elements of a piece of a sequence are.                        *)
LEMMA PieceShape ==
  ASSUME NEW S, NEW s \in Seq(S), NEW i \in 1 .. Len(s) + 1, NEW j \in i - 1 .. Len(s)
  PROVE  /\ SubSeq(s, i, j) \in Seq(S) /\ Len(SubSeq(s, i, j)) = j - i + 1
         /\ \A k \in 1 .. j - i + 1 : SubSeq(s, i, j)[k] = s[i + k - 1]
<1>1. \A k \in i .. j : s[k] \in S
  OBVIOUS
<1>2. i \in Int /\ j \in Int
  OBVIOUS
<1> QED
  BY <1>1, <1>2, SubSeqProperties

(***************************************************************************)
(* What it takes for the front of a stream of bytes to be accepted.        *)
(***************************************************************************)
LEMMA AcceptedFront ==
  ASSUME NEW w \in Seq(Byte), Accepts(receive(w))
  PROVE  \E n \in Nat :
           /\ n + 5 <= Len(w) /\ w[1] = STX /\ w[2] = n + 1 /\ w[n + 5] = ETX
           /\ \A i \in 1 .. n + 4 : w[i] # ETX
           /\ receive(w) = SubSeq(w, 1, n + 5)
           /\ w[n + 4] = calculateChecksum(toMCBCommand(w[3]), SubSeq(w, 4, n + 3))
           /\ parseFrame(receive(w)) =
                [ok |-> TRUE, command |-> toMCBCommand(w[3]), data |-> SubSeq(w, 4, n + 3)]
<1>1. EtxAt(w) # {}
  <2>1. Len(receive(w)) >= 5
    BY DEF Accepts, Delimited, MCB_MIN_FRAME_SIZE
  <2> QED
    BY <2>1 DEF receive
<1>2. PICK e \in EtxAt(w) : (\A j \in EtxAt(w) : e <= j) /\ receive(w) = SubSeq(w, 1, e)
  BY <1>1, ReceiveShape
<1>3. PICK size \in Nat : size = Len(w)
  OBVIOUS
<1>4. e \in 1 .. size /\ w[e] = ETX /\ \A i \in 1 .. e - 1 : w[i] # ETX
  BY <1>2, <1>3 DEF EtxAt
<1>5. PICK chunk : chunk = receive(w)
  OBVIOUS
<1>6. chunk \in Seq(Byte) /\ Len(chunk) = e /\ \A i \in 1 .. e : chunk[i] = w[i]
  <2>1. 1 \in 1 .. Len(w) + 1 /\ e \in 1 - 1 .. Len(w)
    BY <1>3, <1>4
  <2>2. /\ SubSeq(w, 1, e) \in Seq(Byte) /\ Len(SubSeq(w, 1, e)) = e - 1 + 1
        /\ \A k \in 1 .. e - 1 + 1 : SubSeq(w, 1, e)[k] = w[1 + k - 1]
    BY <2>1, PieceShape
  <2> QED
    BY <2>2, <1>2, <1>4, <1>5
<1>7. /\ e >= 5 /\ chunk[1] = STX /\ e = chunk[2] + 4
      /\ chunk[chunk[2] + 3] = calculateChecksum(toMCBCommand(chunk[3]), DataOf(chunk))
      /\ parseFrame(chunk) =
           [ok |-> TRUE, command |-> toMCBCommand(chunk[3]), data |-> DataOf(chunk)]
  BY <1>5, <1>6 DEF Accepts, Delimited, SizeAgrees, ChecksumAgrees, parseFrame, MCB_MIN_FRAME_SIZE
<1>8. PICK n \in Nat : n = e - 5
  BY <1>4, <1>7
<1>9. e = n + 5
  BY <1>4, <1>8
<1>10. w[1] = STX /\ w[2] = chunk[2] /\ w[3] = chunk[3] /\ w[n + 4] = chunk[n + 4]
  BY <1>6, <1>7, <1>9
<1>11. chunk[2] = n + 1
  <2>1. 2 \in 1 .. e
    BY <1>9
  <2>2. chunk[2] \in Byte
    BY <2>1, <1>6
  <2>3. PICK v \in Byte : v = chunk[2]
    BY <2>2
  <2>4. v + 4 = n + 5 /\ v \in Nat
    BY <2>3, <1>7, <1>9 DEF Byte
  <2>5. v = n + 1
    BY <2>4
  <2> QED
    BY <2>3, <2>5
<1>12. DataOf(chunk) = SubSeq(w, 4, n + 3)
  <2>1. DataOf(chunk) = SubSeq(chunk, 4, n + 3)
    BY <1>11 DEF DataOf
  <2>2. 4 \in 1 .. Len(chunk) + 1 /\ n + 3 \in 4 - 1 .. Len(chunk)
    BY <1>6, <1>9
  <2>3. 4 \in 1 .. Len(w) + 1 /\ n + 3 \in 4 - 1 .. Len(w)
    BY <1>3, <1>4, <1>9
  <2>4. PICK a : a = SubSeq(chunk, 4, n + 3)
    OBVIOUS
  <2>5. PICK b : b = SubSeq(w, 4, n + 3)
    OBVIOUS
  <2>6. n + 3 - 4 + 1 = n
    OBVIOUS
  <2>7. a \in Seq(Byte) /\ Len(a) = n /\ \A k \in 1 .. n : a[k] = chunk[4 + k - 1]
    BY <2>2, <2>4, <2>6, <1>6, PieceShape
  <2>8. b \in Seq(Byte) /\ Len(b) = n /\ \A k \in 1 .. n : b[k] = w[4 + k - 1]
    BY <2>3, <2>5, <2>6, PieceShape
  <2>9. \A k \in 1 .. n : 4 + k - 1 \in 1 .. e
    BY <1>9
  <2>10. \A k \in 1 .. n : a[k] = b[k]
    BY <2>7, <2>8, <2>9, <1>6
  <2>11. a = b
    BY <2>7, <2>8, <2>10, SeqEqual
  <2> QED
    BY <2>1, <2>4, <2>5, <2>11
<1>13. n + 5 <= Len(w) /\ w[n + 5] = ETX /\ \A i \in 1 .. n + 4 : w[i] # ETX
  BY <1>3, <1>4, <1>9
<1>14. receive(w) = SubSeq(w, 1, n + 5)
  BY <1>2, <1>9
<1>15. w[n + 4] = calculateChecksum(toMCBCommand(w[3]), SubSeq(w, 4, n + 3))
  <2>1. chunk[2] + 3 = n + 4
    BY <1>11
  <2> QED
    BY <2>1, <1>7, <1>10, <1>12
<1> QED
  BY <1>5, <1>7, <1>10, <1>11, <1>12, <1>13, <1>14, <1>15

(* A length byte changed to what is left of the payload up to an ETX, and  *)
(* the byte before that is by chance the checksum of what is left.         *)
CutTo(n, w, c, p) ==
  /\ n < Len(p) /\ w[2] = n + 1 /\ w[n + 5] = ETX
  /\ p[n + 1] = calculateChecksum(c, SubSeq(p, 1, n))

(***************************************************************************)
(* One byte of a frame changed on the line, receive() cuts it at the first *)
(* ETX that ends a frame, and parseFrame() accepts what it is given.  Then *)
(* either the byte became what it was, or it was the length byte, and what *)
(* is accepted is a front of the payload that CutTo describes.             *)
(***************************************************************************)
THEOREM DamagedFrame ==
  ASSUME NEW c \in Recognised, NEW p \in Seq(Byte), Len(p) <= MaxPayload,
         NEW w \in Seq(Byte), Len(w) = Len(p) + 5, NEW d \in 1 .. Len(w),
         \A i \in 1 .. Len(w) : i # d => w[i] = buildFrame(c, p)[i],
         Accepts(receive(w))
  PROVE  \/ w = buildFrame(c, p) /\ receive(w) = w
         \/ \E n \in 0 .. Len(p) :
              /\ CutTo(n, w, c, p)
              /\ parseFrame(receive(w)) = [ok |-> TRUE, command |-> c, data |-> SubSeq(p, 1, n)]
<1>1. PICK size \in Nat : size = Len(p)
  OBVIOUS
<1>2. PICK f : f = buildFrame(c, p)
  OBVIOUS
<1>3. c \in Byte /\ c # UNKNOWN /\ toMCBCommand(c) = c
  BY DEF Recognised, Byte, UNKNOWN, toMCBCommand
<1>4. /\ f \in Seq(Byte) /\ Len(f) = size + 5
      /\ f[1] = STX /\ f[2] = LengthByte(p) /\ f[3] = c
      /\ \A i \in 1 .. size : f[i + 3] = p[i]
      /\ f[size + 4] = calculateChecksum(c, p) /\ f[size + 5] = ETX
  BY <1>1, <1>2, <1>3, FrameShape
<1>5. f[2] = size + 1
  <2>1. size <= 254 /\ f[2] = (1 + size) % 256
    BY <1>1, <1>4 DEF LengthByte, MaxPayload
  <2>2. (1 + size) % 256 = 1 + size
    BY <2>1
  <2> QED
    BY <2>1, <2>2
<1>6. /\ d \in 1 .. size + 5 /\ Len(w) = size + 5
      /\ \A i \in 1 .. size + 5 : i # d => w[i] = f[i]
  BY <1>1, <1>2
<1>7. PICK n \in Nat :
        /\ n + 5 <= size + 5 /\ w[1] = STX /\ w[2] = n + 1 /\ w[n + 5] = ETX
        /\ receive(w) = SubSeq(w, 1, n + 5)
        /\ w[n + 4] = calculateChecksum(toMCBCommand(w[3]), SubSeq(w, 4, n + 3))
        /\ parseFrame(receive(w)) =
             [ok |-> TRUE, command |-> toMCBCommand(w[3]), data |-> SubSeq(w, 4, n + 3)]
  BY <1>6, AcceptedFront
<1>8. PICK q : q = SubSeq(w, 4, n + 3)
  OBVIOUS
<1>9. q \in Seq(Byte) /\ Len(q) = n /\ \A k \in 1 .. n : q[k] = w[k + 3]
  <2>1. 4 \in 1 .. Len(w) + 1 /\ n + 3 \in 4 - 1 .. Len(w) /\ n + 3 - 4 + 1 = n
    BY <1>6, <1>7
  <2>2. \A k \in 1 .. n : 4 + k - 1 = k + 3
    OBVIOUS
  <2> QED
    BY <2>1, <2>2, <1>8, PieceShape
<1>10. CASE n = size
  <2>1. receive(w) = w
    <3>1. receive(w) = SubSeq(w, 1, Len(w))
      BY <1>6, <1>7, <1>10
    <3> QED
      BY <3>1, SubSeqFull
  <2>2. w[1] = f[1] /\ w[2] = f[2] /\ w[size + 5] = f[size + 5]
    BY <1>4, <1>5, <1>7, <1>10
  <2>3. w[d] = f[d]
    <3>1. CASE d = 3
      <4>1. \A k \in 1 .. size : k + 3 \in 1 .. size + 5 /\ k + 3 # d
        BY <3>1
      <4>2. \A k \in 1 .. size : q[k] = p[k]
        BY <4>1, <1>4, <1>6, <1>9, <1>10
      <4>3. q = p
        BY <4>2, <1>1, <1>9, <1>10, SeqEqual
      <4>4. size + 4 \in 1 .. size + 5 /\ size + 4 # d
        BY <3>1, <1>1
      <4>5. w[size + 4] = f[size + 4]
        BY <4>4, <1>6
      <4>6. calculateChecksum(toMCBCommand(w[3]), p) = calculateChecksum(c, p)
        BY <4>3, <4>5, <1>4, <1>7, <1>8, <1>10
      <4>7. PICK v \in Byte : v = w[3]
        <5>1. 3 \in 1 .. Len(w)
          BY <1>1, <1>6
        <5> QED
          BY <5>1
      <4>8. toMCBCommand(v) \in Byte
        BY DEF toMCBCommand, UNKNOWN, Byte
      <4>9. toMCBCommand(v) = c
        BY <4>6, <4>7, <4>8, <1>3, SameCommand
      <4>10. v = c
        BY <4>9, <1>3 DEF toMCBCommand
      <4> QED
        BY <3>1, <4>7, <4>10, <1>4
    <3>2. CASE d \in 4 .. size + 3
      <4>1. PICK i \in 1 .. size : d = i + 3
        <5>1. d - 3 \in 1 .. size /\ d = (d - 3) + 3
          BY <3>2, <1>1
        <5> QED
          BY <5>1
      <4>2. w[3] = c /\ w[size + 4] = f[size + 4]
        <5>1. 3 \in 1 .. size + 5 /\ 3 # d /\ size + 4 \in 1 .. size + 5 /\ size + 4 # d
          BY <3>2, <1>1
        <5> QED
          BY <5>1, <1>4, <1>6
      <4>3. calculateChecksum(c, q) = calculateChecksum(c, p)
        BY <4>2, <1>3, <1>4, <1>7, <1>8, <1>10
      <4>4. \A k \in 1 .. size : k # i => q[k] = p[k]
        <5>1. \A k \in 1 .. size : k # i => k + 3 \in 1 .. size + 5 /\ k + 3 # d
          BY <4>1
        <5> QED
          BY <5>1, <1>4, <1>6, <1>9, <1>10
      <4>5. p \in Seq(Nat) /\ q \in Seq(Nat)
        BY <1>9, BytesAreNaturals
      <4>6. SumOf(q) = SumOf(p) + q[i] - p[i]
        BY <4>4, <4>5, <1>1, <1>9, <1>10, SumOfChanged
      <4>7. PICK x \in Byte : x = p[i]
        BY <1>1
      <4>8. PICK y \in Byte : y = q[i]
        BY <1>9, <1>10
      <4>9. PICK s \in Nat, t \in Nat : s = SumOf(p) /\ t = SumOf(q)
        BY <4>5, SumIsNatural
      <4>10. t = s + y - x
        BY <4>6, <4>7, <4>8, <4>9
      <4>11. PICK a \in Nat, b \in Nat : a = c + t /\ b = c + s
        BY <1>3 DEF Byte
      <4>12. a % 256 = b % 256
        BY <4>3, <4>9, <4>11 DEF calculateChecksum
      <4>13. a - b = y - x /\ a - b \in -255 .. 255
        BY <4>10, <4>11, <1>3 DEF Byte
      <4>14. a = b
        BY <4>12, <4>13, SameModulo
      <4>15. y = x
        BY <4>13, <4>14 DEF Byte
      <4>16. w[i + 3] = f[i + 3]
        BY <4>7, <4>8, <4>15, <1>4, <1>9, <1>10
      <4> QED
        BY <4>1, <4>16
    <3>3. CASE d = size + 4
      <4>1. w[3] = c
        <5>1. 3 \in 1 .. size + 5 /\ 3 # d
          BY <3>3, <1>1
        <5> QED
          BY <5>1, <1>4, <1>6
      <4>2. \A k \in 1 .. size : k + 3 \in 1 .. size + 5 /\ k + 3 # d
        BY <3>3
      <4>3. \A k \in 1 .. size : q[k] = p[k]
        BY <4>2, <1>4, <1>6, <1>9, <1>10
      <4>4. q = p
        BY <4>3, <1>1, <1>9, <1>10, SeqEqual
      <4> QED
        BY <3>3, <4>1, <4>4, <1>3, <1>4, <1>7, <1>8, <1>10
    <3>4. d \in {1, 2, 3, size + 4, size + 5} \/ d \in 4 .. size + 3
      BY <1>1, <1>6
    <3> QED
      BY <2>2, <3>1, <3>2, <3>3, <3>4
  <2>4. \A i \in 1 .. size + 5 : w[i] = f[i]
    BY <2>3, <1>6
  <2>5. w = f
    BY <2>4, <1>4, <1>6, SeqEqual
  <2> QED
    BY <2>1, <2>5, <1>2
<1>11. CASE n # size
  <2>1. n < size /\ n \in 0 .. size
    BY <1>7, <1>11
  <2>2. d = 2
    <3>1. 2 \in 1 .. size + 5 /\ w[2] # f[2]
      BY <1>5, <1>7, <1>11
    <3> QED
      BY <3>1, <1>6
  <2>3. w[3] = c
    <3>1. 3 \in 1 .. size + 5 /\ 3 # d
      BY <2>2
    <3> QED
      BY <3>1, <1>4, <1>6
  <2>4. \A k \in 1 .. size : w[k + 3] = p[k]
    <3>1. \A k \in 1 .. size : k + 3 \in 1 .. size + 5 /\ k + 3 # d
      BY <2>2
    <3> QED
      BY <3>1, <1>4, <1>6
  <2>5. PICK r : r = SubSeq(p, 1, n)
    OBVIOUS
  <2>6. r \in Seq(Byte) /\ Len(r) = n /\ \A k \in 1 .. n : r[k] = p[k]
    <3>1. 1 \in 1 .. Len(p) + 1 /\ n \in 1 - 1 .. Len(p) /\ n - 1 + 1 = n
      BY <2>1, <1>1
    <3>2. \A k \in 1 .. n : 1 + k - 1 = k
      OBVIOUS
    <3> QED
      BY <3>1, <3>2, <2>5, PieceShape
  <2>7. \A k \in 1 .. n : q[k] = r[k]
    <3>1. \A k \in 1 .. n : k \in 1 .. size
      BY <2>1
    <3> QED
      BY <3>1, <2>4, <2>6, <1>9
  <2>8. q = r
    BY <2>6, <2>7, <1>9, SeqEqual
  <2>9. p[n + 1] = calculateChecksum(c, r)
    <3>1. n + 1 \in 1 .. size /\ (n + 1) + 3 = n + 4
      BY <2>1
    <3>2. w[n + 4] = p[n + 1]
      BY <3>1, <2>4
    <3> QED
      BY <3>2, <2>3, <2>8, <1>3, <1>7, <1>8
  <2>10. CutTo(n, w, c, p)
    BY <2>1, <2>5, <2>9, <1>1, <1>7 DEF CutTo
  <2>11. parseFrame(receive(w)) = [ok |-> TRUE, command |-> c, data |-> r]
    BY <2>3, <2>8, <1>3, <1>7, <1>8
  <2> QED
    BY <2>1, <2>5, <2>10, <2>11, <1>1
<1> QED
  BY <1>10, <1>11
=============================================================================
