---------------------------- MODULE ExchangeProofs ----------------------------
(***************************************************************************)
(* Proofs about Exchange, for any replies, any number of requests and      *)
(* sessions.  While the reader took nothing, the bytes between the board   *)
(* and the application are those of frames of replies, one after the other *)
(* and in the order of their requests; only the first may have lost its    *)
(* front, and that is the reply the last call to give up has cut.          *)
(***************************************************************************)
EXTENDS Exchange, McbProtocolProofs

Frame(r) == buildFrame(Command, r.body)

(* A reply as the board gives it.                                          *)
IsReply(r) == r.to \in Nat /\ r.body \in Bodies

AreReplies(R) == \A r \in R : IsReply(r)

(* The first n bytes hold no ETX.                                          *)
NoEtx(s, n) == \A q \in 1 .. n : s[q].value # ETX

LEMMA BodiesShape ==
  ASSUME NEW body \in Bodies
  PROVE  body \in Seq(Byte) /\ Len(body) \in 1 .. MaxPayload
  BY ExchangeAssumption

LEMMA ReplyFrame ==
  ASSUME NEW r, IsReply(r)
  PROVE  /\ Frame(r) \in Seq(Byte) /\ Len(Frame(r)) = Len(r.body) + 5
         /\ Len(Frame(r)) \in 6 .. 259
         /\ Frame(r)[2] = Len(r.body) + 1 /\ Frame(r)[Len(Frame(r))] = ETX
         /\ parseFrame(Frame(r)) = [ok |-> TRUE, command |-> Command, data |-> r.body]
<1>0. PICK b : b = r.body /\ b \in Bodies
  BY DEF IsReply
<1>2. b \in Seq(Byte) /\ Command \in Byte /\ Command \in Recognised
  BY <1>0, BodiesShape, ExchangeAssumption DEF Recognised, Byte
<1>1. PICK size \in Nat : size = Len(b) /\ size >= 1 /\ size <= 254
  <2>1. Len(b) \in 1 .. 254
    BY <1>0, BodiesShape DEF MaxPayload
  <2>2. \A n \in 1 .. 254 : n \in Nat /\ n >= 1 /\ n <= 254
    OBVIOUS
  <2> QED
    BY <2>1, <2>2, Zenon
<1>3. PICK f : f = Frame(r) /\ f = buildFrame(Command, b)
  BY <1>0 DEF Frame
<1>4. /\ f \in Seq(Byte) /\ Len(f) = size + 5
      /\ f[2] = LengthByte(b) /\ f[size + 5] = ETX
  <2>1. /\ f \in Seq(Byte) /\ Len(f) = Len(b) + 5
        /\ f[2] = LengthByte(b) /\ f[Len(b) + 5] = ETX
    <3>1. /\ buildFrame(Command, b) \in Seq(Byte) /\ Len(buildFrame(Command, b)) = Len(b) + 5
          /\ buildFrame(Command, b)[2] = LengthByte(b)
          /\ buildFrame(Command, b)[Len(b) + 5] = ETX
      BY <1>2, FrameShape, Zenon
    <3> QED
      BY <3>1, <1>3, Zenon
  <2> QED
    BY <2>1, <1>1, Zenon
<1>5. LengthByte(b) = size + 1
  <2>1. LengthByte(b) = (1 + size) % 256
    BY <1>1 DEF LengthByte
  <2>2. (1 + size) % 256 = 1 + size
    BY <1>1
  <2> QED
    BY <2>1, <2>2
<1>6. parseFrame(f) = [ok |-> TRUE, command |-> Command, data |-> b]
  BY <1>1, <1>2, <1>3, RoundTrip DEF MaxPayload
<1>7. size + 5 \in 6 .. 259
  <2>1. size >= 1 /\ size <= 254
    BY <1>1
  <2> QED
    BY <2>1
<1>8. Frame(r) \in Seq(Byte) /\ Len(Frame(r)) = size + 5 /\ Len(r.body) = size
  BY <1>0, <1>1, <1>3, <1>4
<1>9. Frame(r)[2] = size + 1 /\ Frame(r)[size + 5] = ETX
  BY <1>3, <1>4, <1>5
<1> QED
  BY <1>0, <1>3, <1>6, <1>7, <1>8, <1>9

LEMMA TaggedParts ==
  ASSUME NEW R, NEW b \in Tagged(R)
  PROVE  b.value \in Byte /\ b.of \in R /\ b.at \in Nat /\ b.at > 0
  BY DEF Tagged

LEMMA TaggedGrow ==
  ASSUME NEW R, NEW Q, R \subseteq Q, NEW s \in Seq(Tagged(R))
  PROVE  s \in Seq(Tagged(Q))
<1>1. Tagged(R) \subseteq Tagged(Q)
  BY DEF Tagged
<1> QED
  BY <1>1, SeqMonotonic, Zenon

LEMMA FrameOfShape ==
  ASSUME NEW R, NEW r \in R, IsReply(r)
  PROVE  /\ FrameOf(r) \in Seq(Tagged(R)) /\ Len(FrameOf(r)) = Len(Frame(r))
         /\ \A i \in 1 .. Len(Frame(r)) :
              FrameOf(r)[i] = [value |-> Frame(r)[i], of |-> r, at |-> i]
<1>1. PICK f \in Seq(Byte), n \in Nat : f = Frame(r) /\ n = Len(f)
  <2>1. Frame(r) \in Seq(Byte)
    BY ReplyFrame
  <2> QED
    BY <2>1
<1>2. PICK s : s = FrameOf(r)
  OBVIOUS
<1>3. s = [i \in 1 .. n |-> [value |-> f[i], of |-> r, at |-> i]]
  BY <1>1, <1>2 DEF FrameOf, Frame
<1>4. \A i \in 1 .. n : s[i] = [value |-> f[i], of |-> r, at |-> i]
  BY <1>3
<1>5. \A i \in 1 .. n : s[i] \in Tagged(R)
  <2>1. ASSUME NEW i \in 1 .. n  PROVE s[i] \in Tagged(R)
    <3>1. PICK v \in Byte : v = f[i]
      BY <1>1
    <3>2. i \in Nat \ {0}
      OBVIOUS
    <3>3. [value |-> v, of |-> r, at |-> i] \in Tagged(R)
      BY <3>2 DEF Tagged
    <3> QED
      BY <3>1, <3>3, <1>4
  <2> QED
    BY <2>1
<1>6. s \in Seq(Tagged(R)) /\ Len(s) = n
  <2>1. s \in [1 .. n -> Tagged(R)]
    BY <1>3, <1>4, <1>5
  <2> QED
    BY <2>1
<1> QED
  BY <1>1, <1>2, <1>4, <1>6

LEMMA ValuesShape ==
  ASSUME NEW R, NEW s \in Seq(Tagged(R))
  PROVE  /\ Values(s) \in Seq(Byte) /\ Len(Values(s)) = Len(s)
         /\ \A i \in 1 .. Len(s) : Values(s)[i] = s[i].value
<1>1. PICK n \in Nat : n = Len(s)
  OBVIOUS
<1>2. \A i \in 1 .. n : s[i].value \in Byte
  <2>1. \A i \in 1 .. n : s[i] \in Tagged(R)
    BY <1>1
  <2> QED
    BY <2>1, TaggedParts
<1>3. PICK v : v = Values(s) /\ v = [i \in 1 .. n |-> s[i].value]
  BY <1>1 DEF Values
<1>4. v \in [1 .. n -> Byte]
  BY <1>2, <1>3
<1>5. v \in Seq(Byte) /\ Len(v) = n
  BY <1>4
<1> QED
  BY <1>1, <1>3, <1>5

-----------------------------------------------------------------------------
(***************************************************************************)
(* The bytes s on their way, of the replies R: each is where its tags say, *)
(* each is followed by the next of its frame or, after the last, by the    *)
(* first of the frame of a later reply, and the frame of the last is whole *)
(* to its end.                                                             *)
(***************************************************************************)
Fits(b) == b.at \in 1 .. Len(Frame(b.of)) /\ b.value = Frame(b.of)[b.at]

Follows(b, c) ==
  \/ b.at < Len(Frame(b.of)) /\ c.of = b.of /\ c.at = b.at + 1
  \/ b.at = Len(Frame(b.of)) /\ c.of.to > b.of.to /\ c.at = 1

Ordered(s) ==
  /\ \A q \in 1 .. Len(s) : Fits(s[q])
  /\ \A q \in 1 .. Len(s) - 1 : Follows(s[q], s[q + 1])
  /\ Len(s) > 0 => s[Len(s)].at = Len(Frame(s[Len(s)].of))

(***************************************************************************)
(* They begin with the front of a reply later than the one to request g    *)
(* and than the reply that was cut, C, or in the middle of that one.       *)
(***************************************************************************)
Later(s, g, C) ==
  Len(s) > 0 =>
    /\ s[1].of.to >= g
    /\ s[1].at = 1 => s[1].of.to > g /\ \A x \in C : x.to < s[1].of.to
    /\ s[1].at # 1 => C = {s[1].of}

LEMMA NothingIsOrdered == Ordered(<<>>) /\ \A g, C : Later(<<>>, g, C)
<1>1. Len(<<>>) = 0
  OBVIOUS
<1> QED
  BY <1>1 DEF Ordered, Later

(* What the bytes and their tags are in a sequence of them.                *)
LEMMA OrderedTypes ==
  ASSUME NEW R, NEW s \in Seq(Tagged(R)), AreReplies(R), NEW q \in 1 .. Len(s)
  PROVE  /\ s[q].of \in R /\ IsReply(s[q].of) /\ s[q].of.to \in Nat
         /\ s[q].at \in Nat /\ s[q].at > 0
         /\ Len(Frame(s[q].of)) \in Nat /\ Len(Frame(s[q].of)) >= 6
<1>1. PICK b \in Tagged(R) : b = s[q]
  OBVIOUS
<1>2. PICK r \in R : r = b.of /\ IsReply(r)
  BY TaggedParts DEF AreReplies
<1>3. Len(Frame(r)) \in 6 .. 259
  BY <1>2, ReplyFrame
<1>4. Len(Frame(r)) \in Nat /\ Len(Frame(r)) >= 6
  <2>1. \A n \in 6 .. 259 : n \in Nat /\ n >= 6
    OBVIOUS
  <2> QED
    BY <2>1, <1>3
<1>5. b.at \in Nat /\ b.at > 0
  BY TaggedParts
<1> QED
  BY <1>1, <1>2, <1>4, <1>5 DEF IsReply

(* What is left when c is taken from the front.                            *)
LEMMA OrderedRest ==
  ASSUME NEW R, NEW c \in Seq(Tagged(R)), NEW t \in Seq(Tagged(R)), Ordered(c \o t)
  PROVE  /\ Ordered(t)
         /\ Len(c) > 0 /\ Len(t) > 0 => Follows(c[Len(c)], t[1])
<1>0. PICK k \in Nat, n \in Nat : k = Len(c) /\ n = Len(t)
  OBVIOUS
<1>1. PICK s : s = c \o t /\ k = Len(c) /\ n = Len(t)
  BY <1>0
<1>2. Len(s) = k + n
  BY <1>1, JoinShape
<1>3. \A q \in 1 .. k : s[q] = c[q]
  BY <1>1, JoinShape
<1>4. \A q \in 1 .. n : s[k + q] = t[q]
  BY <1>1, JoinShape
<1>5. \A q \in 1 .. k + n : Fits(s[q])
  BY <1>1, <1>2 DEF Ordered
<1>6. \A q \in 1 .. k + n - 1 : Follows(s[q], s[q + 1])
  BY <1>1, <1>2 DEF Ordered
<1>7. k + n > 0 => s[k + n].at = Len(Frame(s[k + n].of))
  BY <1>1, <1>2 DEF Ordered
<1>8. \A q \in 1 .. n : Fits(t[q])
  <2>1. \A q \in 1 .. n : k + q \in 1 .. k + n
    OBVIOUS
  <2> QED
    BY <2>1, <1>4, <1>5
<1>9. ASSUME NEW q \in 1 .. n - 1
      PROVE  Follows(t[q], t[q + 1])
  <2>1. q \in 1 .. n /\ q + 1 \in 1 .. n /\ k + q \in 1 .. k + n - 1 /\ k + q + 1 = k + (q + 1)
    OBVIOUS
  <2>2. Follows(s[k + q], s[k + q + 1])
    BY <2>1, <1>6
  <2>3. s[k + q] = t[q] /\ s[k + q + 1] = t[q + 1]
    BY <2>1, <1>4
  <2> QED
    BY <2>2, <2>3
<1>10. n > 0 => t[n].at = Len(Frame(t[n].of))
  <2> SUFFICES ASSUME n > 0  PROVE t[n].at = Len(Frame(t[n].of))
    OBVIOUS
  <2>1. n \in 1 .. n /\ k + n > 0
    OBVIOUS
  <2>2. s[k + n] = t[n]
    BY <2>1, <1>4
  <2> QED
    BY <2>1, <2>2, <1>7
<1>11. Ordered(t)
  BY <1>1, <1>8, <1>9, <1>10 DEF Ordered
<1>12. ASSUME k > 0, n > 0  PROVE Follows(c[k], t[1])
  <2>1. k \in 1 .. k + n - 1 /\ k \in 1 .. k /\ 1 \in 1 .. n
    BY <1>12
  <2>2. Follows(s[k], s[k + 1])
    BY <2>1, <1>6
  <2>3. s[k] = c[k] /\ s[k + 1] = t[1]
    BY <2>1, <1>3, <1>4
  <2> QED
    BY <2>2, <2>3
<1> QED
  BY <1>1, <1>11, <1>12

LEMMA JoinSpelled ==
  ASSUME NEW S, NEW a \in Seq(S), NEW b \in Seq(S), NEW k, k = Len(a), NEW n, n = Len(b)
  PROVE  /\ Len(a \o b) = k + n /\ \A q \in 1 .. k : (a \o b)[q] = a[q]
         /\ \A q \in 1 .. n : (a \o b)[k + q] = b[q]
  BY JoinShape

(* A whole frame at the end, that of a later reply.                        *)
LEMMA OrderedGrow ==
  ASSUME NEW R, NEW s \in Seq(Tagged(R)), Ordered(s), AreReplies(R),
         NEW r, IsReply(r), \A x \in R : r.to > x.to
  PROVE  Ordered(s \o FrameOf(r))
<1>1. PICK f \in Seq(Tagged(R \cup {r})), size \in Nat, more \in Nat :
        /\ size = Len(s) /\ f = FrameOf(r) /\ more = Len(f) /\ more = Len(Frame(r)) /\ more >= 6
        /\ \A i \in 1 .. more : f[i] = [value |-> Frame(r)[i], of |-> r, at |-> i]
  <2>1. Len(Frame(r)) \in 6 .. 259
    BY ReplyFrame
  <2>2. \A n \in 6 .. 259 : n \in Nat /\ n >= 6
    OBVIOUS
  <2>3. PICK Q : Q = R \cup {r} /\ r \in Q
    OBVIOUS
  <2>4. /\ FrameOf(r) \in Seq(Tagged(Q)) /\ Len(FrameOf(r)) = Len(Frame(r))
        /\ \A i \in 1 .. Len(Frame(r)) :
             FrameOf(r)[i] = [value |-> Frame(r)[i], of |-> r, at |-> i]
    BY <2>3, FrameOfShape
  <2>5. Len(s) \in Nat
    OBVIOUS
  <2> QED
    BY <2>1, <2>2, <2>3, <2>4, <2>5, Zenon
<1>2. s \in Seq(Tagged(R \cup {r}))
  <2>1. R \subseteq R \cup {r}
    OBVIOUS
  <2> QED
    BY <2>1, TaggedGrow, Zenon
<1>3. PICK t : t = s \o f
  OBVIOUS
<1>4. /\ Len(t) = size + more /\ \A q \in 1 .. size : t[q] = s[q]
      /\ \A q \in 1 .. more : t[size + q] = f[q]
  <2>1. f \in Seq(Tagged(R \cup {r})) /\ size = Len(s) /\ more = Len(f)
    BY <1>1, Zenon
  <2>2. PICK T : s \in Seq(T) /\ f \in Seq(T)
    BY <2>1, <1>2, Zenon
  <2>3. /\ Len(s \o f) = size + more /\ \A q \in 1 .. size : (s \o f)[q] = s[q]
        /\ \A q \in 1 .. more : (s \o f)[size + q] = f[q]
    BY <2>1, <2>2, JoinSpelled
  <2> QED
    BY <2>3, <1>3, Zenon
<1>5. \A q \in 1 .. more : /\ t[size + q].value = Frame(r)[q]
                           /\ t[size + q].of = r /\ t[size + q].at = q
  <2>1. ASSUME NEW q \in 1 .. more
        PROVE  t[size + q].value = Frame(r)[q] /\ t[size + q].of = r /\ t[size + q].at = q
    <3>1. PICK b, v : b = t[size + q] /\ v = Frame(r)[q]
      OBVIOUS
    <3>2. b = [value |-> v, of |-> r, at |-> q]
      BY <3>1, <1>1, <1>4
    <3>3. b.value = v /\ b.of = r /\ b.at = q
      BY <3>2
    <3> QED
      BY <3>1, <3>3
  <2> QED
    BY <2>1
<1>6. ASSUME NEW q \in 1 .. size + more
      PROVE  Fits(t[q])
  <2>1. CASE q <= size
    <3>1. q \in 1 .. size
      BY <2>1
    <3> QED
      BY <3>1, <1>1, <1>4 DEF Ordered
  <2>2. CASE q > size
    <3>1. PICK k \in 1 .. more : q = size + k
      <4>1. q - size \in 1 .. more /\ q = size + (q - size)
        BY <2>2
      <4> QED
        BY <4>1
    <3> QED
      BY <3>1, <1>1, <1>5 DEF Fits
  <2> QED
    BY <2>1, <2>2
<1>7. ASSUME NEW q \in 1 .. size + more - 1
      PROVE  Follows(t[q], t[q + 1])
  <2>1. CASE q < size
    <3>1. q \in 1 .. size - 1 /\ q \in 1 .. size /\ q + 1 \in 1 .. size
      BY <2>1
    <3>2. Follows(s[q], s[q + 1])
      BY <3>1, <1>1 DEF Ordered
    <3> QED
      BY <3>1, <3>2, <1>4
  <2>2. CASE q = size
    <3>1. q \in 1 .. size /\ size > 0 /\ 1 \in 1 .. more
      BY <2>2, <1>1
    <3>2. s[size].at = Len(Frame(s[size].of)) /\ s[size].of \in R
      <4>1. size \in 1 .. Len(s)
        BY <3>1, <2>2, <1>1
      <4>2. s[size].of \in R
        BY <4>1, OrderedTypes
      <4> QED
        BY <4>2, <3>1, <1>1 DEF Ordered
    <3>3. t[q] = s[size] /\ t[q + 1].of = r /\ t[q + 1].at = 1
      BY <3>1, <2>2, <1>4, <1>5
    <3> QED
      BY <3>2, <3>3 DEF Follows
  <2>3. CASE q > size
    <3>1. PICK k \in 1 .. more : q = size + k /\ k + 1 \in 1 .. more /\ q + 1 = size + (k + 1) /\ k < more
      <4>1. /\ q - size \in 1 .. more /\ q = size + (q - size) /\ q - size + 1 \in 1 .. more
            /\ q + 1 = size + (q - size + 1) /\ q - size < more
        BY <2>3
      <4> QED
        BY <4>1
    <3>2. t[q].of = r /\ t[q].at = k /\ t[q + 1].of = r /\ t[q + 1].at = k + 1
      BY <3>1, <1>5
    <3> QED
      BY <3>1, <3>2, <1>1 DEF Follows
  <2> QED
    BY <2>1, <2>2, <2>3, <1>1
<1>8. t[size + more].at = Len(Frame(t[size + more].of))
  <2>1. more \in 1 .. more
    BY <1>1
  <2> QED
    BY <2>1, <1>1, <1>5
<1>9. Ordered(t)
  <2>1. PICK n : n = Len(t) /\ n = size + more
    BY <1>4
  <2>2. \A q \in 1 .. n : Fits(t[q])
    BY <2>1, <1>6
  <2>3. \A q \in 1 .. n - 1 : Follows(t[q], t[q + 1])
    BY <2>1, <1>7
  <2>4. t[n].at = Len(Frame(t[n].of))
    BY <2>1, <1>8
  <2> QED
    BY <2>1, <2>2, <2>3, <2>4, Zenon DEF Ordered
<1> QED
  BY <1>1, <1>3, <1>9

LEMMA LaterGrow ==
  ASSUME NEW R, NEW s \in Seq(Tagged(R)), NEW g \in Int, NEW C \in SUBSET R, Later(s, g, C),
         NEW r, IsReply(r), r.to > g, \A x \in R : r.to > x.to, AreReplies(R)
  PROVE  Later(s \o FrameOf(r), g, C)
<1>1. PICK Q : Q = R \cup {r} /\ r \in Q /\ R \subseteq Q
  <2>1. r \in R \cup {r} /\ R \subseteq R \cup {r}
    OBVIOUS
  <2> QED
    BY <2>1, Zenon
<1>2. s \in Seq(Tagged(Q)) /\ FrameOf(r) \in Seq(Tagged(Q)) /\ Len(FrameOf(r)) = Len(Frame(r))
  BY <1>1, TaggedGrow, FrameOfShape
<1>3. PICK t : t = s \o FrameOf(r)
  OBVIOUS
<1>4. CASE Len(s) > 0
  <2>1. 1 \in 1 .. Len(s)
    BY <1>4
  <2>2. t[1] = s[1]
    BY <2>1, <1>2, <1>3, JoinShape
  <2> QED
    BY <2>2, <1>3, <1>4 DEF Later
<1>5. CASE ~ (Len(s) > 0)
  <2>1. Len(s) = 0 /\ r.to \in Nat
    BY <1>5 DEF IsReply
  <2>2. 1 \in 1 .. Len(Frame(r))
    <3>1. Len(Frame(r)) \in 6 .. 259
      BY ReplyFrame
    <3>2. \A n \in 6 .. 259 : 1 \in 1 .. n
      OBVIOUS
    <3> QED
      BY <3>1, <3>2
  <2>3. t[Len(s) + 1] = FrameOf(r)[1]
    BY <2>2, <1>2, <1>3, JoinShape
  <2>4. FrameOf(r)[1] = [value |-> Frame(r)[1], of |-> r, at |-> 1]
    BY <2>2, <1>1, FrameOfShape
  <2>5. t[1].of = r /\ t[1].at = 1
    BY <2>1, <2>3, <2>4
  <2>6. \A x \in C : x.to < r.to
    <3>1. \A x \in R : x.to \in Nat
      BY DEF AreReplies, IsReply
    <3> QED
      BY <2>1, <3>1
  <2> QED
    BY <2>1, <2>5, <2>6, <1>3 DEF Later
<1> QED
  BY <1>4, <1>5

(* The front c of the bytes c \o t, byte by byte, and what follows it.     *)
LEMMA FrontAndRest ==
  ASSUME NEW R, NEW c \in Seq(Tagged(R)), NEW t \in Seq(Tagged(R)),
         NEW k, k = Len(c), NEW n, n = Len(t)
  PROVE  /\ c \o t \in Seq(Tagged(R)) /\ Len(c \o t) = k + n
         /\ \A q \in 1 .. k : (c \o t)[q] = c[q]
         /\ \A q \in 1 .. n : (c \o t)[k + q] = t[q]
<1>1. PICK T : T = Tagged(R)
  OBVIOUS
<1>2. c \in Seq(T) /\ t \in Seq(T)
  BY <1>1, Zenon
<1>3. /\ c \o t \in Seq(T) /\ Len(c \o t) = k + n
      /\ \A q \in 1 .. k : (c \o t)[q] = c[q]
      /\ \A q \in 1 .. n : (c \o t)[k + q] = t[q]
  BY <1>2, JoinShape
<1> QED
  BY <1>1, <1>3, Zenon

(* The replies come in the order of their requests.                        *)
LEMMA Rising ==
  ASSUME NEW R, NEW s \in Seq(Tagged(R)), AreReplies(R), Ordered(s), NEW q \in 1 .. Len(s)
  PROVE  s[q].of = s[1].of \/ s[q].of.to > s[1].of.to
<1>1. PICK size \in Nat : size = Len(s)
  OBVIOUS
<1>2. \A m \in 1 .. size - 1 : Follows(s[m], s[m + 1])
  BY <1>1 DEF Ordered
<1>3. \A m \in 1 .. size : s[m].of.to \in Nat
  BY <1>1, OrderedTypes
<1> DEFINE H == {m \in 0 .. size : m = 0 \/ s[m].of = s[1].of \/ s[m].of.to > s[1].of.to}
<1>4. 0 \in H
  OBVIOUS
<1>5. ASSUME NEW n \in 1 .. size, n - 1 \in H  PROVE n \in H
  <2>1. CASE n = 1
    BY <2>1
  <2>2. CASE n # 1
    <3>1. PICK m \in 1 .. size - 1 : m = n - 1 /\ m + 1 = n /\ m \in 1 .. size /\ m # 0
      <4>1. n - 1 \in 1 .. size - 1 /\ n - 1 + 1 = n /\ n - 1 \in 1 .. size /\ n - 1 # 0
        BY <2>2
      <4> QED
        BY <4>1
    <3>2. s[m].of = s[1].of \/ s[m].of.to > s[1].of.to
      BY <3>1, <1>5
    <3>3. s[n].of = s[m].of \/ s[n].of.to > s[m].of.to
      BY <3>1, <1>2 DEF Follows
    <3>4. 1 \in 1 .. size
      BY <3>1
    <3>5. PICK x, y, z : x = s[n].of /\ y = s[m].of /\ z = s[1].of
      OBVIOUS
    <3>6. x.to \in Nat /\ y.to \in Nat /\ z.to \in Nat
      BY <3>1, <3>4, <3>5, <1>3
    <3>7. x = z \/ x.to > z.to
      BY <3>2, <3>3, <3>5, <3>6
    <3> QED
      BY <3>5, <3>7
  <2> QED
    BY <2>1, <2>2
<1> HIDE DEF H
<1>6. \A n \in 0 .. size : n \in H
  BY <1>4, <1>5, Carried
<1> QED
  BY <1>1, <1>6 DEF H

(***************************************************************************)
(* A call that gives up leaves what it has not read; the reply in the      *)
(* middle of whose frame that begins is the one it has cut.                *)
(***************************************************************************)
LEMMA LaterRest ==
  ASSUME NEW R, NEW c \in Seq(Tagged(R)), NEW t \in Seq(Tagged(R)), AreReplies(R),
         NEW g \in Int, NEW C, Ordered(c \o t), Later(c \o t, g, C)
  PROVE  /\ Later(t, g, Torn(t))
         /\ \A x \in Torn(t) : x.to > g \/ x \in C
<1>1. PICK k \in Nat, n \in Nat : k = Len(c) /\ n = Len(t)
  OBVIOUS
<1>2. PICK s : s = c \o t
  OBVIOUS
<1>3. s \in Seq(Tagged(R)) /\ Len(s) = k + n /\ \A q \in 1 .. n : s[k + q] = t[q]
  BY <1>1, <1>2, FrontAndRest
<1>4. CASE n = 0
  <2>1. t = <<>>
    BY <1>1, <1>4, EmptySeq
  <2> QED
    BY <2>1, NothingIsOrdered DEF Torn
<1>5. CASE n > 0
  <2>1. 1 \in 1 .. k + n /\ k + 1 \in 1 .. k + n /\ 1 \in 1 .. n /\ Len(s) > 0
    BY <1>3, <1>5
  <2>2. PICK b, first : b = t[1] /\ b = s[k + 1] /\ first = s[1]
    BY <1>3, <2>1
  <2>3. /\ b.of.to \in Nat /\ b.at \in Nat /\ b.at > 0
        /\ first.of.to \in Nat /\ first.at \in Nat
    <3>1. \A j \in 1 .. Len(s) : s[j].of.to \in Nat /\ s[j].at \in Nat /\ s[j].at > 0
      BY <1>3, OrderedTypes
    <3>2. 1 \in 1 .. Len(s) /\ k + 1 \in 1 .. Len(s)
      BY <1>3, <2>1
    <3> QED
      BY <3>1, <3>2, <2>2
  <2>4. b.of = first.of \/ b.of.to > first.of.to
    BY <1>2, <1>3, <2>1, <2>2, Rising
  <2>5. /\ first.of.to >= g
        /\ first.at = 1 => first.of.to > g
        /\ first.at # 1 => C = {first.of}
    BY <1>2, <2>1, <2>2 DEF Later
  <2>6. b.of.to >= g
    BY <2>3, <2>4, <2>5
  <2>7. b.at = 1 => b.of.to > g
    <3>1. CASE k = 0
      BY <3>1, <2>2, <2>5
    <3>2. CASE k # 0
      <4>1. k \in 1 .. k + n /\ k \in 1 .. k + n - 1
        BY <3>2, <1>5
      <4>2. PICK x : x = s[k]
        OBVIOUS
      <4>3. Follows(x, b)
        BY <4>1, <4>2, <1>2, <1>3, <2>2 DEF Ordered
      <4>4. x.at \in Nat /\ x.at > 0 /\ x.of.to \in Nat
        BY <4>1, <4>2, <1>3, OrderedTypes
      <4>5. x.of = first.of \/ x.of.to > first.of.to
        BY <4>1, <4>2, <1>2, <1>3, <2>2, Rising
      <4>6. b.at = 1 => b.of.to > x.of.to
        BY <4>3, <4>4 DEF Follows
      <4>7. x.of.to >= first.of.to
        BY <4>4, <4>5, <2>3
      <4> QED
        BY <4>4, <4>6, <4>7, <2>3, <2>5
    <3> QED
      BY <3>1, <3>2
  <2>8. b.at = 1 => Torn(t) = {}
    BY <2>2 DEF Torn
  <2>9. b.at # 1 => Torn(t) = {b.of}
    <3>1. t # <<>>
      BY <1>1, <1>5
    <3> QED
      BY <3>1, <2>2, <2>3 DEF Torn
  <2>10. Later(t, g, Torn(t))
    BY <2>2, <2>6, <2>7, <2>8, <2>9 DEF Later
  <2>11. b.of.to > g \/ b.of \in C
    BY <2>3, <2>4, <2>5
  <2> QED
    BY <2>8, <2>9, <2>10, <2>11
<1> QED
  BY <1>4, <1>5

(***************************************************************************)
(* Up to the first ETX all bytes are of one frame, one after the other.    *)
(***************************************************************************)
LEMMA OneFrame ==
  ASSUME NEW R, NEW s \in Seq(Tagged(R)), AreReplies(R), Ordered(s),
         NEW e \in 1 .. Len(s), NoEtx(s, e - 1)
  PROVE  \A q \in 1 .. e : s[q].of = s[1].of /\ s[q].at = s[1].at + q - 1
<1>0. PICK r : r = s[1].of
  OBVIOUS
<1>1. PICK size \in Nat : size = Len(s)
  OBVIOUS
<1>2. e \in 1 .. size /\ e \in Nat
  BY <1>1
<1>3. \A q \in 1 .. size : Fits(s[q])
  BY <1>1 DEF Ordered
<1>4. \A q \in 1 .. size - 1 : Follows(s[q], s[q + 1])
  BY <1>1 DEF Ordered
<1>5. \A q \in 1 .. e - 1 : s[q].value # ETX
  BY DEF NoEtx
<1>6. PICK a \in Nat : a = s[1].at
  <2>1. 1 \in 1 .. size
    BY <1>2
  <2> QED
    BY <2>1, <1>1, OrderedTypes
<1> DEFINE H == {n \in 0 .. e : n = 0 \/ (s[n].of = r /\ s[n].at = a + n - 1)}
<1>7. 0 \in H
  BY <1>2
<1>8. ASSUME NEW n \in 1 .. e, n - 1 \in H  PROVE n \in H
  <2>1. CASE n = 1
    <3>1. a = a + 1 - 1
      OBVIOUS
    <3> QED
      BY <2>1, <3>1, <1>2, <1>6, <1>0
  <2>2. CASE n # 1
    <3>1. PICK m \in 1 .. size - 1 : /\ m = n - 1 /\ m + 1 = n /\ m \in 1 .. e - 1
                                     /\ m \in 1 .. size /\ m # 0
      <4>1. /\ n - 1 \in 1 .. size - 1 /\ n - 1 + 1 = n /\ n - 1 \in 1 .. e - 1
            /\ n - 1 \in 1 .. size /\ n - 1 # 0
        BY <2>2, <1>2
      <4> QED
        BY <4>1
    <3>2. s[m].of = r /\ s[m].at = a + m - 1
      BY <3>1, <1>8
    <3>3. IsReply(r)
      BY <3>1, <3>2, <1>1, OrderedTypes
    <3>4. Frame(r)[Len(Frame(r))] = ETX
      BY <3>3, ReplyFrame
    <3>5. s[m].value = Frame(r)[s[m].at] /\ s[m].value # ETX
      BY <3>1, <3>2, <1>3, <1>5 DEF Fits
    <3>6. s[m].at # Len(Frame(r))
      BY <3>4, <3>5
    <3>7. s[n].of = r /\ s[n].at = s[m].at + 1
      <4>1. Follows(s[m], s[m + 1])
        BY <3>1, <1>4
      <4> QED
        BY <4>1, <3>1, <3>2, <3>6 DEF Follows
    <3>8. s[n].at = a + n - 1
      BY <3>1, <3>2, <3>7
    <3> QED
      BY <3>7, <3>8
  <2> QED
    BY <2>1, <2>2
<1> HIDE DEF H
<1>9. \A n \in 0 .. e : n \in H
  BY <1>2, <1>7, <1>8, Carried
<1> QED
  BY <1>2, <1>6, <1>9, <1>0 DEF H

(***************************************************************************)
(* The bytes v, from place a on of the frame of a reply, of which          *)
(* parseFrame() returns something, are the whole frame, or hidden in it.   *)
(***************************************************************************)
LEMMA PieceOfFrame ==
  ASSUME NEW r, IsReply(r), NEW a \in 1 .. Len(Frame(r)), NEW v \in Seq(Byte),
         Len(v) > 0, a + Len(v) - 1 <= Len(Frame(r)),
         \A q \in 1 .. Len(v) : v[q] = Frame(r)[a + q - 1],
         parseFrame(v).data # <<>>
  PROVE  /\ a = 1 => v = Frame(r)
         /\ a # 1 => parseFrame(v).data \in Hidden[r.body]
<1>1. PICK f \in Seq(Byte), size \in Nat :
        f = Frame(r) /\ Len(f) = size + 5 /\ f[2] = size + 1
  <2>1. PICK b : b = r.body /\ b \in Bodies
    BY DEF IsReply
  <2>2. PICK size \in Nat : size = Len(r.body)
    BY <2>1, BodiesShape
  <2>3. Frame(r) \in Seq(Byte) /\ Len(Frame(r)) = size + 5 /\ Frame(r)[2] = size + 1
    BY <2>2, ReplyFrame
  <2> QED
    BY <2>3, Zenon
<1>2. PICK e \in Nat : e = Len(v)
  OBVIOUS
<1>3. e > 0 /\ a \in 1 .. size + 5 /\ a + e - 1 <= size + 5
  <2>1. Len(Frame(r)) = size + 5
    BY <1>1, Zenon
  <2> QED
    BY <2>1, <1>2
<1>4. \A q \in 1 .. e : v[q] = f[a + q - 1]
  BY <1>1, <1>2
<1>5. v = SubSeq(f, a, a + e - 1)
  <2>1. PICK i \in 1 .. Len(f) + 1 : i = a
    BY <1>1, <1>3
  <2>2. PICK j \in i - 1 .. Len(f) : j = a + e - 1
    BY <1>1, <1>3, <2>1
  <2>3. /\ SubSeq(f, i, j) \in Seq(Byte) /\ Len(SubSeq(f, i, j)) = j - i + 1
        /\ \A k \in 1 .. j - i + 1 : SubSeq(f, i, j)[k] = f[i + k - 1]
    BY PieceShape, ZenonT(60)
  <2>4. PICK p : p = SubSeq(f, i, j)
    OBVIOUS
  <2>5. p \in Seq(Byte) /\ Len(p) = j - i + 1 /\ \A k \in 1 .. j - i + 1 : p[k] = f[i + k - 1]
    BY <2>3, <2>4, Zenon
  <2>6. j - i + 1 = e
    BY <2>1, <2>2, <1>2
  <2>7. \A k \in 1 .. e : p[k] = v[k]
    BY <2>1, <2>5, <2>6, <1>4
  <2>8. p = v
    BY <2>5, <2>6, <2>7, <1>2, SeqEqual
  <2> QED
    BY <2>1, <2>2, <2>4, <2>8
<1>6. ASSUME a = 1  PROVE v = f
  <2>1. Accepts(v)
    BY DEF parseFrame, Rejected
  <2>2. e >= 5 /\ e = v[2] + 4
    <3>1. Len(v) >= 5 /\ Len(v) = v[2] + 4
      BY <2>1 DEF Accepts, Delimited, SizeAgrees, MCB_MIN_FRAME_SIZE
    <3> QED
      BY <3>1, <1>2
  <2>3. v[2] = size + 1
    <3>1. 2 \in 1 .. e /\ a + 2 - 1 = 2
      BY <1>6, <2>2
    <3>2. v[2] = f[2]
      BY <3>1, <1>4
    <3> QED
      BY <3>2, <1>1
  <2>4. v = SubSeq(f, 1, Len(f))
    <3>1. a = 1 /\ a + e - 1 = Len(f)
      BY <1>1, <1>6, <2>2, <2>3
    <3> QED
      BY <3>1, <1>5
  <2> QED
    BY <2>4, SubSeqFull
<1>7. ASSUME a # 1  PROVE parseFrame(v).data \in Hidden[r.body]
  <2>1. PICK i, j : i = a /\ j = a + e - 1 /\ i \in 2 .. Len(f) /\ j \in 1 .. Len(f)
    <3>1. a \in 2 .. Len(f) /\ a + e - 1 \in 1 .. Len(f)
      BY <1>1, <1>3, <1>7
    <3> QED
      BY <3>1
  <2>2. PICK b \in Bodies : b = r.body /\ f = buildFrame(Command, b)
    BY <1>1 DEF IsReply, Frame
  <2>3. PICK d : d = parseFrame(v).data /\ d = parseFrame(SubSeq(f, i, j)).data /\ d # <<>>
    BY <2>1, <1>5
  <2>4. Hidden[b] = {parseFrame(SubSeq(f, x, y)).data : x \in 2 .. Len(f), y \in 1 .. Len(f)}
                      \ {<<>>}
    BY <2>2 DEF Hidden
  <2>5. d \in {parseFrame(SubSeq(f, x, y)).data : x \in 2 .. Len(f), y \in 1 .. Len(f)}
    BY <2>1, <2>3
  <2>6. d \in Hidden[b]
    BY <2>3, <2>4, <2>5
  <2> QED
    BY <2>2, <2>3, <2>6, Zenon
<1> QED
  BY <1>1, <1>6, <1>7

(***************************************************************************)
(* What parseFrame() returns of the bytes up to the first ETX is the reply *)
(* they are of, or hidden in the rest of the one that was cut; what        *)
(* follows is of later replies, or the remainder of that rest.             *)
(***************************************************************************)
LEMMA FrontGiven ==
  ASSUME NEW R, NEW c \in Seq(Tagged(R)), NEW t \in Seq(Tagged(R)), AreReplies(R),
         NEW g \in Int, NEW C, C \subseteq R, Ordered(c \o t), Later(c \o t, g, C),
         Len(c) > 0, NoEtx(c, Len(c) - 1),
         NEW d, d = parseFrame(Values(c)).data, d # <<>>
  PROVE  \E r \in R : /\ r = c[1].of /\ IsReply(r) /\ Later(t, r.to, C)
                      /\ \/ r \notin C /\ r.to > g /\ d = r.body
                         \/ r \in C /\ r.to >= g /\ d \in Hidden[r.body]
<1>1. PICK e \in Nat, n \in Nat : e = Len(c) /\ n = Len(t)
  OBVIOUS
<1>2. PICK s : s = c \o t
  OBVIOUS
<1>3. /\ s \in Seq(Tagged(R)) /\ Len(s) = e + n
      /\ \A q \in 1 .. e : s[q] = c[q]
      /\ \A q \in 1 .. n : s[e + q] = t[q]
  BY <1>1, <1>2, FrontAndRest
<1>4. e > 0 /\ 1 \in 1 .. e /\ e \in 1 .. e /\ \A q \in 1 .. e : q \in 1 .. Len(s)
  <2>1. e > 0
    BY <1>1
  <2> QED
    BY <2>1, <1>3
<1>5. NoEtx(s, e - 1)
  <2>1. \A q \in 1 .. e - 1 : q \in 1 .. e /\ c[q].value # ETX
    BY <1>1 DEF NoEtx
  <2> QED
    BY <2>1, <1>3 DEF NoEtx
<1>6. PICK r \in R, a \in Nat, len \in Nat :
        /\ r = c[1].of /\ a = c[1].at /\ IsReply(r) /\ len = Len(Frame(r)) /\ a \in 1 .. len
  <2>1. 1 \in 1 .. Len(c) /\ 1 \in 1 .. Len(s)
    BY <1>1, <1>4
  <2>2. /\ c[1].of \in R /\ IsReply(c[1].of) /\ c[1].at \in Nat
        /\ Len(Frame(c[1].of)) \in Nat
    BY <2>1, OrderedTypes
  <2>3. Fits(s[1])
    BY <2>1, <1>2 DEF Ordered
  <2>4. c[1].at \in 1 .. Len(Frame(c[1].of))
    BY <2>3, <1>3, <1>4 DEF Fits
  <2> QED
    BY <2>2, <2>4, Zenon
<1>7. \A q \in 1 .. e : c[q].of = r /\ c[q].at = a + q - 1
  <2>1. e \in 1 .. Len(s)
    BY <1>4
  <2>2. \A q \in 1 .. e : s[q].of = s[1].of /\ s[q].at = s[1].at + q - 1
    BY <2>1, <1>2, <1>3, <1>5, OneFrame
  <2> QED
    BY <2>2, <1>3, <1>4, <1>6
<1>8. \A q \in 1 .. e : c[q].value = Frame(r)[a + q - 1] /\ a + q - 1 \in 1 .. len
  <2>1. \A q \in 1 .. e : Fits(c[q])
    BY <1>2, <1>3, <1>4 DEF Ordered
  <2> QED
    BY <2>1, <1>6, <1>7 DEF Fits
<1>9. a + e - 1 <= len
  <2>1. a + e - 1 \in 1 .. len
    BY <1>4, <1>8
  <2> QED
    BY <2>1
<1>10. PICK v \in Seq(Byte) : v = Values(c) /\ Len(v) = e /\ \A q \in 1 .. e : v[q] = c[q].value
  BY <1>1, ValuesShape
<1>11. /\ a = 1 => v = Frame(r)
       /\ a # 1 => parseFrame(v).data \in Hidden[r.body]
  <2>1. /\ a \in 1 .. Len(Frame(r)) /\ Len(v) > 0 /\ a + Len(v) - 1 <= Len(Frame(r))
        /\ \A q \in 1 .. Len(v) : v[q] = Frame(r)[a + q - 1]
    BY <1>4, <1>6, <1>8, <1>9, <1>10
  <2>2. parseFrame(v).data # <<>>
    BY <1>10
  <2> QED
    BY <2>1, <2>2, <1>6, PieceOfFrame
<1>12. /\ r.to \in Nat /\ r.to >= g
       /\ a = 1 => r.to > g /\ \A x \in C : x.to < r.to
       /\ a # 1 => C = {r}
  <2>1. Len(s) > 0 /\ s[1].of = r /\ s[1].at = a
    <3>1. e + n > 0
      BY <1>4
    <3>2. s[1] = c[1]
      BY <1>3, <1>4
    <3> QED
      BY <3>1, <3>2, <1>3, <1>6
  <2> QED
    BY <2>1, <1>2, <1>6 DEF Later, IsReply
<1>13. \/ r \notin C /\ r.to > g /\ d = r.body
       \/ r \in C /\ r.to >= g /\ d \in Hidden[r.body]
  <2>1. CASE a = 1
    <3>1. parseFrame(Frame(r)) = [ok |-> TRUE, command |-> Command, data |-> r.body]
      BY <1>6, ReplyFrame
    <3>2. d = r.body
      BY <3>1, <2>1, <1>10, <1>11
    <3>3. r \notin C
      BY <2>1, <1>12
    <3> QED
      BY <3>2, <3>3, <2>1, <1>12
  <2>2. CASE a # 1
    <3>1. d \in Hidden[r.body]
      BY <2>2, <1>10, <1>11
    <3>2. r \in C
      BY <2>2, <1>12
    <3> QED
      BY <3>1, <3>2, <1>12
  <2> QED
    BY <2>1, <2>2
<1>14. a = 1 => e = len
  BY <1>6, <1>10, <1>11
<1>15. Later(t, r.to, C)
  <2>1. CASE n = 0
    BY <2>1, <1>1 DEF Later
  <2>2. CASE n > 0
    <3>1. PICK b, last : b = t[1] /\ last = c[e] /\ Follows(last, b)
      <4>1. Len(c) > 0 /\ Len(t) > 0 => Follows(c[Len(c)], t[1])
        BY OrderedRest
      <4>2. Follows(c[e], t[1])
        BY <4>1, <2>2, <1>1, <1>4
      <4> QED
        BY <4>2
    <3>2. last.of = r /\ last.at = a + e - 1
      BY <3>1, <1>4, <1>7
    <3>3. \/ a + e - 1 < len /\ b.of = r /\ b.at = a + e - 1 + 1
          \/ b.of.to > r.to /\ b.at = 1
      BY <3>1, <3>2, <1>6 DEF Follows
    <3>4. b.of.to \in Nat
      <4>1. 1 \in 1 .. Len(t)
        BY <2>2, <1>1
      <4> QED
        BY <4>1, <3>1, OrderedTypes
    <3>5. CASE a + e - 1 < len /\ b.of = r /\ b.at = a + e - 1 + 1
      <4>1. a # 1
        BY <3>5, <1>14, <1>6
      <4>2. b.at # 1
        BY <3>5, <1>4, <1>6
      <4> QED
        <5>1. C = {b.of} /\ b.of.to >= r.to
          BY <4>1, <3>5, <1>12
        <5> QED
          BY <5>1, <4>2, <3>1 DEF Later
    <3>6. CASE b.of.to > r.to /\ b.at = 1
      <4>1. \A x \in C : x.to <= r.to /\ x.to \in Nat
        <5>1. \A x \in C : x.to \in Nat
          BY DEF AreReplies, IsReply
        <5>2. CASE a = 1
          BY <5>1, <5>2, <1>12
        <5>3. CASE a # 1
          BY <5>1, <5>3, <1>12
        <5> QED
          BY <5>2, <5>3
      <4>2. \A x \in C : x.to < b.of.to
        BY <4>1, <3>4, <3>6, <1>12
      <4> QED
        BY <4>2, <3>1, <3>4, <3>6, <1>12 DEF Later
    <3> QED
      BY <3>3, <3>5, <3>6
  <2> QED
    BY <2>1, <2>2
<1> QED
  BY <1>6, <1>13, <1>15

-----------------------------------------------------------------------------
(* The bytes between the board and the application, the next one first.    *)
Flow(c, w, d) == c \o (w \o d)

LEMMA FlowType ==
  ASSUME NEW S, NEW c \in Seq(S), NEW w \in Seq(S), NEW d \in Seq(S)
  PROVE  w \o d \in Seq(S) /\ Flow(c, w, d) \in Seq(S)
<1>1. w \o d \in Seq(S)
  BY JoinShape
<1> QED
  BY <1>1, JoinShape DEF Flow

(* What is used of \o on a set of sequences, and what Flow makes of it.    *)
Joins(T) ==
  /\ \A x, y \in T : x \o y \in T
  /\ \A x, y, z \in T : (x \o y) \o z = x \o (y \o z)

Moves(T) ==
  /\ \A a, b, t, d \in T : Flow(a \o b, t, d) = Flow(a, b \o t, d)
  /\ \A a, w, x, y \in T : Flow(a, w \o x, y) = Flow(a, w, x \o y)
  /\ \A f, d, w, c \in T : Flow(c, w, d \o f) = Flow(c, w, d) \o f

LEMMA SequencesJoin ==
  ASSUME NEW S
  PROVE  Joins(Seq(S))
<1>1. ASSUME NEW x \in Seq(S), NEW y \in Seq(S)
      PROVE  x \o y \in Seq(S)
  OBVIOUS
<1>2. ASSUME NEW x \in Seq(S), NEW y \in Seq(S), NEW z \in Seq(S)
      PROVE  (x \o y) \o z = x \o (y \o z)
  BY ConcatAssociative
<1> QED
  BY <1>1, <1>2 DEF Joins

LEMMA JoinsMove ==
  ASSUME NEW T, Joins(T)
  PROVE  Moves(T)
<1>1. ASSUME NEW a \in T, NEW b \in T, NEW t \in T, NEW d \in T
      PROVE  Flow(a \o b, t, d) = Flow(a, b \o t, d)
  <2>1. t \o d \in T
    BY DEF Joins
  <2>2. (a \o b) \o (t \o d) = a \o (b \o (t \o d))
    BY <2>1 DEF Joins
  <2>3. (b \o t) \o d = b \o (t \o d)
    BY DEF Joins
  <2> QED
    BY <2>2, <2>3, Zenon DEF Flow
<1>2. ASSUME NEW a \in T, NEW w \in T, NEW x \in T, NEW y \in T
      PROVE  Flow(a, w \o x, y) = Flow(a, w, x \o y)
  <2>1. (w \o x) \o y = w \o (x \o y)
    BY DEF Joins
  <2> QED
    BY <2>1, Zenon DEF Flow
<1>3. ASSUME NEW f \in T, NEW d \in T, NEW w \in T, NEW c \in T
      PROVE  Flow(c, w, d \o f) = Flow(c, w, d) \o f
  <2>1. w \o d \in T
    BY DEF Joins
  <2>2. (c \o (w \o d)) \o f = c \o ((w \o d) \o f)
    BY <2>1, ZenonT(60) DEF Joins
  <2>3. (w \o d) \o f = w \o (d \o f)
    BY DEF Joins
  <2> QED
    BY <2>2, <2>3, Zenon DEF Flow
<1> QED
  BY <1>1, <1>2, <1>3 DEF Moves

LEMMA FlowMoves ==
  ASSUME NEW S
  PROVE  Moves(Seq(S))
<1>1. Joins(Seq(S))
  BY SequencesJoin, Zenon
<1> QED
  BY <1>1, JoinsMove, Zenon

(* The application reads one.                                              *)
LEMMA FlowRead ==
  ASSUME NEW S, NEW c \in Seq(S), NEW w \in Seq(S), NEW d \in Seq(S), w # <<>>
  PROVE  /\ Head(w) \in S /\ Tail(w) \in Seq(S) /\ Append(c, Head(w)) \in Seq(S)
         /\ Flow(Append(c, Head(w)), Tail(w), d) = Flow(c, w, d)
<1>1. Head(w) \in S /\ Tail(w) \in Seq(S)
  BY HeadTailProperties
<1>2. PICK b \in S : b = Head(w)
  BY <1>1
<1>3. PICK t \in Seq(S) : t = Tail(w)
  BY <1>1
<1>4. PICK one \in Seq(S) : one = <<b>> /\ Append(c, b) = c \o one /\ w = one \o t
  <2>1. <<b>> \in Seq(S)
    OBVIOUS
  <2>2. Append(c, b) = c \o <<b>>
    BY AppendIsConcat
  <2>3. w = <<b>> \o t
    <3>1. PICK n \in Nat \ {0} : n = Len(w)
      BY EmptySeq
    <3>2. 1 \in 1 .. Len(w) /\ n \in 1 .. Len(w)
      BY <3>1
    <3>3. SubSeq(w, 1, n) = <<w[1]>> \o SubSeq(w, 1 + 1, n)
      BY <3>2, SubSeqRecursiveFirst
    <3>4. SubSeq(w, 1, n) = w
      BY <3>1, SubSeqFull
    <3>5. SubSeq(w, 2, n) = t
      BY <3>1, <1>3, TailIsSubSeq
    <3>6. w[1] = b
      BY <1>2
    <3> QED
      BY <3>3, <3>4, <3>5, <3>6
  <2> QED
    BY <2>1, <2>2, <2>3, Zenon
<1>8. Flow(Append(c, b), t, d) = Flow(c, w, d)
  <2>1. Moves(Seq(S))
    BY FlowMoves, Zenon
  <2>2. Flow(c \o one, t, d) = Flow(c, one \o t, d)
    BY <2>1 DEF Moves
  <2> QED
    BY <2>2, <1>4
<1>9. Append(c, b) \in Seq(S)
  BY AppendProperties
<1> QED
  BY <1>2, <1>3, <1>8, <1>9

(* Some arrive.                                                            *)
LEMMA FlowSent ==
  ASSUME NEW S, NEW c \in Seq(S), NEW w \in Seq(S), NEW d \in Seq(S), NEW k \in 1 .. Len(d)
  PROVE  /\ w \o SubSeq(d, 1, k) \in Seq(S) /\ SubSeq(d, k + 1, Len(d)) \in Seq(S)
         /\ Flow(c, w \o SubSeq(d, 1, k), SubSeq(d, k + 1, Len(d))) = Flow(c, w, d)
<1>1. PICK n \in Nat : n = Len(d)
  OBVIOUS
<1>2. PICK x : x = SubSeq(d, 1, k)
  OBVIOUS
<1>3. PICK y : y = SubSeq(d, k + 1, n)
  OBVIOUS
<1>4. 1 \in 1 .. Len(d) + 1 /\ k \in 1 - 1 .. Len(d) /\ n \in k .. Len(d)
  BY <1>1
<1>5. k + 1 \in 1 .. Len(d) + 1 /\ n \in k + 1 - 1 .. Len(d)
  BY <1>1
<1>6. x \in Seq(S) /\ y \in Seq(S)
  BY <1>2, <1>3, <1>4, <1>5, PieceShape
<1>7. x \o y = d
  <2>1. SubSeq(d, 1, k) \o SubSeq(d, k + 1, n) = SubSeq(d, 1, n)
    BY <1>4, ConcatAdjacentSubSeq
  <2>2. SubSeq(d, 1, n) = d
    BY <1>1, SubSeqFull
  <2> QED
    BY <2>1, <2>2, <1>2, <1>3
<1>9. Flow(c, w \o x, y) = Flow(c, w, d)
  <2>1. PICK p \in Seq(S), q \in Seq(S) : p = x /\ q = y
    BY <1>6
  <2>2. Moves(Seq(S))
    BY FlowMoves, Zenon
  <2>3. Flow(c, w \o p, q) = Flow(c, w, p \o q)
    BY <2>2 DEF Moves
  <2> QED
    BY <2>1, <2>3, <1>7
<1>10. w \o x \in Seq(S)
  BY <1>6, JoinShape
<1> QED
  BY <1>1, <1>2, <1>3, <1>6, <1>9, <1>10

(* The board adds some.                                                    *)
LEMMA FlowMore ==
  ASSUME NEW S
  PROVE  \A f, d, w, c \in Seq(S) : Flow(c, w, d \o f) = Flow(c, w, d) \o f
<1>1. Moves(Seq(S))
  BY FlowMoves, Zenon
<1> QED
  BY <1>1 DEF Moves

LEMMA FlowRest ==
  ASSUME NEW S, NEW w \in Seq(S), NEW d \in Seq(S)
  PROVE  Flow(<<>>, w, d) = w \o d
<1>1. w \o d \in Seq(S)
  BY JoinShape
<1> QED
  BY <1>1, ConcatEmptySeq DEF Flow

LEMMA FlowNothing == Flow(<<>>, <<>>, <<>>) = <<>>
  BY EmptySeq, ConcatEmptySeq DEF Flow

(* A call gives up.                                                        *)
LEMMA FlowDropped ==
  ASSUME NEW R, NEW c \in Seq(Tagged(R)), NEW w \in Seq(Tagged(R)), NEW d \in Seq(Tagged(R)),
         AreReplies(R), NEW g \in Int, NEW C,
         Ordered(Flow(c, w, d)), Later(Flow(c, w, d), g, C)
  PROVE  /\ Ordered(Flow(<<>>, w, d)) /\ Later(Flow(<<>>, w, d), g, Torn(w \o d))
         /\ \A x \in Torn(w \o d) : x.to > g \/ x \in C
<1>1. PICK t \in Seq(Tagged(R)) : t = w \o d
  BY JoinShape
<1>2. Ordered(c \o t) /\ Later(c \o t, g, C)
  BY <1>1 DEF Flow
<1>3. Ordered(t) /\ Later(t, g, Torn(t)) /\ \A x \in Torn(t) : x.to > g \/ x \in C
  BY <1>2, OrderedRest, LaterRest
<1>4. Flow(<<>>, w, d) = t
  BY <1>1, FlowRest
<1> QED
  BY <1>1, <1>3, <1>4, Zenon

(* A call returns.                                                         *)
LEMMA FlowGiven ==
  ASSUME NEW R, NEW c \in Seq(Tagged(R)), NEW w \in Seq(Tagged(R)), NEW d \in Seq(Tagged(R)),
         AreReplies(R), NEW g \in Int, NEW C, C \subseteq R,
         Ordered(Flow(c, w, d)), Later(Flow(c, w, d), g, C),
         Len(c) > 0, NoEtx(c, Len(c) - 1),
         NEW b, b = parseFrame(Values(c)).data, b # <<>>
  PROVE  \E r \in R : /\ r = c[1].of /\ IsReply(r)
                      /\ Ordered(Flow(<<>>, w, d)) /\ Later(Flow(<<>>, w, d), r.to, C)
                      /\ \/ r \notin C /\ r.to > g /\ b = r.body
                         \/ r \in C /\ r.to >= g /\ b \in Hidden[r.body]
<1>1. PICK t \in Seq(Tagged(R)) : t = w \o d
  BY JoinShape
<1>2. Ordered(c \o t) /\ Later(c \o t, g, C)
  BY <1>1 DEF Flow
<1>3. Flow(<<>>, w, d) = t
  BY <1>1, FlowRest
<1>4. Ordered(t)
  BY <1>2, OrderedRest
<1>5. \E r \in R : /\ r = c[1].of /\ IsReply(r) /\ Later(t, r.to, C)
                   /\ \/ r \notin C /\ r.to > g /\ b = r.body
                      \/ r \in C /\ r.to >= g /\ b \in Hidden[r.body]
  BY <1>2, FrontGiven
<1> QED
  BY <1>3, <1>4, <1>5, Zenon

-----------------------------------------------------------------------------
(***************************************************************************)
(* What receive() has collected: nothing between two calls, no ETX while   *)
(* it reads.                                                               *)
(***************************************************************************)
InCall ==
  /\ pc = "idle" => chunk = <<>>
  /\ pc # "idle" => calls > 0
  /\ pc \in {"enter", "recv"} => NoEtx(chunk, Len(chunk))
  /\ pc = "parse" => Len(chunk) > 0 /\ NoEtx(chunk, Len(chunk) - 1)

LEMMA ParsedShape ==
  ASSUME NEW v \in Seq(Byte)
  PROVE  parseFrame(v).data \in Seq(Byte)
<1>1. CASE ~ Accepts(v)
  <2>1. parseFrame(v).data = <<>>
    BY <1>1 DEF parseFrame, Rejected
  <2> QED
    BY <2>1, EmptySeq
<1>2. CASE Accepts(v)
  <2>1. PICK n : n = v[2]
    OBVIOUS
  <2>2. Len(v) = n + 4 /\ Len(v) >= 5
    BY <1>2, <2>1 DEF Accepts, Delimited, SizeAgrees, MCB_MIN_FRAME_SIZE
  <2>3. n \in Byte
    <3>1. 2 \in 1 .. Len(v)
      BY <2>2
    <3> QED
      BY <3>1, <2>1
  <2>4. PICK m \in Nat : m = Len(v) /\ m = n + 4 /\ m >= 5
    BY <2>2
  <2>5. PICK d : d = parseFrame(v).data /\ d = SubSeq(v, 4, n + 2)
    BY <1>2, <2>1 DEF parseFrame, DataOf
  <2>6. 4 \in 1 .. Len(v) + 1 /\ n + 2 \in 4 - 1 .. Len(v)
    BY <2>3, <2>4 DEF Byte
  <2>7. d \in Seq(Byte)
    BY <2>5, <2>6, PieceShape
  <2> QED
    BY <2>5, <2>7
<1> QED
  BY <1>1, <1>2

(* A byte is read.                                                         *)
LEMMA NoEtxYet ==
  ASSUME NEW S, NEW c \in Seq(S), NEW b \in S, NoEtx(c, Len(c))
  PROVE  /\ Len(Append(c, b)) > 0 /\ NoEtx(Append(c, b), Len(Append(c, b)) - 1)
         /\ b.value # ETX => NoEtx(Append(c, b), Len(Append(c, b)))
<1>1. PICK n \in Nat, a \in Seq(S) :
        n = Len(c) /\ a = Append(c, b) /\ Len(a) = n + 1 /\ a[n + 1] = b
  <2>1. /\ Len(c) \in Nat /\ Append(c, b) \in Seq(S)
        /\ Len(Append(c, b)) = Len(c) + 1 /\ Append(c, b)[Len(c) + 1] = b
    BY AppendProperties
  <2> QED
    BY <2>1, Zenon
<1>2. \A q \in 1 .. n : a[q] = c[q]
  BY <1>1, AppendProperties
<1>3. \A q \in 1 .. n : c[q].value # ETX
  BY <1>1 DEF NoEtx
<1>4. \A q \in 1 .. n : a[q].value # ETX
  BY <1>2, <1>3
<1>5. PICK m \in Nat : m = Len(a) /\ m = n + 1
  BY <1>1
<1>6. m > 0 /\ NoEtx(a, m - 1)
  <2>1. m - 1 = n
    BY <1>5
  <2> QED
    BY <2>1, <1>4, <1>5 DEF NoEtx
<1>7. b.value # ETX => NoEtx(a, m)
  <2>1. \A q \in 1 .. m : q \in 1 .. n \/ q = n + 1
    BY <1>5
  <2> QED
    BY <2>1, <1>1, <1>4 DEF NoEtx
<1> QED
  BY <1>1, <1>5, <1>6, <1>7

LEMMA NoEtxAtAll == NoEtx(<<>>, Len(<<>>))
<1>1. Len(<<>>) = 0
  OBVIOUS
<1>2. NoEtx(<<>>, 0)
  BY DEF NoEtx
<1> QED
  BY <1>1, <1>2

LEMMA TornShape ==
  ASSUME NEW R, NEW w \in Seq(Tagged(R)), NEW d \in Seq(Tagged(R))
  PROVE  Torn(w \o d) \subseteq R
<1>1. PICK T : T = Tagged(R)
  OBVIOUS
<1>2. PICK t \in Seq(T) : t = w \o d
  <2>1. w \in Seq(T) /\ d \in Seq(T)
    BY <1>1, Zenon
  <2>2. w \o d \in Seq(T)
    BY <2>1, JoinShape
  <2> QED
    BY <2>2, Zenon
<1>3. t # <<>> => t[1] \in T
  BY EmptySeq
<1>4. t # <<>> => t[1].of \in R
  BY <1>1, <1>3, TaggedParts
<1> QED
  BY <1>2, <1>4 DEF Torn

LEMMA RepliesShape ==
  ASSUME TypeOK
  PROVE  /\ AreReplies(replies) /\ calls \in Nat
         /\ \A r \in replies : /\ r.to \in 1 .. calls /\ r.to \in Nat
                               /\ r = [to |-> r.to, body |-> r.body]
<1>1. calls \in Nat
  BY ExchangeAssumption DEF TypeOK
<1>2. ASSUME NEW r \in replies
      PROVE  /\ r.to \in 1 .. calls /\ r.to \in Nat /\ r.body \in Bodies
             /\ r = [to |-> r.to, body |-> r.body]
  <2>1. r \in [to : 1 .. calls, body : Bodies]
    BY DEF TypeOK
  <2> QED
    BY <2>1, <1>1
<1> QED
  BY <1>1, <1>2 DEF AreReplies, IsReply

(* A reply of the board and its frame.                                     *)
LEMMA BoardReply ==
  ASSUME TypeOK, BoardReplies
  PROVE  \E n, r :
           /\ n \in asked /\ IsReply(r) /\ r.to = n /\ n \in 1 .. calls /\ r \in [to : 1 .. calls, body : Bodies]
           /\ asked' = {m \in asked : m > n}
           /\ sending' = sending \o FrameOf(r) /\ replies' = replies \cup {r}
<1>1. PICK n \in asked, body \in Bodies :
        /\ asked' = {m \in asked : m > n}
        /\ sending' = sending \o FrameOf([to |-> n, body |-> body])
        /\ replies' = replies \cup {[to |-> n, body |-> body]}
  BY DEF BoardReplies
<1>2. n \in 1 .. calls /\ n \in Nat
  <2>1. calls \in Nat /\ asked \subseteq 1 .. calls
    BY RepliesShape DEF TypeOK
  <2> QED
    BY <2>1
<1>3. PICK r : r = [to |-> n, body |-> body]
  OBVIOUS
<1>4. IsReply(r) /\ r.to = n /\ r \in [to : 1 .. calls, body : Bodies]
  BY <1>2, <1>3 DEF IsReply
<1>5. sending' = sending \o FrameOf(r) /\ replies' = replies \cup {r}
  BY <1>1, <1>3, Zenon
<1> QED
  BY <1>1, <1>2, <1>4, <1>5, Zenon

LEMMA TypeStep ==
  ASSUME TypeOK, InCall, Next
  PROVE  TypeOK' /\ InCall'
<1> USE ExchangeAssumption
<1>0. /\ calls \in Nat /\ wire \in Seq(Tagged(replies)) /\ sending \in Seq(Tagged(replies))
      /\ chunk \in Seq(Tagged(replies)) /\ <<>> \in Seq(Tagged(replies))
  <2>1. <<>> \in Seq(Tagged(replies))
    BY EmptySeq
  <2> QED
    BY <2>1 DEF TypeOK
<1>1. CASE Connect
  <2>1. /\ wire' = <<>> /\ sending' = <<>> /\ chunk' = <<>> /\ asked' = {} /\ replies' = {}
        /\ taken' = 0 /\ cut' = {} /\ given' = Nothing /\ calls' = calls /\ pc' = "idle"
        /\ session' = "up" /\ hasFd' = TRUE
    BY <1>1 DEF Connect, InCall
  <2>2. sessions' \in 0 .. MaxSessions /\ taken' \in 0 .. MaxTakes
    BY <1>1, <2>1 DEF Connect, TypeOK
  <2>3. /\ wire' \in Seq(Tagged(replies')) /\ sending' \in Seq(Tagged(replies'))
        /\ chunk' \in Seq(Tagged(replies'))
    BY <2>1, EmptySeq
  <2>4. given' \in [to : 0 .. calls', body : Seq(Byte), call : 0 .. calls']
    <3>1. 0 \in 0 .. calls /\ <<>> \in Seq(Byte)
      BY <1>0, EmptySeq
    <3> QED
      BY <2>1, <3>1 DEF Nothing
  <2>5. calls' \in 0 .. MaxCalls
    BY <2>1 DEF TypeOK
  <2>6. TypeOK'
    BY <2>1, <2>2, <2>3, <2>4, <2>5 DEF TypeOK
  <2>7. InCall'
    BY <2>1 DEF InCall
  <2> QED
    BY <2>6, <2>7
<1>2. CASE Disconnect
  <2>1. /\ session' = "closed" /\ hasFd' = FALSE /\ wire' = <<>> /\ sending' = <<>>
        /\ asked' = {} /\ UNCHANGED <<sessions, replies, taken, calls, pc, chunk, cut, given>>
    BY <1>2 DEF Disconnect, caller
  <2> QED
    BY <1>0, <2>1 DEF TypeOK, InCall
<1>3. CASE Send
  <2>1. /\ calls' = calls + 1 /\ asked' = asked \cup {calls + 1} /\ pc' = "enter"
        /\ chunk' = <<>> /\ calls < MaxCalls
        /\ UNCHANGED <<session, hasFd, sessions, wire, sending, replies, taken, cut, given>>
    BY <1>3 DEF Send, connection
  <2>2. calls' \in 0 .. MaxCalls /\ asked' \subseteq 1 .. calls'
    BY <1>0, <2>1 DEF TypeOK
  <2>3. replies' \subseteq [to : 1 .. calls', body : Bodies]
    BY <1>0, <2>1 DEF TypeOK
  <2>4. given' \in [to : 0 .. calls', body : Seq(Byte), call : 0 .. calls']
    BY <1>0, <2>1 DEF TypeOK
  <2>5. TypeOK'
    BY <1>0, <2>1, <2>2, <2>3, <2>4 DEF TypeOK
  <2>6. InCall'
    BY <1>0, <2>1, NoEtxAtAll DEF InCall
  <2> QED
    BY <2>5, <2>6
<1>4. ASSUME Throw, UNCHANGED <<connection, board>>
      PROVE  TypeOK' /\ InCall'
  <2>1. cut' \subseteq replies
    BY <1>0, <1>4, TornShape DEF Throw
  <2>2. /\ pc' = "idle" /\ chunk' = <<>>
        /\ UNCHANGED <<session, hasFd, sessions, wire, sending, asked, replies, taken, calls, given>>
    BY <1>4 DEF Throw, connection, board
  <2> QED
    BY <1>0, <2>1, <2>2 DEF TypeOK, InCall
<1>5. CASE ReceiveEnter
  <2>1. CASE Throw
    BY <1>4, <1>5, <2>1 DEF ReceiveEnter
  <2>2. CASE ~ Throw
    <3>1. /\ pc' = "recv" /\ pc = "enter"
          /\ UNCHANGED <<session, hasFd, sessions, wire, sending, asked, replies, taken,
                         calls, chunk, cut, given>>
      BY <1>5, <2>2 DEF ReceiveEnter, connection, board
    <3> QED
      BY <3>1 DEF TypeOK, InCall
  <2> QED
    BY <2>1, <2>2
<1>6. CASE ReceiveByte
  <2>1. PICK T : T = Tagged(replies)
    OBVIOUS
  <2>2. wire \in Seq(T) /\ chunk \in Seq(T) /\ sending \in Seq(T) /\ wire # <<>>
    BY <1>0, <1>6, <2>1 DEF ReceiveByte
  <2>3. PICK b \in T : b = Head(wire)
    BY <2>2, FlowRead
  <2>4. Tail(wire) \in Seq(T) /\ Append(chunk, b) \in Seq(T)
    BY <2>2, <2>3, FlowRead
  <2>5. /\ wire' = Tail(wire) /\ chunk' = Append(chunk, b) /\ pc = "recv"
        /\ pc' = IF b.value = ETX THEN "parse" ELSE "enter"
        /\ UNCHANGED <<session, hasFd, sessions, sending, asked, replies, taken, calls, cut, given>>
    BY <1>6, <2>3 DEF ReceiveByte, connection
  <2>6. TypeOK'
    <3>1. wire' \in Seq(Tagged(replies')) /\ chunk' \in Seq(Tagged(replies'))
      BY <2>1, <2>4, <2>5
    <3> QED
      BY <2>5, <3>1 DEF TypeOK
  <2>7. /\ Len(chunk') > 0 /\ NoEtx(chunk', Len(chunk') - 1)
        /\ b.value # ETX => NoEtx(chunk', Len(chunk'))
    <3>1. NoEtx(chunk, Len(chunk))
      BY <2>5 DEF InCall
    <3> QED
      BY <2>2, <2>5, <3>1, NoEtxYet
  <2>8. InCall'
    BY <2>5, <2>7 DEF InCall
  <2> QED
    BY <2>6, <2>8
<1>7. CASE ReceiveFails
  BY <1>4, <1>7 DEF ReceiveFails
<1>8. CASE Parse
  <2>1. CASE Throw
    BY <1>4, <1>8, <2>1 DEF Parse
  <2>2. CASE ~ Throw
    <3>1. PICK d, first :
            /\ d = parseFrame(Values(chunk)).data /\ first = chunk[1]
            /\ given' = [to |-> first.of.to, body |-> d, call |-> calls]
            /\ pc = "parse" /\ pc' = "idle" /\ chunk' = <<>>
            /\ UNCHANGED <<session, hasFd, sessions, wire, sending, asked, replies, taken,
                           calls, cut>>
      BY <1>8, <2>2 DEF Parse, connection, board
    <3>2. d \in Seq(Byte)
      BY <1>0, <3>1, ValuesShape, ParsedShape
    <3>3. first.of.to \in 0 .. calls
      <4>1. first \in Tagged(replies)
        <5>1. Len(chunk) > 0
          BY <3>1 DEF InCall
        <5> QED
          BY <1>0, <3>1, <5>1
      <4>2. first.of \in replies
        BY <4>1, TaggedParts
      <4>3. first.of.to \in 1 .. calls
        BY <4>2, RepliesShape
      <4> QED
        BY <1>0, <4>3
    <3>4. given' \in [to : 0 .. calls', body : Seq(Byte), call : 0 .. calls']
      BY <1>0, <3>1, <3>2, <3>3
    <3> QED
      BY <1>0, <3>1, <3>4 DEF TypeOK, InCall
  <2> QED
    BY <2>1, <2>2
<1>9. CASE ReaderTakes
  <2>1. /\ wire' = <<>> /\ taken' = taken + 1 /\ taken < MaxTakes
        /\ UNCHANGED <<session, hasFd, sessions, sending, asked, replies, calls, pc, chunk, cut, given>>
    BY <1>9 DEF ReaderTakes, connection, caller
  <2>2. taken' \in 0 .. MaxTakes
    BY <2>1 DEF TypeOK
  <2> QED
    BY <1>0, <2>1, <2>2 DEF TypeOK, InCall
<1>10. CASE ReaderLoses
  BY <1>10 DEF ReaderLoses, TypeOK, InCall, board, caller
<1>11. CASE ReaderCloses
  BY <1>11 DEF ReaderCloses, TypeOK, InCall, board, caller
<1>12. CASE BoardReplies
  <2>1. PICK n, r :
          /\ n \in asked /\ IsReply(r) /\ r.to = n /\ n \in 1 .. calls /\ r \in [to : 1 .. calls, body : Bodies]
          /\ asked' = {m \in asked : m > n}
          /\ sending' = sending \o FrameOf(r) /\ replies' = replies \cup {r}
    BY <1>12, BoardReply, Zenon
  <2>2. PICK Q : Q = replies' /\ r \in Q /\ replies \subseteq Q
    BY <2>1
  <2>3. PICK T : T = Tagged(Q) /\ wire \in Seq(T) /\ sending \in Seq(T) /\ chunk \in Seq(T)
    BY <1>0, <2>2, TaggedGrow, Zenon
  <2>4. FrameOf(r) \in Seq(T)
    BY <2>1, <2>2, <2>3, FrameOfShape
  <2>5. sending \o FrameOf(r) \in Seq(T)
    BY <2>3, <2>4, JoinShape
  <2>6. /\ UNCHANGED <<session, hasFd, sessions, wire, taken, calls, pc, chunk, cut, given>>
    BY <1>12 DEF BoardReplies, connection, caller
  <2>7. /\ wire' \in Seq(Tagged(replies')) /\ sending' \in Seq(Tagged(replies'))
        /\ chunk' \in Seq(Tagged(replies'))
    BY <2>1, <2>2, <2>3, <2>5, <2>6
  <2>8. replies' \subseteq [to : 1 .. calls', body : Bodies] /\ cut' \subseteq replies'
    BY <2>1, <2>6 DEF TypeOK
  <2>9. asked' \subseteq 1 .. calls'
    BY <2>1, <2>6 DEF TypeOK
  <2> QED
    BY <2>6, <2>7, <2>8, <2>9 DEF TypeOK, InCall
<1>13. CASE BoardSends
  <2>1. PICK T : T = Tagged(replies) /\ wire \in Seq(T) /\ sending \in Seq(T)
    BY <1>0
  <2>2. PICK k \in 1 .. Len(sending) :
          /\ wire' = wire \o SubSeq(sending, 1, k)
          /\ sending' = SubSeq(sending, k + 1, Len(sending))
    BY <1>13 DEF BoardSends
  <2>3. wire' \in Seq(T) /\ sending' \in Seq(T)
    BY <2>1, <2>2, FlowSent
  <2>4. UNCHANGED <<session, hasFd, sessions, asked, replies, taken, calls, pc, chunk, cut, given>>
    BY <1>13 DEF BoardSends, connection, caller
  <2>5. wire' \in Seq(Tagged(replies')) /\ sending' \in Seq(Tagged(replies'))
    BY <2>1, <2>3, <2>4
  <2> QED
    BY <2>4, <2>5 DEF TypeOK, InCall
<1> QED
  BY <1>1, <1>2, <1>3, <1>5, <1>6, <1>7, <1>8, <1>9, <1>10, <1>11, <1>12, <1>13
     DEF Next, Application, SendCommand, Reader, Board

-----------------------------------------------------------------------------
(* The board answers a request only after those before it.                 *)
Answers == \A r \in replies : \A n \in asked : r.to < n

(***************************************************************************)
(* While the reader took nothing, what is on its way are, whole and in     *)
(* order, replies to requests after the one whose reply was returned last; *)
(* only the reply that was cut may come without its front.                 *)
(***************************************************************************)
InOrder ==
  taken = 0 =>
    /\ \A n \in asked : given.to < n
    /\ Ordered(Flow(chunk, wire, sending))
    /\ Later(Flow(chunk, wire, sending), given.to, cut)

IInv == TypeOK /\ InCall /\ Answers /\ InOrder

LEMMA Begins == Init => IInv
<1> SUFFICES ASSUME Init  PROVE IInv
  OBVIOUS
<1>1. TypeOK
  <2>1. 0 \in 0 .. MaxSessions /\ 0 \in 0 .. MaxCalls /\ 0 \in 0 .. MaxTakes
    BY ExchangeAssumption
  <2>2. /\ wire \in Seq(Tagged(replies)) /\ sending \in Seq(Tagged(replies))
        /\ chunk \in Seq(Tagged(replies))
    BY EmptySeq DEF Init
  <2>3. given \in [to : 0 .. calls, body : Seq(Byte), call : 0 .. calls]
    BY EmptySeq DEF Init, Nothing
  <2> QED
    BY <2>1, <2>2, <2>3 DEF Init, TypeOK
<1>2. InCall
  BY DEF Init, InCall
<1>3. Answers
  BY DEF Init, Answers
<1>4. Flow(chunk, wire, sending) = <<>>
  BY FlowNothing DEF Init
<1>5. InOrder
  BY <1>4, NothingIsOrdered DEF Init, InOrder
<1> QED
  BY <1>1, <1>2, <1>3, <1>5 DEF IInv

(* What a call that returns gets.                                          *)
LEMMA ParseGives ==
  ASSUME IInv, pc = "parse", taken = 0,
         NEW b, b = parseFrame(Values(chunk)).data, b # <<>>
  PROVE  \E r \in replies : /\ r = chunk[1].of /\ r.to \in Nat
                            /\ Ordered(Flow(<<>>, wire, sending))
                            /\ Later(Flow(<<>>, wire, sending), r.to, cut)
                            /\ \/ r \notin cut /\ r.to > given.to /\ b = r.body
                               \/ r \in cut /\ r.to >= given.to /\ b \in Hidden[r.body]
<1>1. /\ chunk \in Seq(Tagged(replies)) /\ wire \in Seq(Tagged(replies))
      /\ sending \in Seq(Tagged(replies)) /\ cut \subseteq replies
      /\ AreReplies(replies)
  BY RepliesShape DEF IInv, TypeOK
<1>2. PICK g \in Int : g = given.to
  <2>1. given.to \in 0 .. calls /\ calls \in Nat
    BY RepliesShape DEF IInv, TypeOK
  <2> QED
    BY <2>1
<1>3. /\ Ordered(Flow(chunk, wire, sending)) /\ Later(Flow(chunk, wire, sending), g, cut)
      /\ Len(chunk) > 0 /\ NoEtx(chunk, Len(chunk) - 1)
  BY <1>2 DEF IInv, InOrder, InCall
<1>4. \E r \in replies : /\ r = chunk[1].of /\ IsReply(r)
                         /\ Ordered(Flow(<<>>, wire, sending))
                         /\ Later(Flow(<<>>, wire, sending), r.to, cut)
                         /\ \/ r \notin cut /\ r.to > g /\ b = r.body
                            \/ r \in cut /\ r.to >= g /\ b \in Hidden[r.body]
  BY <1>1, <1>3, FlowGiven
<1> QED
  BY <1>2, <1>4 DEF IsReply

LEMMA OrderStep ==
  ASSUME IInv, Next
  PROVE  Answers' /\ InOrder'
<1> USE ExchangeAssumption
<1>0. /\ TypeOK /\ InCall /\ Answers /\ InOrder
      /\ chunk \in Seq(Tagged(replies)) /\ wire \in Seq(Tagged(replies))
      /\ sending \in Seq(Tagged(replies))
      /\ AreReplies(replies) /\ given.to \in Int
  <2>1. given.to \in 0 .. calls /\ calls \in Nat
    BY RepliesShape DEF IInv, TypeOK
  <2> QED
    BY <2>1, RepliesShape DEF IInv, TypeOK
<1>1. ASSUME chunk' = <<>>, wire' = <<>>, sending' = <<>>, asked' = {}
      PROVE  Answers' /\ InOrder'
  <2>1. Flow(chunk, wire, sending)' = <<>>
    BY <1>1, FlowNothing
  <2> QED
    BY <1>1, <2>1, NothingIsOrdered DEF Answers, InOrder
<1>2. CASE Connect
  BY <1>0, <1>1, <1>2 DEF Connect, InCall
<1>3. CASE Disconnect
  BY <1>0, <1>1, <1>3 DEF Disconnect, InCall, caller
<1>4. CASE Send
  <2>1. /\ UNCHANGED <<given, replies, taken, chunk, wire, sending, cut>>
        /\ asked' = asked \cup {calls + 1} /\ calls \in Nat
    BY <1>0, <1>4, RepliesShape DEF Send, InCall
  <2>2. \A r \in replies : r.to < calls + 1
    BY <1>0, <2>1, RepliesShape
  <2>3. Answers'
    BY <1>0, <2>1, <2>2 DEF Answers
  <2>4. given.to < calls + 1
    BY <1>0, <2>1 DEF TypeOK
  <2>5. Flow(chunk, wire, sending)' = Flow(chunk, wire, sending)
    BY <2>1
  <2>6. InOrder'
    BY <1>0, <2>1, <2>4, <2>5 DEF InOrder
  <2> QED
    BY <2>3, <2>6
<1>5. ASSUME Throw, UNCHANGED <<connection, board>>
      PROVE  Answers' /\ InOrder'
  <2>1. /\ chunk' = <<>> /\ cut' = Torn(wire \o sending)
        /\ UNCHANGED <<wire, sending, replies, asked, taken, given>>
    BY <1>5 DEF Throw, board
  <2>2. Answers'
    BY <1>0, <2>1 DEF Answers
  <2>3. ASSUME taken = 0
        PROVE  /\ Ordered(Flow(<<>>, wire, sending))
               /\ Later(Flow(<<>>, wire, sending), given.to, Torn(wire \o sending))
    <3>1. PICK g \in Int : g = given.to
      BY <1>0
    <3>2. Ordered(Flow(chunk, wire, sending)) /\ Later(Flow(chunk, wire, sending), g, cut)
      BY <1>0, <2>3, <3>1 DEF InOrder
    <3>3. /\ Ordered(Flow(<<>>, wire, sending))
          /\ Later(Flow(<<>>, wire, sending), g, Torn(wire \o sending))
      BY <1>0, <3>2, FlowDropped
    <3> QED
      BY <3>1, <3>3
  <2>4. Flow(chunk, wire, sending)' = Flow(<<>>, wire, sending)
    BY <2>1
  <2> QED
    BY <1>0, <2>1, <2>2, <2>3, <2>4 DEF InOrder
<1>6. ASSUME Flow(chunk, wire, sending)' = Flow(chunk, wire, sending),
             UNCHANGED <<replies, asked, taken, given, cut>>
      PROVE  Answers' /\ InOrder'
  BY <1>0, <1>6 DEF Answers, InOrder
<1>7. CASE ReceiveEnter
  <2>1. CASE Throw
    BY <1>5, <1>7, <2>1 DEF ReceiveEnter
  <2>2. CASE ~ Throw
    <3>1. UNCHANGED <<wire, sending, replies, asked, taken, given, cut, chunk>>
      BY <1>7, <2>2 DEF ReceiveEnter, board
    <3>2. Flow(chunk, wire, sending)' = Flow(chunk, wire, sending)
      BY <3>1
    <3> QED
      BY <3>1, <3>2, <1>6
  <2> QED
    BY <2>1, <2>2
<1>8. CASE ReceiveByte
  <2>1. Flow(Append(chunk, Head(wire)), Tail(wire), sending) = Flow(chunk, wire, sending)
    <3>1. PICK T : T = Tagged(replies) /\ chunk \in Seq(T) /\ wire \in Seq(T) /\ sending \in Seq(T)
      BY <1>0, Zenon
    <3>2. wire # <<>>
      BY <1>8 DEF ReceiveByte
    <3> QED
      BY <3>1, <3>2, FlowRead
  <2>2. /\ chunk' = Append(chunk, Head(wire)) /\ wire' = Tail(wire)
        /\ UNCHANGED <<sending, replies, asked, taken, given, cut>>
    BY <1>8 DEF ReceiveByte
  <2>3. Flow(chunk, wire, sending)' = Flow(chunk, wire, sending)
    BY <2>1, <2>2
  <2> QED
    BY <2>2, <2>3, <1>6
<1>9. CASE ReceiveFails
  BY <1>5, <1>9 DEF ReceiveFails
<1>10. CASE Parse
  <2>1. CASE Throw
    BY <1>5, <1>10, <2>1 DEF Parse
  <2>2. CASE ~ Throw
    <3>1. PICK b, q :
            /\ b = parseFrame(Values(chunk)).data /\ b # <<>> /\ q = chunk[1].of.to
            /\ given' = [to |-> q, body |-> b, call |-> calls]
            /\ pc = "parse" /\ chunk' = <<>>
            /\ UNCHANGED <<wire, sending, asked, replies, taken, cut>>
      BY <1>10, <2>2 DEF Parse, board
    <3>2. Answers'
      BY <1>0, <3>1 DEF Answers
    <3>3. ASSUME taken = 0
          PROVE  /\ \A n \in asked : q < n
                 /\ Ordered(Flow(<<>>, wire, sending)) /\ Later(Flow(<<>>, wire, sending), q, cut)
      <4>1. PICK r \in replies : /\ r = chunk[1].of
                                 /\ Ordered(Flow(<<>>, wire, sending))
                                 /\ Later(Flow(<<>>, wire, sending), r.to, cut)
        BY <3>1, <3>3, ParseGives
      <4>2. q = r.to
        BY <3>1, <4>1
      <4>3. \A n \in asked : r.to < n
        BY <1>0 DEF Answers
      <4> QED
        BY <4>1, <4>2, <4>3
    <3>4. Flow(chunk, wire, sending)' = Flow(<<>>, wire, sending)
      BY <3>1
    <3>5. given'.to = q
      BY <3>1
    <3>6. InOrder'
      BY <3>1, <3>3, <3>4, <3>5 DEF InOrder
    <3> QED
      BY <3>2, <3>6
  <2> QED
    BY <2>1, <2>2
<1>11. CASE ReaderTakes
  <2>1. taken' = taken + 1 /\ taken \in Nat /\ UNCHANGED <<asked, replies>>
    BY <1>0, <1>11 DEF ReaderTakes, TypeOK
  <2>2. taken' # 0
    BY <2>1
  <2> QED
    BY <1>0, <2>1, <2>2 DEF Answers, InOrder
<1>12. CASE ReaderLoses
  BY <1>6, <1>12 DEF ReaderLoses, board, caller
<1>13. CASE ReaderCloses
  BY <1>6, <1>13 DEF ReaderCloses, board, caller
<1>14. CASE BoardReplies
  <2>1. PICK n, r :
          /\ n \in asked /\ IsReply(r) /\ r.to = n /\ n \in 1 .. calls
          /\ asked' = {m \in asked : m > n}
          /\ sending' = sending \o FrameOf(r) /\ replies' = replies \cup {r}
    BY <1>0, <1>14, BoardReply, Zenon
  <2>2. n \in Nat /\ asked \subseteq Nat
    BY <1>0, <2>1, RepliesShape DEF TypeOK
  <2>3. \A x \in replies : x.to < n /\ x.to \in Nat
    BY <1>0, <2>1, RepliesShape DEF Answers
  <2>4. Answers'
    <3>1. \A x \in replies' : x.to \in Nat /\ x.to <= n
      BY <2>1, <2>2, <2>3
    <3>2. \A m \in asked' : m \in Nat /\ m > n
      BY <2>1, <2>2
    <3> QED
      BY <2>2, <3>1, <3>2 DEF Answers
  <2>5. UNCHANGED <<wire, taken, chunk, cut, given>>
    BY <1>14 DEF BoardReplies, caller
  <2>6. PICK f : f = Flow(chunk, wire, sending) /\ f \in Seq(Tagged(replies))
    BY <1>0, FlowType
  <2>7. Flow(chunk, wire, sending)' = f \o FrameOf(r)
    <3>1. PICK Q : Q = replies \cup {r} /\ r \in Q /\ replies \subseteq Q
      <4>1. r \in replies \cup {r} /\ replies \subseteq replies \cup {r}
        OBVIOUS
      <4> QED
        BY <4>1, Zenon
    <3>2. PICK T : T = Tagged(Q) /\ wire \in Seq(T) /\ sending \in Seq(T) /\ chunk \in Seq(T)
      BY <1>0, <3>1, TaggedGrow, Zenon
    <3>3. PICK x \in Seq(T) : x = FrameOf(r)
      BY <2>1, <3>1, <3>2, FrameOfShape
    <3>4. Flow(chunk, wire, sending \o x) = Flow(chunk, wire, sending) \o x
      BY <3>2, FlowMore, ZenonT(60)
    <3>5. Flow(chunk, wire, sending)' = Flow(chunk, wire, sending \o FrameOf(r))
      BY <2>1, <2>5
    <3> QED
      BY <3>3, <3>4, <3>5, <2>6, Zenon
  <2>8. ASSUME taken = 0
        PROVE  Ordered(f \o FrameOf(r)) /\ Later(f \o FrameOf(r), given.to, cut)
    <3>1. Ordered(f) /\ Later(f, given.to, cut) /\ r.to > given.to
      BY <1>0, <2>1, <2>2, <2>6, <2>8 DEF InOrder
    <3>2. \A x \in replies : r.to > x.to
      BY <2>1, <2>2, <2>3
    <3>3. Ordered(f \o FrameOf(r))
      BY <1>0, <2>1, <2>6, <3>1, <3>2, OrderedGrow
    <3>4. PICK g \in Int : g = given.to
      BY <1>0
    <3>5. PICK C \in SUBSET replies : C = cut
      BY <1>0 DEF TypeOK
    <3>6. Later(f \o FrameOf(r), g, C)
      BY <1>0, <2>1, <2>6, <3>1, <3>2, <3>4, <3>5, LaterGrow
    <3> QED
      BY <3>3, <3>4, <3>5, <3>6
  <2>9. InOrder'
    <3>1. \A m \in asked' : m \in asked
      BY <2>1
    <3> QED
      BY <1>0, <2>5, <2>7, <2>8, <3>1 DEF InOrder
  <2> QED
    BY <2>4, <2>9
<1>15. CASE BoardSends
  <2>1. PICK k \in 1 .. Len(sending) :
          /\ wire' = wire \o SubSeq(sending, 1, k)
          /\ sending' = SubSeq(sending, k + 1, Len(sending))
    BY <1>15 DEF BoardSends
  <2>2. UNCHANGED <<replies, asked, taken, given, chunk, cut>>
    BY <1>15 DEF BoardSends, caller
  <2>3. PICK T : chunk \in Seq(T) /\ wire \in Seq(T) /\ sending \in Seq(T)
    BY <1>0, Zenon
  <2>4. Flow(chunk, wire \o SubSeq(sending, 1, k), SubSeq(sending, k + 1, Len(sending)))
          = Flow(chunk, wire, sending)
    BY <2>3, FlowSent
  <2>5. Flow(chunk, wire, sending)' = Flow(chunk, wire, sending)
    BY <2>1, <2>2, <2>4
  <2> QED
    BY <2>2, <2>5, <1>6
<1> QED
  BY <1>2, <1>3, <1>4, <1>7, <1>8, <1>9, <1>10, <1>11, <1>12, <1>13, <1>14, <1>15
     DEF Next, Application, SendCommand, Reader, Board

LEMMA Invariance == Spec => []IInv
<1>1. IInv /\ [Next]_vars => IInv'
  <2> SUFFICES ASSUME IInv, [Next]_vars  PROVE IInv'
    OBVIOUS
  <2>1. CASE Next
    BY <2>1, TypeStep, OrderStep DEF IInv
  <2>2. CASE UNCHANGED vars
    BY <2>2 DEF vars, connection, board, caller, IInv, TypeOK, InCall, Answers, InOrder
  <2> QED
    BY <2>1, <2>2
<1> QED
  BY <1>1, Begins, PTL DEF Spec

(***************************************************************************)
(* The state of the exchange is of its type.                               *)
(***************************************************************************)
THEOREM ExchangeTypes == Spec => []TypeOK
<1>1. IInv => TypeOK
  BY DEF IInv
<1> QED
  BY <1>1, Invariance, PTL

-----------------------------------------------------------------------------
(* A call gives up: the reply it has cut was not returned yet.             *)
LEMMA FailStep ==
  ASSUME IInv, pc # "idle", Throw, UNCHANGED <<connection, board>>
  PROVE  Service!Fail
<1>1. /\ cut' = Torn(wire \o sending) /\ pc' = "idle"
      /\ UNCHANGED <<session, calls, asked, replies, taken, given>>
  BY DEF Throw, connection, board
<1>2. /\ chunk \in Seq(Tagged(replies)) /\ wire \in Seq(Tagged(replies))
      /\ sending \in Seq(Tagged(replies)) /\ AreReplies(replies) /\ taken \in Nat
  BY RepliesShape, ExchangeAssumption DEF IInv, TypeOK
<1>3. PICK g \in Int : g = given.to
  <2>1. given.to \in 0 .. calls /\ calls \in Nat
    BY RepliesShape DEF IInv, TypeOK
  <2> QED
    BY <2>1
<1>4. ASSUME taken = 0
      PROVE  \A x \in Torn(wire \o sending) : x.to > g \/ x \in cut
  <2>1. Ordered(Flow(chunk, wire, sending)) /\ Later(Flow(chunk, wire, sending), g, cut)
    BY <1>3, <1>4 DEF IInv, InOrder
  <2> QED
    BY <1>2, <2>1, FlowDropped
<1>5. Torn(wire \o sending) \subseteq replies
  BY <1>2, TornShape
<1>6. \/ cut' = {}
      \/ \E r \in replies : (r.to > g \/ r \in cut \/ taken > 0) /\ cut' = {r}
  <2>1. CASE Torn(wire \o sending) = {}
    BY <1>1, <2>1
  <2>2. CASE Torn(wire \o sending) # {}
    <3>1. PICK r : Torn(wire \o sending) = {r}
      BY <2>2 DEF Torn
    <3>2. r \in replies /\ cut' = {r} /\ (taken = 0 => r.to > g \/ r \in cut)
      BY <3>1, <1>1, <1>4, <1>5
    <3>3. taken = 0 \/ taken > 0
      BY <1>2
    <3> QED
      BY <3>2, <3>3
  <2> QED
    BY <2>1, <2>2
<1> QED
  BY <1>1, <1>3, <1>6 DEF Service!Fail

(* A call returns: a reply, or what is hidden in the rest of the cut one.  *)
LEMMA GiveStep ==
  ASSUME IInv, Parse, ~ Throw
  PROVE  Service!Give
<1>1. PICK b, q :
        /\ b = parseFrame(Values(chunk)).data /\ b # <<>> /\ q = chunk[1].of.to
        /\ given' = [to |-> q, body |-> b, call |-> calls]
        /\ pc = "parse" /\ pc' = "idle"
        /\ UNCHANGED <<session, calls, asked, replies, taken, cut>>
  BY DEF Parse, connection, board
<1>2. PICK h : h = [to |-> given.to, body |-> given.body]' /\ h = [to |-> q, body |-> b]
  BY <1>1
<1>3. taken \in Nat
  BY ExchangeAssumption DEF IInv, TypeOK
<1>4. CASE taken # 0
  BY <1>1, <1>3, <1>4 DEF Service!Give
<1>5. CASE taken = 0
  <2>1. PICK r \in replies :
          /\ r = chunk[1].of
          /\ \/ r \notin cut /\ r.to > given.to /\ b = r.body
             \/ r \in cut /\ r.to >= given.to /\ b \in Hidden[r.body]
    BY <1>1, <1>5, ParseGives
  <2>2. q = r.to /\ r = [to |-> r.to, body |-> r.body]
    BY <1>1, <2>1, RepliesShape DEF IInv
  <2>3. CASE r \notin cut /\ r.to > given.to /\ b = r.body
    <3>1. h = r
      BY <1>2, <2>2, <2>3
    <3> QED
      BY <1>1, <1>2, <2>3, <3>1 DEF Service!Give
  <2>4. CASE r \in cut /\ r.to >= given.to /\ b \in Hidden[r.body]
    <3>1. h = [to |-> r.to, body |-> b]
      BY <1>2, <2>2
    <3> QED
      BY <1>1, <1>2, <2>4, <3>1 DEF Service!Give
  <2> QED
    BY <2>1, <2>3, <2>4
<1> QED
  BY <1>4, <1>5

(* Each step is one of the service, or none.                               *)
LEMMA ServiceStep ==
  ASSUME IInv, Next
  PROVE  [Service!Next]_(Service!vars)
<1> USE DEF Service!vars, connection, board, caller
<1>0. TypeOK /\ InCall /\ Answers /\ InOrder /\ taken \in Nat
  BY ExchangeAssumption DEF IInv, TypeOK
<1>1. CASE Connect
  <2>1. Service!Open
    BY <1>0, <1>1 DEF Connect, InCall, Nothing, Service!Open, Service!Nothing
  <2> QED
    BY <2>1 DEF Service!Next
<1>2. CASE Disconnect
  <2>1. Service!Close
    BY <1>2 DEF Disconnect, Service!Close
  <2> QED
    BY <2>1 DEF Service!Next
<1>3. CASE Send
  <2>1. Service!Ask
    BY <1>3 DEF Send, Service!Ask
  <2> QED
    BY <2>1 DEF Service!Next
<1>4. CASE ReceiveEnter
  <2>1. CASE Throw
    <3>1. Service!Fail
      BY <1>4, <2>1, FailStep DEF ReceiveEnter
    <3> QED
      BY <3>1 DEF Service!Next
  <2>2. CASE ~ Throw
    <3>1. pc = "enter" /\ pc' = "recv" /\ UNCHANGED <<connection, board, calls, cut, given>>
      BY <1>4, <2>2 DEF ReceiveEnter
    <3> QED
      BY <3>1
  <2> QED
    BY <2>1, <2>2
<1>5. CASE ReceiveByte
  BY <1>5 DEF ReceiveByte
<1>6. CASE ReceiveFails
  <2>1. Service!Fail
    BY <1>6, FailStep DEF ReceiveFails
  <2> QED
    BY <2>1 DEF Service!Next
<1>7. CASE Parse
  <2>1. CASE Throw
    <3>1. Service!Fail
      BY <1>7, <2>1, FailStep DEF Parse
    <3> QED
      BY <3>1 DEF Service!Next
  <2>2. CASE ~ Throw
    <3>1. Service!Give
      BY <1>7, <2>2, GiveStep
    <3> QED
      BY <3>1 DEF Service!Next
  <2> QED
    BY <2>1, <2>2
<1>8. CASE ReaderTakes
  <2>1. Service!Rob
    BY <1>0, <1>8 DEF ReaderTakes, Service!Rob
  <2> QED
    BY <2>1 DEF Service!Next
<1>9. CASE ReaderLoses
  <2>1. Service!Lose
    BY <1>9 DEF ReaderLoses, Service!Lose
  <2> QED
    BY <2>1 DEF Service!Next
<1>10. CASE ReaderCloses
  BY <1>10 DEF ReaderCloses
<1>11. CASE BoardReplies
  <2>1. Service!Reply
    BY <1>11 DEF BoardReplies, Service!Reply
  <2> QED
    BY <2>1 DEF Service!Next
<1>12. CASE BoardSends
  BY <1>12 DEF BoardSends
<1> QED
  BY <1>1, <1>2, <1>3, <1>4, <1>5, <1>6, <1>7, <1>8, <1>9, <1>10, <1>11, <1>12
     DEF Next, Application, SendCommand, Reader, Board

(***************************************************************************)
(* Whatever the replies say, each step of sendCommand(), of the reader     *)
(* thread and of the board is one a CommandService may take, or none that  *)
(* the application sees: as long as the reader took nothing, a call        *)
(* returns a whole reply of this session, to a later request than the one  *)
(* before it, wherever timeouts and ETX bytes cut the stream, or a frame   *)
(* hidden in the rest of the reply that was cut.                           *)
(***************************************************************************)
THEOREM ServiceRefined == Spec => ImplementsService
<1>1. Init => Service!Init
  BY DEF Init, Nothing, Service!Init, Service!Nothing
<1>2. IInv /\ [Next]_vars => [Service!Next]_(Service!vars)
  <2> SUFFICES ASSUME IInv, [Next]_vars  PROVE [Service!Next]_(Service!vars)
    OBVIOUS
  <2>1. CASE Next
    BY <2>1, ServiceStep
  <2>2. CASE UNCHANGED vars
    BY <2>2 DEF vars, connection, board, caller, Service!vars
  <2> QED
    BY <2>1, <2>2
<1> QED
  BY <1>1, <1>2, Invariance, PTL DEF Spec, ImplementsService, Service!Spec
=============================================================================
