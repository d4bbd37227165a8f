-------------------------- MODULE TCPChannelProofs --------------------------
(***************************************************************************)
(* A connection, for any number of messages, any size of the receiver's    *)
(* buffer, however the network takes and hands out the bytes and whichever *)
(* calls fail.  Without a send timeout                                     *)
(*  - the stream of ofxTCPClient::send is never cut inside a message;      *)
(*  - the Processing client reads in its lines the messages sent;          *)
(*  - the two ends implement LossyQueue.                                   *)
(* The types hold with a send timeout too.                                 *)
(*                                                                         *)
(* The receiver is followed by counting the bytes that are no zeros: of    *)
(* the first a bytes of the stream Clean(a) are none, the c-th of them is  *)
(* at Place(c), and the receiver holds those after the 5 of each message   *)
(* it has returned.                                                        *)
(***************************************************************************)
EXTENDS TCPChannel, SequenceTheorems, LeastNumber, TLAPS

\* The types of the sender's half.
SenderTypeOK ==
  /\ offered \in 0 .. MaxMessages
  /\ partialPrevMsg \in Seq(Byte)
  /\ stream \in Seq(Byte)
  /\ sent \in Seq(1 .. MaxMessages)

\* Concatenation of bytes is associative.
LEMMA BytesAssociative ==
  \A a, b, c \in Seq(Byte) : (a \o b) \o c = a \o (b \o c)
BY ConcatAssociative

\* The library's facts about concatenation, for bytes.
LEMMA BytesConcat ==
  ASSUME NEW a \in Seq(Byte), NEW b \in Seq(Byte)
  PROVE  /\ a \o b \in Seq(Byte)
         /\ Len(a \o b) = Len(a) + Len(b)
         /\ \A i \in 1 .. Len(a) + Len(b) :
              (a \o b)[i] = IF i <= Len(a) THEN a[i] ELSE b[i - Len(a)]
BY ConcatProperties

\* A frame has six bytes.
LEMMA FrameType ==
  ASSUME NEW m \in Nat \ {0}
  PROVE  /\ Frame(m) \in Seq(Byte)
         /\ Len(Frame(m)) = FrameLength
         /\ FrameLength = 6
BY DEF Frame, Text, EndMsg, FrameLength, Newline, Zero, Byte

\* Byte i of the frames is byte (i - 1) % 6 + 1 of frame (i - 1) \div 6 + 1.
LEMMA FramesType ==
  ASSUME NEW s \in Seq(1 .. MaxMessages)
  PROVE  /\ Frames(s) \in Seq(Byte)
         /\ Len(Frames(s)) = 6 * Len(s)
         /\ \A i \in 1 .. 6 * Len(s) :
              Frames(s)[i] = Frame(s[((i - 1) \div 6) + 1])[((i - 1) % 6) + 1]
<1>1. FrameLength = 6
  BY FrameType, 1 \in Nat \ {0}
<1>2. Len(s) \in Nat /\ 6 * Len(s) \in Nat
  BY LenProperties
<1>3. Frames(s) = [i \in 1 .. 6 * Len(s) |->
                     Frame(s[((i - 1) \div 6) + 1])[((i - 1) % 6) + 1]]
  BY <1>1 DEF Frames
<1>4. ASSUME NEW i \in 1 .. 6 * Len(s)
      PROVE  Frame(s[((i - 1) \div 6) + 1])[((i - 1) % 6) + 1] \in Byte
  <2>1. ((i - 1) \div 6) + 1 \in 1 .. Len(s)
    BY <1>2
  <2>2. ((i - 1) % 6) + 1 \in 1 .. 6
    BY <1>2
  <2>3. s[((i - 1) \div 6) + 1] \in Nat \ {0}
    BY <2>1, ElementOfSeq, ChannelAssumption DEF ChannelAssumption
  <2>4. Frame(s[((i - 1) \div 6) + 1]) \in Seq(Byte)
        /\ Len(Frame(s[((i - 1) \div 6) + 1])) = 6
    BY <2>3, FrameType
  <2> QED BY <2>2, <2>4, ElementOfSeq
<1>5. Frames(s) \in [1 .. 6 * Len(s) -> Byte]
  BY <1>3, <1>4
<1>6. Frames(s) \in Seq(Byte) /\ Len(Frames(s)) = 6 * Len(s)
  BY <1>2, <1>5
<1> QED BY <1>3, <1>6

\* The frames of one more message are the frames before and its own.
LEMMA FramesAppend ==
  ASSUME NEW s \in Seq(1 .. MaxMessages), NEW m \in 1 .. MaxMessages
  PROVE  Frames(Append(s, m)) = Frames(s) \o Frame(m)
<1> DEFINE t == Append(s, m)
           n == Len(s)
<1>1. /\ t \in Seq(1 .. MaxMessages) /\ Len(t) = n + 1 /\ n \in Nat
      /\ \A i \in 1 .. n : t[i] = s[i]
      /\ t[n + 1] = m
  BY AppendProperties, LenProperties
<1>2. m \in Nat \ {0}
  BY ChannelAssumption DEF ChannelAssumption
<1>3. /\ Frame(m) \in Seq(Byte) /\ Len(Frame(m)) = 6
  BY <1>2, FrameType
<1>4. /\ Frames(s) \in Seq(Byte) /\ Len(Frames(s)) = 6 * n
      /\ \A i \in 1 .. 6 * n :
           Frames(s)[i] = Frame(s[((i - 1) \div 6) + 1])[((i - 1) % 6) + 1]
  BY FramesType
<1>5. /\ Frames(t) \in Seq(Byte) /\ Len(Frames(t)) = 6 * (n + 1)
      /\ \A i \in 1 .. 6 * (n + 1) :
           Frames(t)[i] = Frame(t[((i - 1) \div 6) + 1])[((i - 1) % 6) + 1]
  BY <1>1, FramesType
<1>6. /\ Frames(s) \o Frame(m) \in Seq(Byte)
      /\ Len(Frames(s) \o Frame(m)) = 6 * n + 6
      /\ \A i \in 1 .. 6 * n + 6 :
           (Frames(s) \o Frame(m))[i] =
             IF i <= 6 * n THEN Frames(s)[i] ELSE Frame(m)[i - 6 * n]
  <2> DEFINE a == Frames(s)
             b == Frame(m)
  <2>1. a \in Seq(Byte) /\ b \in Seq(Byte) /\ Len(a) = 6 * n /\ Len(b) = 6
    BY <1>3, <1>4
  <2> HIDE DEF a, b, n
  <2>2. /\ a \o b \in Seq(Byte)
        /\ Len(a \o b) = Len(a) + Len(b)
        /\ \A i \in 1 .. Len(a) + Len(b) :
             (a \o b)[i] = IF i <= Len(a) THEN a[i] ELSE b[i - Len(a)]
    BY <2>1, BytesConcat
  <2> QED BY <2>1, <2>2 DEF a, b
<1>7. ASSUME NEW i \in 1 .. 6 * (n + 1)
      PROVE  Frames(t)[i] = (Frames(s) \o Frame(m))[i]
  <2>1. CASE i <= 6 * n
    <3>1. ((i - 1) \div 6) + 1 \in 1 .. n
      BY <1>1, <2>1
    <3>2. i \in 1 .. 6 * n /\ i \in 1 .. 6 * n + 6
      BY <1>1, <2>1
    <3> QED BY <1>1, <1>4, <1>5, <1>6, <2>1, <3>1, <3>2
  <2>2. CASE i > 6 * n
    <3>1. ((i - 1) \div 6) + 1 = n + 1 /\ ((i - 1) % 6) + 1 = i - 6 * n
      BY <1>1, <2>2
    <3>2. i \in 1 .. 6 * n + 6 /\ ~(i <= 6 * n)
      BY <1>1, <2>2
    <3> QED BY <1>1, <1>5, <1>6, <3>1, <3>2
  <2>3. i <= 6 * n \/ i > 6 * n
    BY <1>1
  <2> QED BY <2>1, <2>2, <2>3
<1>8. Len(Frames(t)) = Len(Frames(s) \o Frame(m))
  BY <1>1, <1>5, <1>6
<1> HIDE DEF t, n
<1>9. Frames(t) = Frames(s) \o Frame(m)
  BY <1>5, <1>6, <1>7, <1>8, SeqEqual
<1> QED BY <1>9 DEF t

\* No messages have no frames.
LEMMA FramesEmpty == Frames(<< >>) = << >>
<1>1. << >> \in Seq(1 .. MaxMessages) /\ Len(<< >>) = 0
  OBVIOUS
<1>2. Frames(<< >>) \in Seq(Byte) /\ Len(Frames(<< >>)) = 6 * Len(<< >>)
  BY <1>1, FramesType
<1>3. Len(Frames(<< >>)) = 0
  BY <1>1, <1>2
<1> QED BY <1>2, <1>3, EmptySeq

\* What send takes out of a message and what it keeps make up the message.
LEMMA SendKeepsAll ==
  ASSUME NEW message \in Seq(Byte), NEW k \in 1 .. Len(message)
  PROVE  /\ SubSeq(message, 1, k) \in Seq(Byte)
         /\ SubSeq(message, k + 1, Len(message)) \in Seq(Byte)
         /\ SubSeq(message, 1, k) \o SubSeq(message, k + 1, Len(message)) = message
<1>1. Len(message) \in Nat /\ \A i \in 1 .. Len(message) : message[i] \in Byte
  BY LenProperties, ElementOfSeq
<1>2. SubSeq(message, 1, k) \in Seq(Byte)
  BY <1>1, SubSeqProperties
<1>3. SubSeq(message, k + 1, Len(message)) \in Seq(Byte)
  BY <1>1, SubSeqProperties
<1>4. SubSeq(message, 1, k) \o SubSeq(message, k + 1, Len(message))
        = SubSeq(message, 1, Len(message))
  BY <1>1, ConcatAdjacentSubSeq
<1> QED BY <1>2, <1>3, <1>4, SubSeqFull

\* send writes some of the rest and the new frame, and keeps the others.
LEMMA SendPreserves ==
  ASSUME SenderTypeOK, Framing, ~Timeouts, Send
  PROVE  SenderTypeOK' /\ Framing'
<1> DEFINE m == offered + 1
           message == partialPrevMsg \o Frame(m)
<1>1. m \in 1 .. MaxMessages /\ m \in Nat \ {0} /\ offered' = m
  BY ChannelAssumption DEF ChannelAssumption, SenderTypeOK, Send
<1>2. Frame(m) \in Seq(Byte)
  BY <1>1, FrameType
<1>3. message \in Seq(Byte)
  BY <1>2, ConcatProperties DEF SenderTypeOK
<1>4. PICK result \in SendAll(Len(message)) :
        /\ stream' = stream \o SubSeq(message, 1, result.total)
        /\ partialPrevMsg' = KeptBack(message, result.ret)
        /\ sent' = IF result.ret < 0 THEN sent ELSE Append(sent, m)
  BY DEF Send
<1>5. \/ result = [total |-> 0, ret |-> SOCKET_ERROR]
      \/ \E k \in 1 .. Len(message) : result = [total |-> k, ret |-> k]
  BY ~Timeouts DEF SendAll
<1> HIDE DEF message
<1>6. CASE result = [total |-> 0, ret |-> SOCKET_ERROR]
  <2>1. result.total = 0 /\ result.ret < 0
    BY <1>6 DEF SOCKET_ERROR
  <2>2. SubSeq(message, 1, 0) = << >>
    BY SubSeqEmpty
  <2>3. stream' = stream
    BY <1>4, <2>1, <2>2, ConcatEmptySeq DEF SenderTypeOK
  <2>4. partialPrevMsg' = partialPrevMsg /\ sent' = sent
    BY <1>4, <2>1 DEF KeptBack
  <2> QED BY <1>1, <2>3, <2>4 DEF SenderTypeOK, Framing
<1>7. ASSUME NEW k \in 1 .. Len(message), result = [total |-> k, ret |-> k]
      PROVE  SenderTypeOK' /\ Framing'
  <2> DEFINE out == SubSeq(message, 1, k)
             rest == SubSeq(message, k + 1, Len(message))
  <2>1. result.total = k /\ result.ret = k /\ ~(k < 0)
    BY <1>3, <1>7
  <2>2. stream' = stream \o out /\ partialPrevMsg' = rest /\ sent' = Append(sent, m)
    BY <1>4, <2>1 DEF KeptBack
  <2>3. out \in Seq(Byte) /\ rest \in Seq(Byte) /\ out \o rest = message
    BY <1>3, SendKeepsAll
  <2> HIDE DEF out, rest
  <2>4. stream' \o partialPrevMsg' = stream \o message
    BY <2>2, <2>3, BytesAssociative DEF SenderTypeOK
  <2>5. stream \o message = (stream \o partialPrevMsg) \o Frame(m)
    BY <1>2, BytesAssociative DEF SenderTypeOK, message
  <2>6. (stream \o partialPrevMsg) \o Frame(m) = Frames(Append(sent, m))
    BY <1>1, FramesAppend DEF SenderTypeOK, Framing
  <2>7. Framing'
    BY <2>2, <2>4, <2>5, <2>6 DEF Framing
  <2>8. SenderTypeOK'
    BY <1>1, <2>2, <2>3, ConcatProperties, AppendProperties DEF SenderTypeOK
  <2> QED BY <2>7, <2>8
<1> QED BY <1>5, <1>6, <1>7

\* Without a send timeout the wire and the rest kept back are always whole
\* frames of the messages for which send returned true.
THEOREM FramingCorrect == ASSUME ~Timeouts PROVE Spec => []Framing
<1>1. Init => SenderTypeOK /\ Framing
  <2> SUFFICES ASSUME Init PROVE SenderTypeOK /\ Framing
    OBVIOUS
  <2>1. SenderTypeOK
    BY ChannelAssumption DEF ChannelAssumption, Init, SenderTypeOK
  <2>2. << >> \o << >> = << >>
    OBVIOUS
  <2> QED BY <2>1, <2>2, FramesEmpty DEF Init, Framing
<1>2. SenderTypeOK /\ Framing /\ [Next]_channelVars => SenderTypeOK' /\ Framing'
  <2> SUFFICES ASSUME SenderTypeOK, Framing, [Next]_channelVars
               PROVE  SenderTypeOK' /\ Framing'
    OBVIOUS
  <2>1. CASE Send
    BY <2>1, SendPreserves
  <2>2. CASE UNCHANGED senderVars
    BY <2>2 DEF senderVars, SenderTypeOK, Framing
  <2> QED BY <2>1, <2>2 DEF Next, SenderCloses, Reset, Receive, channelVars
<1> QED BY <1>1, <1>2, PTL DEF Spec

-----------------------------------------------------------------------------
(* What removeZeros does.                                                  *)



\* The place in the stream of the c-th byte that is no zero, and how many of
\* the first a bytes are none: every sixth is.
Place(c) == c + ((c - 1) \div 5)
Clean(a) == a - (a \div 6)

\* The next byte that is no zero is the next byte, or the one after a zero.
LEMMA PlaceNext ==
  ASSUME NEW c \in Nat \ {0}
  PROVE  /\ Place(c) \in Nat \ {0} /\ Place(c) % 6 # 0
         /\ Place(c + 1) = IF (Place(c) + 1) % 6 = 0 THEN Place(c) + 2 ELSE Place(c) + 1
<1> DEFINE q == (c - 1) \div 5
           r == (c - 1) % 5
<1>1. q \in Nat /\ r \in 0 .. 4 /\ c = 5 * q + r + 1
  OBVIOUS
<1>2. Place(c) = 6 * q + r + 1
  BY <1>1 DEF Place
<1>3. Place(c + 1) = 6 * q + r + 2 + (IF r = 4 THEN 1 ELSE 0)
  <2>1. (c + 1) - 1 = 5 * q + r + 1
    BY <1>1
  <2> HIDE DEF q, r
  <2>2. (5 * q + r + 1) \div 5 = q + (IF r = 4 THEN 1 ELSE 0)
    BY <1>1
  <2> QED BY <1>1, <2>1, <2>2 DEF Place
<1> HIDE DEF q, r
<1>4. (6 * q + r + 1) % 6 = r + 1 /\ (6 * q + r + 2) % 6 = IF r = 4 THEN 0 ELSE r + 2
  BY <1>1
<1> QED BY <1>1, <1>2, <1>3, <1>4

\* Of the first a bytes, those up to Clean(a) are the ones that are no zeros.
LEMMA PlaceClean ==
  ASSUME NEW a \in Nat
  PROVE  /\ Clean(a) \in 0 .. a
         /\ Place(Clean(a) + 1) = IF (a + 1) % 6 = 0 THEN a + 2 ELSE a + 1
         /\ \A c \in Nat \ {0} : Place(c) <= a <=> c <= Clean(a)
<1> DEFINE q == a \div 6
           r == a % 6
<1>1. q \in Nat /\ r \in 0 .. 5 /\ a = 6 * q + r
  OBVIOUS
<1>2. Clean(a) = 5 * q + r
  BY <1>1 DEF Clean
<1> HIDE DEF q, r
<1>3. (6 * q + r + 1) % 6 = IF r = 5 THEN 0 ELSE r + 1
  BY <1>1
<1>4. (5 * q + r) \div 5 = q + (IF r = 5 THEN 1 ELSE 0)
  BY <1>1
<1>5. Place(Clean(a) + 1) = IF (a + 1) % 6 = 0 THEN a + 2 ELSE a + 1
  <2>1. (Clean(a) + 1) - 1 = 5 * q + r
    BY <1>1, <1>2
  <2>2. Place(Clean(a) + 1) = 5 * q + r + 1 + (q + (IF r = 5 THEN 1 ELSE 0))
    BY <1>2, <1>4, <2>1 DEF Place
  <2> QED BY <1>1, <1>3, <2>2
<1>6. ASSUME NEW c \in Nat \ {0} PROVE Place(c) <= a <=> c <= Clean(a)
  <2> DEFINE p == (c - 1) \div 5
             s == (c - 1) % 5
  <2>1. p \in Nat /\ s \in 0 .. 4 /\ c = 5 * p + s + 1
    OBVIOUS
  <2>2. Place(c) = 6 * p + s + 1
    BY <2>1 DEF Place
  <2> HIDE DEF p, s
  <2> QED BY <1>1, <1>2, <2>1, <2>2
<1> QED BY <1>1, <1>2, <1>5, <1>6

-----------------------------------------------------------------------------
(* removeZeros. *)

\* A zero at i lets the bytes after it move up by one, and the last one is zero.
LEMMA ZeroMovedIs ==
  ASSUME NEW b \in Seq(Byte), NEW i \in 1 .. Len(b)
  PROVE  /\ ZeroMoved(b, i) \in Seq(Byte) /\ Len(ZeroMoved(b, i)) = Len(b)
         /\ \A j \in 1 .. Len(b) :
              ZeroMoved(b, i)[j] = IF b[i] = Zero /\ j >= i
                                   THEN IF j = Len(b) THEN Zero ELSE b[j + 1]
                                   ELSE b[j]
<1> DEFINE n == Len(b)
<1>1. n \in Nat /\ \A j \in 1 .. n : b[j] \in Byte
  BY LenProperties, ElementOfSeq
<1>2. CASE b[i] # Zero
  BY <1>1, <1>2 DEF ZeroMoved
<1>3. CASE b[i] = Zero
  <2> DEFINE left == SubSeq(b, 1, i - 1)
             right == SubSeq(b, i + 1, n)
             zero == << Zero >>
  <2>1. /\ left \in Seq(Byte) /\ Len(left) = i - 1
        /\ \A j \in 1 .. i - 1 : left[j] = b[j]
    BY <1>1, SubSeqProperties
  <2>2. /\ right \in Seq(Byte) /\ Len(right) = n - i
        /\ \A j \in 1 .. n - i : right[j] = b[i + j]
    BY <1>1, SubSeqProperties
  <2>3. zero \in Seq(Byte) /\ Len(zero) = 1 /\ zero[1] = Zero
    BY DEF Byte
  <2>4. ZeroMoved(b, i) = (left \o right) \o zero
    BY <1>3 DEF ZeroMoved, RemoveAt
  <2> HIDE DEF left, right, zero
  <2>5. /\ left \o right \in Seq(Byte) /\ Len(left \o right) = n - 1
        /\ \A j \in 1 .. n - 1 : (left \o right)[j] = IF j <= i - 1 THEN b[j] ELSE b[j + 1]
    <3>1. /\ left \o right \in Seq(Byte) /\ Len(left \o right) = Len(left) + Len(right)
          /\ \A j \in 1 .. Len(left) + Len(right) :
               (left \o right)[j] = IF j <= Len(left) THEN left[j] ELSE right[j - Len(left)]
      BY <2>1, <2>2, ConcatProperties
    <3> QED BY <1>1, <2>1, <2>2, <3>1
  <2> DEFINE w == left \o right
  <2> HIDE DEF w
  <2>6. /\ w \in Seq(Byte) /\ Len(w) = n - 1
        /\ \A j \in 1 .. n - 1 : w[j] = IF j <= i - 1 THEN b[j] ELSE b[j + 1]
    BY <2>5 DEF w
  <2>7. /\ w \o zero \in Seq(Byte) /\ Len(w \o zero) = Len(w) + Len(zero)
        /\ \A j \in 1 .. Len(w) + Len(zero) :
             (w \o zero)[j] = IF j <= Len(w) THEN w[j] ELSE zero[j - Len(w)]
    BY <2>3, <2>6, ConcatProperties
  <2>8. ZeroMoved(b, i) = w \o zero
    BY <2>4 DEF w
  <2> QED BY <1>1, <1>3, <2>3, <2>6, <2>7, <2>8
<1> QED BY <1>2, <1>3

\* Buffers as long as a given one.
AsLong(buffer) == {b \in Seq(Byte) : Len(b) = Len(buffer)}

\* The first n passes of removeZeros over a buffer.
Passes(pass, buffer, n) ==
  /\ pass \in [0 .. n -> AsLong(buffer)]
  /\ pass[0] = buffer
  /\ \A i \in 1 .. n : pass[i] = ZeroMoved(pass[i - 1], i)

\* There are passes for every position, each from the one before.
LEMMA PassesExist ==
  ASSUME NEW buffer \in Seq(Byte)
  PROVE  \A n \in 0 .. Len(buffer) : \E pass : Passes(pass, buffer, n)
<1> DEFINE Bad == {m \in 0 .. Len(buffer) : ~\E p : Passes(p, buffer, m)}
<1> SUFFICES ASSUME Bad # {} PROVE FALSE
  OBVIOUS
<1>1. Bad \in SUBSET Nat /\ Len(buffer) \in Nat
  BY LenProperties
<1>2. PICK m \in Bad : \A k \in Bad : m <= k
  <2> HIDE DEF Bad
  <2> QED BY <1>1, LeastOfNumbers
<1>3. CASE m = 0
  <2> DEFINE p == [i \in 0 .. 0 |-> buffer]
  <2>1. Passes(p, buffer, 0)
    BY DEF Passes, AsLong
  <2> HIDE DEF p
  <2> QED BY <1>2, <1>3, <2>1
<1>4. CASE m # 0
  <2>1. m \in Nat /\ m - 1 \in 0 .. Len(buffer) /\ m \in 1 .. Len(buffer)
    BY <1>1, <1>2, <1>4
  <2>2. m - 1 \notin Bad
    <3> HIDE DEF Bad
    <3> QED BY <1>2, <2>1
  <2>3. PICK p : Passes(p, buffer, m - 1)
    BY <2>1, <2>2
  <2> DEFINE next == ZeroMoved(p[m - 1], m)
             q == [i \in 0 .. m |-> IF i = m THEN next ELSE p[i]]
  <2>4. p[m - 1] \in AsLong(buffer)
    BY <2>1, <2>3 DEF Passes
  <2>5. next \in AsLong(buffer)
    BY <2>1, <2>4, ZeroMovedIs DEF AsLong
  <2>6. q \in [0 .. m -> AsLong(buffer)] /\ q[0] = buffer
    <3> HIDE DEF next
    <3> QED BY <1>4, <2>1, <2>3, <2>5 DEF Passes
  <2>7. ASSUME NEW i \in 1 .. m PROVE q[i] = ZeroMoved(q[i - 1], i)
    <3>1. CASE i = m
      BY <2>1, <3>1
    <3>2. CASE i # m
      <4>1. i \in 1 .. m - 1 /\ q[i] = p[i] /\ q[i - 1] = p[i - 1]
        BY <2>1, <3>2
      <4> QED BY <2>3, <4>1 DEF Passes
    <3> QED BY <3>1, <3>2
  <2> HIDE DEF q
  <2>8. Passes(q, buffer, m)
    BY <2>6, <2>7 DEF Passes
  <2> QED BY <1>2, <2>8
<1> QED BY <1>3, <1>4

\* removeZeros gives the last of them.
LEMMA RemoveZerosPasses ==
  ASSUME NEW buffer \in Seq(Byte), buffer # << >>
  PROVE  /\ Len(buffer) \in Nat \ {0}
         /\ \E pass : /\ Passes(pass, buffer, Len(buffer) - 1)
                     /\ RemoveZeros(buffer) = pass[Len(buffer) - 1]
<1> DEFINE n == Len(buffer)
           P == CHOOSE p : p = [i \in 0 .. n - 1 |-> IF i = 0 THEN buffer ELSE ZeroMoved(p[i - 1], i)]
<1>1. n \in Nat \ {0}
  BY EmptySeq
<1>2. RemoveZeros(buffer) = P[n - 1]
  BY DEF RemoveZeros
<1>3. PICK p : Passes(p, buffer, n - 1)
  <2>1. n - 1 \in 0 .. n
    BY <1>1
  <2> QED BY <2>1, PassesExist
<1> HIDE DEF n
<1>4. P = [i \in 0 .. n - 1 |-> IF i = 0 THEN buffer ELSE ZeroMoved(P[i - 1], i)]
  <2>1. p = [i \in 0 .. n - 1 |-> IF i = 0 THEN buffer ELSE ZeroMoved(p[i - 1], i)]
    BY <1>1, <1>3 DEF Passes
  <2> QED BY <2>1
<1> HIDE DEF P
<1>5. P[0] = buffer /\ \A i \in 1 .. n - 1 : P[i] = ZeroMoved(P[i - 1], i)
  BY <1>1, <1>4
<1>6. \A i \in 0 .. n - 1 : P[i] = p[i]
  <2> DEFINE Bad == {i \in 0 .. n - 1 : P[i] # p[i]}
  <2> SUFFICES ASSUME Bad # {} PROVE FALSE
    OBVIOUS
  <2>1. Bad \in SUBSET Nat
    BY <1>1
  <2>2. PICK i \in Bad : \A k \in Bad : i <= k
    <3> HIDE DEF Bad
    <3> QED BY <2>1, LeastOfNumbers
  <2>3. i # 0
    BY <1>3, <1>5, <2>2 DEF Passes
  <2>4. i \in 1 .. n - 1 /\ i - 1 \in 0 .. n - 1
    BY <1>1, <2>2, <2>3
  <2>5. i - 1 \notin Bad
    <3> HIDE DEF Bad
    <3> QED BY <2>2, <2>4
  <2>6. P[i - 1] = p[i - 1]
    BY <2>4, <2>5
  <2> QED BY <1>3, <1>5, <2>2, <2>4, <2>6 DEF Passes
<1> QED BY <1>1, <1>2, <1>3, <1>6 DEF n

\* removeZeros keeps the length of its buffer.
LEMMA RemoveZerosType ==
  ASSUME NEW buffer \in Seq(Byte), buffer # << >>
  PROVE  RemoveZeros(buffer) \in Seq(Byte) /\ Len(RemoveZeros(buffer)) = Len(buffer)
<1>1. /\ Len(buffer) \in Nat \ {0}
      /\ \E pass : /\ Passes(pass, buffer, Len(buffer) - 1)
                  /\ RemoveZeros(buffer) = pass[Len(buffer) - 1]
  BY RemoveZerosPasses
<1> QED BY <1>1 DEF Passes, AsLong

\* The bytes of a buffer up to the first zero.
LEMMA CStringIs ==
  ASSUME NEW b \in Seq(Byte), NEW m \in 0 .. Len(b),
         \A j \in 1 .. Len(b) : b[j] = Zero <=> j > m
  PROVE  CString(b) = SubSeq(b, 1, m)
<1> DEFINE zeros == {i \in DOMAIN b : b[i] = Zero}
<1>1. Len(b) \in Nat /\ DOMAIN b = 1 .. Len(b)
  BY LenProperties
<1>2. CASE m = Len(b)
  <2>1. zeros = {}
    BY <1>1, <1>2
  <2>2. CString(b) = b
    BY <2>1 DEF CString
  <2> QED BY <1>2, <2>2, SubSeqFull
<1>3. CASE m < Len(b)
  <2>1. m + 1 \in zeros /\ \A i \in zeros : m + 1 <= i /\ i \in Int
    BY <1>1, <1>3
  <2> HIDE DEF zeros
  <2>2. Min(zeros) = m + 1
    <3>1. Min(zeros) \in zeros /\ \A i \in zeros : Min(zeros) <= i
      BY <2>1 DEF Min
    <3>2. Min(zeros) <= m + 1 /\ m + 1 <= Min(zeros) /\ Min(zeros) \in Int /\ m \in Int
      BY <1>1, <2>1, <3>1
    <3> QED BY <3>2
  <2>3. zeros # {}
    BY <2>1
  <2>4. CString(b) = SubSeq(b, 1, Min(zeros) - 1)
    BY <2>3 DEF CString, zeros
  <2> QED BY <2>2, <2>4
<1>4. m = Len(b) \/ m < Len(b)
  <2> DEFINE n == Len(b)
  <2>1. n \in Nat /\ m \in 0 .. n
    BY <1>1
  <2> HIDE DEF n
  <2>2. m = n \/ m < n
    BY <2>1
  <2> QED BY <2>2 DEF n
<1> QED BY <1>2, <1>3, <1>4

\* Whatever a buffer holds, a string is appended.
LEMMA CStringType ==
  ASSUME NEW b \in Seq(Byte)
  PROVE  CString(b) \in Seq(Byte)
<1> DEFINE zeros == {i \in DOMAIN b : b[i] = Zero}
<1>1. Len(b) \in Nat /\ DOMAIN b = 1 .. Len(b) /\ \A i \in 1 .. Len(b) : b[i] \in Byte
  BY LenProperties, ElementOfSeq
<1>2. CASE zeros = {}
  BY <1>2 DEF CString
<1>3. CASE zeros # {}
  <2>1. zeros \in SUBSET Nat
    BY <1>1
  <2> HIDE DEF zeros
  <2>2. PICK m \in zeros : \A i \in zeros : m <= i
    BY <1>3, <2>1, LeastOfNumbers
  <2>3. Min(zeros) \in zeros
    BY <2>2 DEF Min
  <2>4. Min(zeros) \in 1 .. Len(b)
    BY <1>1, <2>3 DEF zeros
  <2>5. SubSeq(b, 1, Min(zeros) - 1) \in Seq(Byte)
    <3>1. Min(zeros) - 1 \in Int /\ \A i \in 1 .. Min(zeros) - 1 : b[i] \in Byte
      BY <1>1, <2>4
    <3> QED BY <3>1, SubSeqProperties
  <2> QED BY <1>3, <2>5 DEF CString, zeros
<1> QED BY <1>2, <1>3

-----------------------------------------------------------------------------
(* What is left of a piece of the stream.                                  *)

\* The k bytes after the first a.
Piece(s, a, k) == SubSeq(s, a + 1, a + k)

\* The bytes of a piece are those of the stream.
LEMMA PieceIs ==
  ASSUME NEW s \in Seq(Byte), NEW a \in Nat, NEW k \in Nat \ {0}, a + k <= Len(s)
  PROVE  /\ Piece(s, a, k) \in Seq(Byte) /\ Len(Piece(s, a, k)) = k /\ Piece(s, a, k) # << >>
         /\ \A j \in 1 .. k : Piece(s, a, k)[j] = s[a + j]
<1>1. Len(s) \in Nat /\ \A i \in 1 .. Len(s) : s[i] \in Byte
  BY LenProperties, ElementOfSeq
<1>2. \A i \in a + 1 .. a + k : s[i] \in Byte
  BY <1>1
<1>3. /\ SubSeq(s, a + 1, a + k) \in Seq(Byte)
      /\ Len(SubSeq(s, a + 1, a + k)) = IF a + 1 <= a + k THEN (a + k) - (a + 1) + 1 ELSE 0
      /\ \A i \in 1 .. (a + k) - (a + 1) + 1 : SubSeq(s, a + 1, a + k)[i] = s[(a + 1) + i - 1]
  <2>1. a + 1 \in Int /\ a + k \in Int
    OBVIOUS
  <2> QED BY <1>2, <2>1, SubSeqProperties
<1>4. Len(Piece(s, a, k)) = k
  BY <1>3 DEF Piece
<1>5. \A j \in 1 .. k : j \in 1 .. (a + k) - (a + 1) + 1 /\ (a + 1) + j - 1 = a + j
  OBVIOUS
<1> QED BY <1>3, <1>4, <1>5 DEF Piece

\* How far removeZeros has come in the stream when i positions are done.
Reached(a, i) == IF i = 0 THEN a ELSE Place(Clean(a) + i)

\* One position more reaches the next byte, past a zero if there is one.
LEMMA ReachedNext ==
  ASSUME NEW a \in Nat, NEW i \in Nat
  PROVE  /\ Reached(a, i) \in Nat
         /\ Reached(a, i + 1) = IF (Reached(a, i) + 1) % 6 = 0 THEN Reached(a, i) + 2
                                                             ELSE Reached(a, i) + 1
<1>1. Clean(a) \in Nat
  BY PlaceClean
<1>2. Place(Clean(a) + 1) = IF (a + 1) % 6 = 0 THEN a + 2 ELSE a + 1
  BY PlaceClean
<1>3. CASE i = 0
  BY <1>2, <1>3 DEF Reached
<1>4. CASE i # 0
  <2>1. Clean(a) + i \in Nat \ {0} /\ Clean(a) + (i + 1) = (Clean(a) + i) + 1
    BY <1>1, <1>4
  <2> DEFINE c == Clean(a) + i
  <2> HIDE DEF c
  <2>2. /\ Place(c) \in Nat \ {0}
        /\ Place(c + 1) = IF (Place(c) + 1) % 6 = 0 THEN Place(c) + 2 ELSE Place(c) + 1
    BY <2>1, PlaceNext DEF c
  <2>3. Reached(a, i) = Place(c) /\ Reached(a, i + 1) = Place(c + 1)
    BY <1>4, <2>1 DEF Reached, c
  <2> QED BY <2>2, <2>3
<1> QED BY <1>3, <1>4

\* The j-th byte of a piece when i positions of it are done: those are settled,
\* the others are as far apart in the stream as in the buffer, and zeros follow.
After(s, a, k, i, j) ==
  LET from == IF j <= i THEN Reached(a, j) ELSE Reached(a, i) + (j - i)
  IN  IF from <= a + k THEN s[from] ELSE Zero

Settled(s, a, k, i, b) ==
  /\ b \in Seq(Byte) /\ Len(b) = k
  /\ Reached(a, i) >= a + i
  /\ \A j \in 1 .. k : b[j] = After(s, a, k, i, j)

\* Every sixth byte is a zero, and no other.
ZeroEverySixth(s) == \A i \in 1 .. Len(s) : s[i] = Zero <=> i % 6 = 0

\* One pass settles one position more.
LEMMA OnePass ==
  ASSUME NEW s \in Seq(Byte), ZeroEverySixth(s),
         NEW a \in Nat, NEW k \in Nat \ {0}, a + k <= Len(s), NEW i \in 0 .. k - 1,
         i + 1 \in 0 .. k - 1, NEW b, Settled(s, a, k, i, b)
  PROVE  Settled(s, a, k, i + 1, ZeroMoved(b, i + 1))
<1> DEFINE p == Reached(a, i)
           q == Reached(a, i + 1)
<1>0. /\ i \in 0 .. k /\ i \in Nat /\ i + 1 \in 1 .. k /\ b \in Seq(Byte) /\ Len(b) = k
      /\ Reached(a, i) >= a + i
      /\ \A j \in 1 .. k : b[j] = After(s, a, k, i, j)
  BY DEF Settled
<1>1. /\ p \in Nat /\ p >= a + i /\ Len(s) \in Nat
      /\ q = IF (p + 1) % 6 = 0 THEN p + 2 ELSE p + 1
  BY <1>0, ReachedNext, LenProperties
<1>2. \A j \in 1 .. k : ZeroMoved(b, i + 1)[j] =
         IF b[i + 1] = Zero /\ j >= i + 1 THEN IF j = k THEN Zero ELSE b[j + 1] ELSE b[j]
  BY <1>0, ZeroMovedIs
<1>3. b[i + 1] = IF p + 1 <= a + k THEN s[p + 1] ELSE Zero
  BY <1>0 DEF After
<1>4. p + 1 <= a + k => (s[p + 1] = Zero <=> (p + 1) % 6 = 0)
  BY <1>1 DEF ZeroEverySixth
<1> SUFFICES ASSUME NEW j \in 1 .. k
             PROVE  ZeroMoved(b, i + 1)[j] = After(s, a, k, i + 1, j)
  <2>1. ZeroMoved(b, i + 1) \in Seq(Byte) /\ Len(ZeroMoved(b, i + 1)) = k
    BY <1>0, ZeroMovedIs
  <2> QED BY <1>0, <1>1, <2>1 DEF Settled
<1>5. CASE j <= i
  <2>1. b[j] = After(s, a, k, i, j) /\ After(s, a, k, i, j) = After(s, a, k, i + 1, j)
    BY <1>0, <1>5 DEF After
  <2> QED BY <1>2, <1>5, <2>1
<1> DEFINE e == q + (j - (i + 1))
<1>6. CASE j > i
  <2>1. After(s, a, k, i + 1, j) = IF e <= a + k THEN s[e] ELSE Zero
    <3>1. CASE j = i + 1
      <4>1. e = q
        BY <1>1, <3>1
      <4> QED BY <3>1, <4>1 DEF After
    <3>2. CASE j # i + 1
      <4>1. ~(j <= i + 1)
        BY <1>6, <3>2
      <4> QED BY <4>1 DEF After
    <3> QED BY <3>1, <3>2
  <2> HIDE DEF p, q
  <2>2. CASE b[i + 1] # Zero
    <3>1. q = p + 1
      BY <1>1, <1>3, <1>4, <2>2
    <3>2. b[j] = IF p + (j - i) <= a + k THEN s[p + (j - i)] ELSE Zero
      BY <1>0, <1>6 DEF After, p
    <3>3. e = p + (j - i)
      BY <1>1, <3>1
    <3> QED BY <1>2, <2>1, <2>2, <3>2, <3>3
  <2>3. CASE b[i + 1] = Zero /\ p + 1 <= a + k
    <3>1. q = p + 2
      BY <1>1, <1>3, <1>4, <2>3
    <3>2. e = p + ((j + 1) - i)
      BY <1>1, <3>1
    <3>3. CASE j = k
      <4>1. e > a + k
        BY <1>1, <3>2, <3>3
      <4> QED BY <1>1, <1>2, <1>6, <2>1, <2>3, <3>2, <3>3, <4>1
    <3>4. CASE j # k
      <4>1. j + 1 \in 1 .. k /\ j + 1 > i /\ j >= i + 1
        BY <1>6, <3>4
      <4>2. b[j + 1] = IF p + ((j + 1) - i) <= a + k THEN s[p + ((j + 1) - i)] ELSE Zero
        <5>1. b[j + 1] = After(s, a, k, i, j + 1)
          BY <1>0, <4>1
        <5>2. ~(j + 1 <= i)
          BY <1>0, <4>1
        <5> QED BY <5>1, <5>2 DEF After, p
      <4> QED BY <1>2, <2>1, <2>3, <3>2, <3>4, <4>1, <4>2
    <3> QED BY <3>3, <3>4
  <2>4. CASE b[i + 1] = Zero /\ p + 1 > a + k
    <3>1. e > a + k
      BY <1>1, <1>6, <2>4
    <3>2. j # k => b[j + 1] = Zero
      <4>1. ASSUME j # k PROVE j + 1 \in 1 .. k /\ j + 1 > i
        BY <1>6, <4>1
      <4>2. ASSUME j # k PROVE b[j + 1] = IF p + ((j + 1) - i) <= a + k THEN s[p + ((j + 1) - i)] ELSE Zero
        BY <1>0, <4>1, <4>2 DEF After, p
      <4> QED BY <1>1, <1>6, <2>4, <4>2
    <3>3. e \in Int /\ j >= i + 1
      BY <1>1, <1>6
    <3> QED BY <1>2, <2>1, <2>4, <3>1, <3>2, <3>3
  <2> QED BY <1>1, <2>2, <2>3, <2>4
<1> QED BY <1>5, <1>6

\* removeZeros leaves the bytes that are none in their order, and zeros after
\* them.
LEMMA ZerosRemoved ==
  ASSUME NEW s \in Seq(Byte), ZeroEverySixth(s),
         NEW a \in Nat, NEW k \in Nat \ {0}, a + k <= Len(s)
  PROVE  \A j \in 1 .. k : RemoveZeros(Piece(s, a, k))[j] =
           IF Place(Clean(a) + j) <= a + k THEN s[Place(Clean(a) + j)] ELSE Zero
<1> DEFINE b == Piece(s, a, k)
<1>1. b \in Seq(Byte) /\ Len(b) = k /\ b # << >> /\ \A j \in 1 .. k : b[j] = s[a + j]
  BY PieceIs
<1> HIDE DEF b
<1>2. PICK pass : Passes(pass, b, k - 1) /\ RemoveZeros(b) = pass[k - 1]
  BY <1>1, RemoveZerosPasses
<1>3. \A i \in 0 .. k - 1 : pass[i] \in Seq(Byte) /\ Len(pass[i]) = k
  BY <1>1, <1>2 DEF Passes, AsLong
<1> DEFINE S(i) == Settled(s, a, k, i, pass[i])
<1>4. S(0)
  <2>1. \A j \in 1 .. k : After(s, a, k, 0, j) = s[a + j]
    BY DEF After, Reached
  <2> QED BY <1>1, <1>2, <2>1 DEF Passes, Reached, Settled
<1>5. ASSUME NEW i \in 0 .. k - 1, i + 1 \in 0 .. k - 1, S(i) PROVE S(i + 1)
  <2>1. i + 1 \in 1 .. k - 1 /\ (i + 1) - 1 = i
    BY <1>5
  <2>2. pass[i + 1] = ZeroMoved(pass[i], i + 1)
    BY <1>2, <2>1 DEF Passes
  <2>3. Settled(s, a, k, i + 1, ZeroMoved(pass[i], i + 1))
    BY <1>5, OnePass
  <2> QED BY <2>2, <2>3
<1>6. \A i \in 0 .. k - 1 : S(i)
  <2> DEFINE Bad == {i \in 0 .. k - 1 : ~S(i)}
  <2> SUFFICES ASSUME Bad # {} PROVE FALSE
    OBVIOUS
  <2> HIDE DEF S
  <2>1. Bad \in SUBSET Nat
    OBVIOUS
  <2>2. PICK i \in Bad : \A l \in Bad : i <= l
    <3> HIDE DEF Bad
    <3> QED BY <2>1, LeastOfNumbers
  <2>3. i # 0
    BY <1>4, <2>2
  <2>4. i \in Nat /\ i - 1 \in 0 .. k - 1 /\ (i - 1) + 1 = i
    BY <2>2, <2>3
  <2>5. i - 1 \notin Bad
    <3> HIDE DEF Bad
    <3> QED BY <2>2, <2>4
  <2>6. S(i - 1)
    BY <2>4, <2>5
  <2>7. S((i - 1) + 1)
    <3> DEFINE h == i - 1
    <3>1. h \in 0 .. k - 1 /\ h + 1 \in 0 .. k - 1 /\ S(h)
      BY <2>2, <2>4, <2>6
    <3> HIDE DEF h
    <3>2. S(h + 1)
      BY <1>5, <3>1
    <3> QED BY <3>2 DEF h
  <2> QED BY <2>2, <2>4, <2>7
<1> DEFINE p == Reached(a, k - 1)
           q == Place(Clean(a) + k)
<1>7. /\ p \in Nat /\ p >= a + (k - 1)
      /\ q = IF (p + 1) % 6 = 0 THEN p + 2 ELSE p + 1
  <2>1. k - 1 \in Nat /\ k - 1 \in 0 .. k - 1 /\ (k - 1) + 1 = k
    OBVIOUS
  <2>2. Reached(a, k) = q
    BY DEF Reached
  <2>3. S(k - 1)
    <3> HIDE DEF S
    <3> QED BY <1>6, <2>1
  <2> QED BY <2>1, <2>2, <2>3, ReachedNext DEF Settled
<1> SUFFICES ASSUME NEW j \in 1 .. k
             PROVE  pass[k - 1][j] = IF Place(Clean(a) + j) <= a + k
                                     THEN s[Place(Clean(a) + j)] ELSE Zero
  BY <1>2 DEF b
<1>8. pass[k - 1][j] = After(s, a, k, k - 1, j)
  <2>1. S(k - 1)
    <3> HIDE DEF S
    <3> QED BY <1>6
  <2> QED BY <2>1 DEF Settled
<1>9. CASE j <= k - 1
  <2>1. Reached(a, j) = Place(Clean(a) + j)
    BY DEF Reached
  <2> QED BY <1>8, <1>9, <2>1 DEF After
<1>10. CASE j = k
  <2>1. After(s, a, k, k - 1, k) = IF p + 1 <= a + k THEN s[p + 1] ELSE Zero
    <3>1. ~(k <= k - 1) /\ k - (k - 1) = 1
      OBVIOUS
    <3> QED BY <3>1 DEF After
  <2> HIDE DEF p, q
  <2>2. p + 1 <= a + k => (s[p + 1] = Zero <=> (p + 1) % 6 = 0)
    BY <1>7, LenProperties DEF ZeroEverySixth
  <2>3. After(s, a, k, k - 1, k) = IF q <= a + k THEN s[q] ELSE Zero
    BY <1>7, <2>1, <2>2
  <2> QED BY <1>8, <1>10, <2>3 DEF q
<1> QED BY <1>9, <1>10

-----------------------------------------------------------------------------
(* The types of both ends.                                                 *)

\* Min finds the least number of a set that is not empty.
LEMMA LeastOfSet ==
  ASSUME NEW S \in SUBSET Nat, S # {}
  PROVE  Min(S) \in S /\ \A n \in S : Min(S) <= n
<1>1. PICK m \in S : \A n \in S : m <= n
  BY LeastOfNumbers
<1> QED BY <1>1 DEF Min

\* A piece of a string, cut anywhere, is a string.
LEMMA CutType ==
  ASSUME NEW b \in Seq(Byte), NEW i \in Nat \ {0}, NEW j \in 0 .. Len(b)
  PROVE  SubSeq(b, i, j) \in Seq(Byte)
<1>1. Len(b) \in Nat /\ \A k \in 1 .. Len(b) : b[k] \in Byte
  BY LenProperties, ElementOfSeq
<1>2. \A k \in i .. j : b[k] \in Byte
  BY <1>1
<1>3. i \in Int /\ j \in Int
  BY <1>1
<1> QED BY <1>2, <1>3, SubSeqProperties

\* A receiver's step: what was kept and the messages before are strings, and
\* so are what is kept and the messages after.
LEMMA ProcessType ==
  ASSUME NEW string \in Seq(Byte), Process(string), received \in Seq(Seq(Byte))
  PROVE  tmpStr' \in Seq(Byte) /\ received' \in Seq(Seq(Byte))
<1>1. CASE Ends(string) = {}
  BY <1>1 DEF Process
<1>2. CASE Ends(string) # {}
  <2> DEFINE n == Len(string)
             end == Min(Ends(string))
  <2>1. n \in Nat
    BY LenProperties
  <2>2. Ends(string) \in SUBSET Nat /\ Ends(string) \subseteq 1 .. n - 1
    BY <2>1 DEF Ends
  <2>3. end \in 1 .. n - 1
    BY <1>2, <2>2, LeastOfSet
  <2>4. /\ received' = Append(received, SubSeq(string, 1, end - 1))
        /\ tmpStr' = SubSeq(string, end + 2, n)
    BY <1>2 DEF Process
  <2> HIDE DEF end
  <2>5. end - 1 \in 0 .. n /\ end + 2 \in Nat \ {0} /\ n \in 0 .. n
    BY <2>1, <2>3
  <2>6. SubSeq(string, 1, end - 1) \in Seq(Byte) /\ SubSeq(string, end + 2, n) \in Seq(Byte)
    BY <2>5, CutType
  <2>7. Append(received, SubSeq(string, 1, end - 1)) \in Seq(Seq(Byte))
    BY <2>6, AppendProperties
  <2> QED BY <2>4, <2>6, <2>7
<1> QED BY <1>1, <1>2

\* What is read are bytes that are there, and the result is a string.
LEMMA FillType ==
  ASSUME ChannelTypeOK, NEW k \in Available
  PROVE  /\ k \in Nat \ {0} /\ arrived + k <= Len(stream) /\ connected /\ link # "reset"
         /\ Fill(k) \in Seq(Byte)
<1>1. k \in Nat \ {0} /\ arrived + k <= Len(stream) /\ connected /\ link # "reset"
  BY ChannelAssumption DEF Available, ChannelAssumption
<1>2. stream \in Seq(Byte) /\ arrived \in Nat /\ tmpStr \in Seq(Byte)
  BY LenProperties DEF ChannelTypeOK
<1> DEFINE b == Piece(stream, arrived, k)
<1>3. b \in Seq(Byte) /\ b # << >>
  BY <1>1, <1>2, PieceIs
<1>4. Fill(k) = tmpStr \o CString(RemoveZeros(b))
  BY DEF Fill, Piece
<1> HIDE DEF b
<1>5. RemoveZeros(b) \in Seq(Byte)
  BY <1>3, RemoveZerosType
<1>6. CString(RemoveZeros(b)) \in Seq(Byte)
  BY <1>5, CStringType
<1>7. tmpStr \o CString(RemoveZeros(b)) \in Seq(Byte)
  BY <1>2, <1>6, BytesConcat
<1> QED BY <1>1, <1>4, <1>7

\* send keeps the types, whether it fails, times out or succeeds.
LEMMA SendType ==
  ASSUME ChannelTypeOK, Send
  PROVE  ChannelTypeOK'
<1> DEFINE m == offered + 1
           message == partialPrevMsg \o Frame(m)
<1>1. m \in 1 .. MaxMessages /\ m \in Nat \ {0} /\ offered' = m
  BY ChannelAssumption DEF ChannelAssumption, ChannelTypeOK, Send
<1>2. message \in Seq(Byte)
  BY <1>1, FrameType, BytesConcat DEF ChannelTypeOK
<1>3. PICK result \in SendAll(Len(message)) :
        /\ stream' = stream \o SubSeq(message, 1, result.total)
        /\ partialPrevMsg' = KeptBack(message, result.ret)
        /\ sent' = IF result.ret < 0 THEN sent ELSE Append(sent, m)
  BY DEF Send
<1> HIDE DEF message
<1>4. Len(message) \in Nat
  BY <1>2, LenProperties
<1>5. /\ result.total \in 0 .. Len(message)
      /\ result.ret < 0 \/ result.ret \in 1 .. Len(message)
  BY <1>4 DEF SendAll, SOCKET_ERROR, SOCKET_TIMEOUT
<1>6. SubSeq(message, 1, result.total) \in Seq(Byte)
  BY <1>2, <1>5, CutType
<1>7. partialPrevMsg' \in Seq(Byte)
  <2>1. CASE result.ret < 0
    BY <1>3, <2>1 DEF KeptBack, ChannelTypeOK
  <2>2. CASE result.ret \in 1 .. Len(message)
    <3>1. result.ret + 1 \in Nat \ {0} /\ Len(message) \in 0 .. Len(message) /\ ~(result.ret < 0)
      BY <1>4, <2>2
    <3>2. SubSeq(message, result.ret + 1, Len(message)) \in Seq(Byte)
      BY <1>2, <3>1, CutType
    <3> QED BY <1>3, <3>1, <3>2 DEF KeptBack
  <2> QED BY <1>5, <2>1, <2>2
<1>8. /\ stream' \in Seq(Byte) /\ Len(stream) \in Nat /\ Len(stream') \in Nat
      /\ Len(stream') >= Len(stream)
  <2> DEFINE out == SubSeq(message, 1, result.total)
  <2>1. out \in Seq(Byte) /\ stream' = stream \o out
    BY <1>3, <1>6
  <2> HIDE DEF out
  <2>2. stream \o out \in Seq(Byte) /\ Len(stream \o out) = Len(stream) + Len(out)
    BY <2>1, BytesConcat DEF ChannelTypeOK
  <2>3. Len(stream) \in Nat /\ Len(out) \in Nat
    BY <2>1, LenProperties DEF ChannelTypeOK
  <2> QED BY <2>1, <2>2, <2>3
<1>9. arrived' = arrived /\ arrived' \in 0 .. Len(stream')
  BY <1>8 DEF ChannelTypeOK, Send, receiverVars
<1>10. sent' \in Seq(1 .. MaxMessages)
  BY <1>1, <1>3, AppendProperties DEF ChannelTypeOK
<1>11. UNCHANGED <<arrived, tmpStr, connected, received, link>>
  BY DEF Send, receiverVars
<1>12. Ends(tmpStr)' = Ends(tmpStr)
  BY <1>11 DEF Ends
<1> QED BY <1>1, <1>7, <1>8, <1>9, <1>10, <1>11, <1>12 DEF ChannelTypeOK

\* receive keeps the types; it closes only when no whole message is left.
LEMMA ReceiveType ==
  ASSUME ChannelTypeOK, Receive
  PROVE  ChannelTypeOK'
<1>1. UNCHANGED <<offered, partialPrevMsg, stream, sent, link>>
  BY DEF Receive, senderVars
<1>2. tmpStr \in Seq(Byte) /\ received \in Seq(Seq(Byte)) /\ Len(stream) \in Nat
  BY LenProperties DEF ChannelTypeOK
<1>3. CASE ReceiveBuffered
  <2>1. tmpStr' \in Seq(Byte) /\ received' \in Seq(Seq(Byte))
    BY <1>2, <1>3, ProcessType DEF ReceiveBuffered
  <2>2. connected /\ connected' /\ arrived' = arrived
    BY <1>3 DEF ReceiveBuffered, ChannelTypeOK
  <2> QED BY <1>1, <2>1, <2>2 DEF ChannelTypeOK
<1>4. CASE ReceiveBytes
  <2>1. PICK k \in Available : Process(Fill(k)) /\ arrived' = arrived + k
    BY <1>4 DEF ReceiveBytes
  <2>2. /\ k \in Nat \ {0} /\ arrived + k <= Len(stream) /\ connected
        /\ Fill(k) \in Seq(Byte)
    BY FillType
  <2>3. tmpStr' \in Seq(Byte) /\ received' \in Seq(Seq(Byte))
    BY <1>2, <2>1, <2>2, ProcessType
  <2>4. connected'
    BY <1>4, <2>2 DEF ReceiveBytes
  <2>5. arrived' \in 0 .. Len(stream')
    BY <1>1, <1>2, <2>1, <2>2 DEF ChannelTypeOK
  <2> QED BY <1>1, <2>3, <2>4, <2>5 DEF ChannelTypeOK
<1>5. CASE ReceiveEnd
  <2>1. Ends(tmpStr) = {} /\ connected' = FALSE /\ UNCHANGED <<arrived, tmpStr, received>>
    BY <1>5 DEF ReceiveEnd
  <2>2. Ends(tmpStr)' = {}
    BY <2>1 DEF Ends
  <2> QED BY <1>1, <2>1, <2>2 DEF ChannelTypeOK
<1> QED BY <1>3, <1>4, <1>5 DEF Receive

\* The types of a connection, whatever its network does, with timeouts or
\* without; and a receiver that has closed has returned every whole message.
THEOREM ChannelTypeCorrect == Spec => []ChannelTypeOK
<1>1. Init => ChannelTypeOK
  <2> SUFFICES ASSUME Init PROVE ChannelTypeOK
    OBVIOUS
  <2>1. Len(stream) = 0
    BY DEF Init
  <2> QED BY <2>1, ChannelAssumption DEF ChannelAssumption, Init, ChannelTypeOK
<1>2. ChannelTypeOK /\ [Next]_channelVars => ChannelTypeOK'
  <2> SUFFICES ASSUME ChannelTypeOK, [Next]_channelVars PROVE ChannelTypeOK'
    OBVIOUS
  <2>1. CASE Send
    BY <2>1, SendType
  <2>2. CASE Receive
    BY <2>2, ReceiveType
  <2>3. CASE UNCHANGED <<senderVars, receiverVars>> /\ link' \in {"up", "closed", "reset"}
    <3>1. Ends(tmpStr)' = Ends(tmpStr)
      BY <2>3 DEF Ends, receiverVars
    <3> QED BY <2>3, <3>1 DEF ChannelTypeOK, senderVars, receiverVars
  <2> QED BY <2>1, <2>2, <2>3 DEF Next, SenderCloses, Reset, channelVars, ChannelTypeOK
<1> QED BY <1>1, <1>2, PTL DEF Spec

-----------------------------------------------------------------------------
(* The bytes of the stream.                                                *)

\* The six bytes of a frame.
LEMMA FrameBytes ==
  ASSUME NEW m \in Nat \ {0}
  PROVE  /\ Frame(m)[1] = m /\ Frame(m)[2] = m /\ Frame(m)[3] = Newline
         /\ Frame(m)[4] = EndMsg[1] /\ Frame(m)[5] = EndMsg[2] /\ Frame(m)[6] = Zero
BY DEF Frame, Text, EndMsg, Newline, Zero, Byte

\* The byte of the stream at place 6 q + r: byte r of the frame of message q + 1.
LEMMA StreamBytes ==
  ASSUME ChannelTypeOK, Framing,
         NEW q \in Nat, NEW r \in 1 .. 6, 6 * q + r <= Len(stream)
  PROVE  /\ q + 1 \in 1 .. Len(sent) /\ sent[q + 1] \in Nat \ {0}
         /\ stream[6 * q + r] = Frame(sent[q + 1])[r]
<1> DEFINE i == 6 * q + r
           n == Len(stream)
           l == Len(sent)
<1>1. /\ stream \o partialPrevMsg \in Seq(Byte)
      /\ Len(stream \o partialPrevMsg) = n + Len(partialPrevMsg)
      /\ \A j \in 1 .. n + Len(partialPrevMsg) :
           (stream \o partialPrevMsg)[j] = IF j <= n THEN stream[j] ELSE partialPrevMsg[j - n]
  BY BytesConcat DEF ChannelTypeOK
<1>2. n \in Nat /\ Len(partialPrevMsg) \in Nat /\ l \in Nat
  BY LenProperties DEF ChannelTypeOK
<1>3. /\ Len(Frames(sent)) = 6 * l
      /\ \A j \in 1 .. 6 * l : Frames(sent)[j] = Frame(sent[((j - 1) \div 6) + 1])[((j - 1) % 6) + 1]
  BY FramesType DEF ChannelTypeOK
<1>4. n + Len(partialPrevMsg) = 6 * l
  BY <1>1, <1>3 DEF Framing
<1>5. i \in 1 .. n /\ i \in 1 .. 6 * l /\ i \in 1 .. n + Len(partialPrevMsg)
  BY <1>2, <1>4
<1>6. (i - 1) \div 6 = q /\ ((i - 1) % 6) + 1 = r
  OBVIOUS
<1>7. q + 1 \in 1 .. l
  BY <1>2, <1>5
<1>8. sent[q + 1] \in Nat \ {0}
  BY <1>7, ElementOfSeq, ChannelAssumption DEF ChannelTypeOK, ChannelAssumption
<1>9. (stream \o partialPrevMsg)[i] = stream[i]
  BY <1>1, <1>2, <1>5
<1>10. Frames(sent)[i] = Frame(sent[q + 1])[r]
  BY <1>3, <1>5, <1>6
<1> QED BY <1>7, <1>8, <1>9, <1>10 DEF Framing

\* Zeros, newlines and terminators have their places in every six bytes.
LEMMA StreamMarks ==
  ASSUME ChannelTypeOK, Framing
  PROVE  /\ ZeroEverySixth(stream)
         /\ \A i \in 1 .. Len(stream) : stream[i] = Newline <=> i % 6 = 3
         /\ \A i \in 1 .. Len(stream) : stream[i] = EndMsg[1] <=> i % 6 = 4
<1> SUFFICES ASSUME NEW i \in 1 .. Len(stream)
             PROVE  /\ stream[i] = Zero <=> i % 6 = 0
                    /\ stream[i] = Newline <=> i % 6 = 3
                    /\ stream[i] = EndMsg[1] <=> i % 6 = 4
  BY DEF ZeroEverySixth
<1> DEFINE q == (i - 1) \div 6
           r == ((i - 1) % 6) + 1
<1>1. Len(stream) \in Nat
  BY LenProperties DEF ChannelTypeOK
<1>2. q \in Nat /\ r \in 1 .. 6 /\ i = 6 * q + r
  BY <1>1
<1> HIDE DEF q, r
<1>3. i % 6 = IF r = 6 THEN 0 ELSE r
  BY <1>2
<1>4. 6 * q + r <= Len(stream)
  BY <1>2
<1>5. sent[q + 1] \in Nat \ {0} /\ stream[i] = Frame(sent[q + 1])[r]
  BY <1>2, <1>4, StreamBytes
<1> DEFINE m == sent[q + 1]
<1>6. m \in Nat \ {0} /\ stream[i] = Frame(m)[r]
  BY <1>5
<1> HIDE DEF m
<1>7. /\ Frame(m)[1] = m /\ Frame(m)[2] = m /\ Frame(m)[3] = Newline
      /\ Frame(m)[4] = EndMsg[1] /\ Frame(m)[5] = EndMsg[2] /\ Frame(m)[6] = Zero
  BY <1>6, FrameBytes
<1>8. EndMsg[1] = -2 /\ EndMsg[2] = -3 /\ Zero = -1 /\ Newline = 0
  BY DEF EndMsg, Zero, Newline
<1> QED BY <1>2, <1>3, <1>6, <1>7, <1>8

-----------------------------------------------------------------------------
(* The lines of the Processing client.                                     *)

\* How many of the first n bytes end a line, when every sixth does.
LEMMA LineEnds ==
  ASSUME NEW n \in Nat
  PROVE  Cardinality({i \in 1 .. n : i % 6 = 3}) = (n + 3) \div 6
<1> DEFINE S == {i \in 1 .. n : i % 6 = 3}
           c == (n + 3) \div 6
           f == [p \in 1 .. c |-> 6 * p - 3]
<1>1. c \in Nat /\ n + 3 >= 6 * c /\ n + 3 < 6 * c + 6
  OBVIOUS
<1> HIDE DEF c
<1>2. ASSUME NEW p \in 1 .. c PROVE 6 * p - 3 \in S
  <2>1. 6 * p - 3 \in 1 .. n
    BY <1>1
  <2>2. (6 * p - 3) % 6 = 3
    <3>1. 6 * p - 3 = 6 * (p - 1) + 3 /\ p - 1 \in Nat
      BY <1>1
    <3> QED BY <3>1
  <2> QED BY <2>1, <2>2
<1>3. ASSUME NEW i \in S PROVE \E p \in 1 .. c : 6 * p - 3 = i
  <2> DEFINE p == (i + 3) \div 6
  <2>1. i \in 1 .. n /\ i % 6 = 3
    OBVIOUS
  <2>2. i + 3 = 6 * p /\ p \in Nat
    BY <2>1
  <2> HIDE DEF p
  <2>3. p \in 1 .. c /\ 6 * p - 3 = i
    BY <1>1, <2>1, <2>2
  <2> QED BY <2>3
<1> HIDE DEF S
<1>4. f \in [1 .. c -> S]
  BY <1>2
<1>5. \A p, o \in 1 .. c : f[p] = f[o] => p = o
  BY <1>1
<1>6. \A i \in S : \E p \in 1 .. c : f[p] = i
  BY <1>3
<1> HIDE DEF f
<1>7. f \in Bijection(1 .. c, S)
  BY <1>4, <1>5, <1>6 DEF Bijection, Injection, Surjection, IsInjective
<1>8. ExistsBijection(1 .. c, S)
  BY <1>7 DEF ExistsBijection
<1>9. Cardinality(S) = c
  BY <1>1, <1>8, FS_CountingElements
<1> QED BY <1>9 DEF S, c

\* Two numbers are no terminator.
LEMMA TextNoPrefix ==
  ASSUME NEW m \in Nat \ {0}
  PROVE  ~IsPrefix(EndMsg, << m, m >>)
<1> DEFINE line == << m, m >>
<1>1. line \in Seq(Byte) /\ Len(line) = 2 /\ line[1] = m
  BY DEF Byte
<1> HIDE DEF line
<1>2. EndMsg \in Seq(Byte) /\ Len(EndMsg) = 2 /\ EndMsg[1] = -2
  BY DEF EndMsg, Byte
<1>3. SubSeq(line, 1, 2) = line /\ SubSeq(EndMsg, 1, 2) = EndMsg
  BY <1>1, <1>2, SubSeqFull
<1>4. line # EndMsg
  BY <1>1, <1>2
<1> QED BY <1>2, <1>3, <1>4 DEF IsPrefix, line

\* After a terminator and its zero come the two numbers.
LEMMA TextAfterPrefix ==
  ASSUME NEW line \in Seq(Byte), NEW m \in Nat \ {0}, Len(line) = 5,
         line[1] = EndMsg[1], line[2] = EndMsg[2], line[4] = m, line[5] = m
  PROVE  /\ IsPrefix(EndMsg, line)
         /\ SubSeq(line, Len(EndMsg) + 2, Len(line)) = << m, m >>
<1>1. EndMsg \in Seq(Byte) /\ Len(EndMsg) = 2
  BY DEF EndMsg, Byte
<1>2. \A i \in 1 .. 5 : line[i] \in Byte
  BY ElementOfSeq
<1>3. /\ SubSeq(line, 1, 2) \in Seq(Byte) /\ Len(SubSeq(line, 1, 2)) = 2
      /\ SubSeq(line, 1, 2)[1] = line[1] /\ SubSeq(line, 1, 2)[2] = line[2]
  <2>1. \A i \in 1 .. 2 : line[i] \in Byte
    BY <1>2
  <2>2. /\ SubSeq(line, 1, 2) \in Seq(Byte)
        /\ Len(SubSeq(line, 1, 2)) = IF 1 <= 2 THEN 2 - 1 + 1 ELSE 0
        /\ \A i \in 1 .. 2 - 1 + 1 : SubSeq(line, 1, 2)[i] = line[1 + i - 1]
    BY <2>1, SubSeqProperties
  <2> QED BY <2>2
<1>4. SubSeq(line, 1, 2) = EndMsg
  <2> DEFINE t == SubSeq(line, 1, 2)
  <2>1. t \in Seq(Byte) /\ Len(t) = 2 /\ \A i \in 1 .. Len(t) : t[i] = EndMsg[i]
    BY <1>3
  <2> HIDE DEF t
  <2>2. t = EndMsg
    BY <1>1, <2>1, SeqEqual
  <2> QED BY <2>2 DEF t
<1>5. SubSeq(EndMsg, 1, 2) = EndMsg
  BY <1>1, SubSeqFull
<1>6. /\ SubSeq(line, 4, 5) \in Seq(Byte) /\ Len(SubSeq(line, 4, 5)) = 2
      /\ SubSeq(line, 4, 5)[1] = m /\ SubSeq(line, 4, 5)[2] = m
  <2>1. \A i \in 4 .. 5 : line[i] \in Byte
    BY <1>2
  <2>2. /\ SubSeq(line, 4, 5) \in Seq(Byte)
        /\ Len(SubSeq(line, 4, 5)) = IF 4 <= 5 THEN 5 - 4 + 1 ELSE 0
        /\ \A i \in 1 .. 5 - 4 + 1 : SubSeq(line, 4, 5)[i] = line[4 + i - 1]
    BY <2>1, SubSeqProperties
  <2> QED BY <2>2
<1>7. SubSeq(line, 4, 5) = << m, m >>
  <2> DEFINE t == SubSeq(line, 4, 5)
             u == << m, m >>
  <2>1. u \in Seq(Byte) /\ Len(u) = 2 /\ u[1] = m /\ u[2] = m
    BY DEF Byte
  <2> HIDE DEF u
  <2>2. t \in Seq(Byte) /\ Len(t) = Len(u) /\ \A i \in 1 .. Len(t) : t[i] = u[i]
    BY <1>6, <2>1
  <2> HIDE DEF t
  <2>3. t = u
    BY <2>1, <2>2, SeqEqual
  <2> QED BY <2>3 DEF t, u
<1> QED BY <1>1, <1>4, <1>5, <1>7 DEF IsPrefix

\* The k-th line that has come is the k-th message sent.
LEMMA LineIsMessage ==
  ASSUME ChannelTypeOK, Framing,
         NEW k \in 1 .. Cardinality({i \in DOMAIN stream : stream[i] = Newline})
  PROVE  k <= Len(sent) /\ Line(k) \o << Newline >> = Text(sent[k])
<1> DEFINE n == Len(stream)
           ends == {i \in DOMAIN stream : stream[i] = Newline}
           kth(h) == CHOOSE i \in ends : Cardinality({j \in ends : j <= i}) = h
<1>1. n \in Nat /\ DOMAIN stream = 1 .. n /\ stream \in Seq(Byte)
      /\ \A i \in 1 .. n : stream[i] \in Byte
  BY LenProperties, ElementOfSeq DEF ChannelTypeOK
<1>2. ends = {i \in 1 .. n : i % 6 = 3}
  BY <1>1, StreamMarks
<1> HIDE DEF ends
<1>3. Cardinality(ends) = (n + 3) \div 6
  BY <1>1, <1>2, LineEnds
<1>4. k \in Nat /\ k >= 1 /\ 6 * k - 3 <= n
  <2>1. k \in 1 .. ((n + 3) \div 6)
    BY <1>3 DEF ends
  <2> HIDE DEF n
  <2> QED BY <1>1, <2>1
<1>5. ASSUME NEW h \in 1 .. k PROVE kth(h) = 6 * h - 3
  <2>1. ASSUME NEW i \in ends
        PROVE  Cardinality({j \in ends : j <= i}) = h <=> i = 6 * h - 3
    <3>1. i \in 1 .. n /\ i % 6 = 3 /\ i \in Nat
      BY <1>1, <1>2
    <3>2. {j \in ends : j <= i} = {j \in 1 .. i : j % 6 = 3}
      BY <1>1, <1>2, <3>1
    <3>3. Cardinality({j \in ends : j <= i}) = (i + 3) \div 6
      BY <3>1, <3>2, LineEnds
    <3>4. (i + 3) \div 6 = h <=> i = 6 * h - 3
      BY <3>1, <1>4
    <3> QED BY <3>3, <3>4
  <2>2. 6 * h - 3 \in ends
    <3>1. 6 * h - 3 \in 1 .. n
      BY <1>1, <1>4
    <3>2. (6 * h - 3) % 6 = 3
      <4>1. 6 * h - 3 = 6 * (h - 1) + 3 /\ h - 1 \in Nat
        BY <1>4
      <4> QED BY <4>1
    <3> QED BY <1>2, <3>1, <3>2
  <2> QED BY <2>1, <2>2
<1> DEFINE from == IF k = 1 THEN 1 ELSE kth(k - 1) + 1
           line == SubSeq(stream, from, kth(k) - 1)
<1>6. Line(k) = IF IsPrefix(EndMsg, line)
                THEN SubSeq(line, Len(EndMsg) + 2, Len(line)) ELSE line
  BY DEF Line, ends
<1>7. kth(k) = 6 * k - 3 /\ from = IF k = 1 THEN 1 ELSE 6 * k - 8
  <2>1. k # 1 => k - 1 \in 1 .. k
    BY <1>4
  <2>2. k \in 1 .. k
    BY <1>4
  <2>3. k # 1 => kth(k - 1) = 6 * (k - 1) - 3
    BY <1>5, <2>1
  <2> HIDE DEF kth
  <2> QED BY <1>4, <1>5, <2>2, <2>3
<1> HIDE DEF kth, from
<1>8. /\ from \in Nat \ {0} /\ from <= kth(k) - 1 /\ kth(k) - 1 <= n
      /\ kth(k) - 1 = 6 * k - 4
  BY <1>4, <1>7
<1>9. /\ line \in Seq(Byte) /\ Len(line) = (6 * k - 4) - from + 1
      /\ \A i \in 1 .. (6 * k - 4) - from + 1 : line[i] = stream[from + i - 1]
  <2> DEFINE to == 6 * k - 4
  <2>1. to \in Int /\ from \in Int /\ \A i \in from .. to : stream[i] \in Byte
    BY <1>1, <1>4, <1>8
  <2>2. line = SubSeq(stream, from, to) /\ from <= to
    BY <1>8
  <2> HIDE DEF line, to
  <2>3. /\ SubSeq(stream, from, to) \in Seq(Byte)
        /\ Len(SubSeq(stream, from, to)) = IF from <= to THEN to - from + 1 ELSE 0
        /\ \A i \in 1 .. to - from + 1 : SubSeq(stream, from, to)[i] = stream[from + i - 1]
    BY <2>1, SubSeqProperties
  <2> QED BY <2>2, <2>3 DEF to
<1> HIDE DEF line
<1> DEFINE m == sent[k]
<1>10. /\ k <= Len(sent) /\ m \in Nat \ {0}
       /\ stream[6 * k - 5] = m /\ stream[6 * k - 4] = m
  <2> DEFINE q == k - 1
  <2>1. q \in Nat /\ 6 * q + 1 = 6 * k - 5 /\ 6 * q + 2 = 6 * k - 4 /\ q + 1 = k
        /\ 6 * q + 1 <= n /\ 6 * q + 2 <= n
    BY <1>1, <1>4
  <2> HIDE DEF q
  <2>2. /\ q + 1 \in 1 .. Len(sent) /\ sent[q + 1] \in Nat \ {0}
        /\ stream[6 * q + 1] = Frame(sent[q + 1])[1]
    BY <2>1, StreamBytes
  <2>3. stream[6 * q + 2] = Frame(sent[q + 1])[2]
    BY <2>1, StreamBytes
  <2>4. m \in Nat \ {0} /\ stream[6 * k - 5] = Frame(m)[1] /\ stream[6 * k - 4] = Frame(m)[2]
    BY <2>1, <2>2, <2>3
  <2> HIDE DEF m
  <2> QED BY <2>1, <2>2, <2>4, FrameBytes, LenProperties DEF ChannelTypeOK
<1> HIDE DEF m
<1>11. Line(k) = << m, m >>
  <2>1. CASE k = 1
    <3>1. Len(line) = 2 /\ line[1] = m /\ line[2] = m
      <4>1. from = 1
        BY <1>7, <2>1
      <4> QED BY <1>9, <1>10, <2>1, <4>1
    <3> DEFINE u == << m, m >>
    <3>2. u \in Seq(Byte) /\ Len(u) = 2 /\ u[1] = m /\ u[2] = m
      BY <1>10 DEF Byte
    <3> HIDE DEF u
    <3>3. Len(line) = Len(u) /\ \A i \in 1 .. Len(line) : line[i] = u[i]
      BY <3>1, <3>2
    <3>4. line = u
      BY <1>9, <3>2, <3>3, SeqEqual
    <3>5. ~IsPrefix(EndMsg, line)
      BY <1>10, <3>4, TextNoPrefix DEF u
    <3> QED BY <1>6, <3>4, <3>5 DEF u
  <2>2. CASE k # 1
    <3> DEFINE q == k - 2
    <3>1. q \in Nat /\ 6 * q + 4 = 6 * k - 8 /\ 6 * q + 5 = 6 * k - 7
          /\ 6 * q + 4 <= n /\ 6 * q + 5 <= n
      BY <1>1, <1>4, <2>2
    <3> HIDE DEF q
    <3>2. /\ sent[q + 1] \in Nat \ {0} /\ stream[6 * q + 4] = Frame(sent[q + 1])[4]
      BY <3>1, StreamBytes
    <3>3. stream[6 * q + 5] = Frame(sent[q + 1])[5]
      BY <3>1, StreamBytes
    <3>4. stream[6 * k - 8] = EndMsg[1] /\ stream[6 * k - 7] = EndMsg[2]
      BY <3>1, <3>2, <3>3, FrameBytes
    <3>5. from = 6 * k - 8
      BY <1>7, <2>2
    <3>6. Len(line) = 5 /\ \A i \in 1 .. 5 : line[i] = stream[6 * k - 8 + i - 1]
      BY <1>4, <1>9, <3>5
    <3>7. line[1] = EndMsg[1] /\ line[2] = EndMsg[2] /\ line[4] = m /\ line[5] = m
      <4>1. 6 * k - 8 + 1 - 1 = 6 * k - 8 /\ 6 * k - 8 + 2 - 1 = 6 * k - 7
            /\ 6 * k - 8 + 4 - 1 = 6 * k - 5 /\ 6 * k - 8 + 5 - 1 = 6 * k - 4
        BY <1>4
      <4> HIDE DEF n
      <4> QED BY <1>10, <3>4, <3>6, <4>1
    <3>8. IsPrefix(EndMsg, line) /\ SubSeq(line, Len(EndMsg) + 2, Len(line)) = << m, m >>
      BY <1>9, <1>10, <3>6, <3>7, TextAfterPrefix
    <3> QED BY <1>6, <3>8
  <2> QED BY <2>1, <2>2
<1>12. Text(m) = << m, m >> \o << Newline >>
  BY DEF Text
<1> QED BY <1>10, <1>11, <1>12 DEF m

\* Every line that the Processing client has read is a message for which send
\* returned true, the k-th line the k-th message, if no send timeout may strike.
THEOREM LinesCorrect == ASSUME ~Timeouts PROVE Spec => []LinesAreMessages
<1>1. ChannelTypeOK /\ Framing => LinesAreMessages
  BY LineIsMessage DEF LinesAreMessages
<1> QED BY <1>1, ChannelTypeCorrect, FramingCorrect, PTL

-----------------------------------------------------------------------------
(* What the receiver holds.                                                *)

\* A string of the receiver's: what it has not yet returned of the first a
\* bytes of the stream, without the zeros.
Holds(string, a) ==
  /\ string \in Seq(Byte)
  /\ Len(string) = Clean(a) - 5 * Len(received)
  /\ \A j \in 1 .. Len(string) : string[j] = stream[Place(5 * Len(received) + j)]

\* The numbers sent so far are those offered.
SentOffered == \A k \in 1 .. Len(sent) : sent[k] <= offered

\* The messages received are the first of those sent, and the receiver holds
\* the rest of what has arrived.
ReceiverInv ==
  /\ Len(received) <= Len(sent)
  /\ \A r \in 1 .. Len(received) : received[r] = Text(sent[r])
  /\ Holds(tmpStr, arrived)

LinkInv == ChannelTypeOK /\ Framing /\ SentOffered /\ ReceiverInv

\* Without zeros a frame has five bytes, six with.
LEMMA PlaceOfByte ==
  ASSUME NEW q \in Nat, NEW j \in 1 .. 5
  PROVE  Place(5 * q + j) = 6 * q + j
<1>1. ((5 * q + j) - 1) \div 5 = q
  OBVIOUS
<1> QED BY <1>1 DEF Place

\* The five bytes of the next message, if they have come.
LEMMA NextMessage ==
  ASSUME LinkInv, NEW string, NEW a \in 0 .. Len(stream), Holds(string, a), Len(string) >= 1
  PROVE  LET q == Len(received) IN
         /\ q + 1 \in 1 .. Len(sent) /\ sent[q + 1] \in Nat \ {0}
         /\ \A j \in 1 .. 5 : j <= Len(string) => string[j] = Frame(sent[q + 1])[j]
<1> DEFINE q == Len(received)
           n == Len(string)
<1>1. q \in Nat /\ Len(stream) \in Nat /\ n \in Nat /\ a \in Nat
  BY LenProperties DEF LinkInv, ChannelTypeOK, Holds
<1>2. ASSUME NEW j \in 1 .. 5, j <= n
      PROVE  /\ q + 1 \in 1 .. Len(sent) /\ sent[q + 1] \in Nat \ {0}
             /\ string[j] = Frame(sent[q + 1])[j]
  <2>1. j \in 1 .. n /\ 5 * q + j \in Nat \ {0} /\ 5 * q + j <= Clean(a)
    <3>1. n = Clean(a) - 5 * q
      BY DEF Holds
    <3>2. Clean(a) \in Nat
      BY <1>1, PlaceClean
    <3> HIDE DEF q, n
    <3> QED BY <1>1, <1>2, <3>1, <3>2
  <2>2. Place(5 * q + j) <= a /\ Place(5 * q + j) = 6 * q + j
    <3>1. Place(5 * q + j) <= a
      BY <1>1, <2>1, PlaceClean
    <3> QED BY <1>1, <3>1, PlaceOfByte
  <2>3. 6 * q + j <= Len(stream) /\ j \in 1 .. 6
    BY <1>1, <2>2
  <2>4. /\ q + 1 \in 1 .. Len(sent) /\ sent[q + 1] \in Nat \ {0}
        /\ stream[6 * q + j] = Frame(sent[q + 1])[j]
    BY <1>1, <2>3, StreamBytes DEF LinkInv
  <2>5. string[j] = stream[Place(5 * q + j)]
    BY <2>1 DEF Holds
  <2> QED BY <2>2, <2>4, <2>5
<1>3. 1 \in 1 .. 5 /\ 1 <= n
  OBVIOUS
<1> QED BY <1>2, <1>3

\* A terminator is found once the five bytes of the next message are there, and
\* it is that message's.
LEMMA EndsAre ==
  ASSUME LinkInv, NEW string, NEW a \in 0 .. Len(stream), Holds(string, a)
  PROVE  /\ Ends(string) = {} <=> Len(string) < 5
         /\ Len(string) >= 5 => Min(Ends(string)) = 4
<1> DEFINE n == Len(string)
           m == sent[Len(received) + 1]
<1>1. string \in Seq(Byte) /\ n \in Nat /\ \A i \in 1 .. n : string[i] \in Byte
  BY LenProperties, ElementOfSeq DEF Holds
<1>2. n >= 1 => m \in Nat \ {0} /\ \A j \in 1 .. 5 : j <= n => string[j] = Frame(m)[j]
  BY NextMessage
<1> HIDE DEF m
<1>3. EndMsg \in Seq(Byte) /\ Len(EndMsg) = 2 /\ EndMsg[1] = -2 /\ EndMsg[2] = -3 /\ Newline = 0
  BY DEF EndMsg, Byte, Newline
<1>4. n >= 1 => /\ Frame(m)[1] = m /\ Frame(m)[2] = m /\ Frame(m)[3] = Newline
                /\ Frame(m)[4] = EndMsg[1] /\ Frame(m)[5] = EndMsg[2]
  BY <1>2, FrameBytes
<1>5. ASSUME NEW i \in 1 .. n - 1
      PROVE  SubSeq(string, i, i + 1) = EndMsg
               <=> string[i] = EndMsg[1] /\ string[i + 1] = EndMsg[2]
  <2> DEFINE t == SubSeq(string, i, i + 1)
  <2>1. i \in Int /\ i + 1 \in Int /\ \A l \in i .. i + 1 : string[l] \in Byte
    BY <1>1
  <2>2. /\ SubSeq(string, i, i + 1) \in Seq(Byte)
        /\ Len(SubSeq(string, i, i + 1)) = IF i <= i + 1 THEN (i + 1) - i + 1 ELSE 0
        /\ \A l \in 1 .. (i + 1) - i + 1 : SubSeq(string, i, i + 1)[l] = string[i + l - 1]
    BY <2>1, SubSeqProperties
  <2>3. t \in Seq(Byte) /\ Len(t) = 2 /\ t[1] = string[i] /\ t[2] = string[i + 1]
    BY <1>1, <2>2
  <2> HIDE DEF t
  <2>4. t = EndMsg <=> t[1] = EndMsg[1] /\ t[2] = EndMsg[2]
    <3>1. ASSUME t[1] = EndMsg[1], t[2] = EndMsg[2] PROVE t = EndMsg
      <4>1. Len(t) = Len(EndMsg) /\ \A l \in 1 .. Len(t) : t[l] = EndMsg[l]
        BY <1>3, <2>3, <3>1
      <4> QED BY <1>3, <2>3, <4>1, SeqEqual
    <3> QED BY <3>1
  <2> QED BY <2>3, <2>4 DEF t
<1>6. \A i \in 1 .. 3 : i <= n => string[i] # EndMsg[1]
  BY <1>2, <1>3, <1>4
<1>7. Ends(string) \in SUBSET Nat /\ \A i \in Ends(string) : i >= 4 /\ i <= n - 1
  <2>1. Ends(string) \in SUBSET Nat
    BY <1>1 DEF Ends
  <2>2. ASSUME NEW i \in Ends(string) PROVE i >= 4 /\ i <= n - 1
    <3>1. i \in 1 .. n - 1 /\ string[i] = EndMsg[1]
      BY <1>5 DEF Ends
    <3> QED BY <1>1, <1>6, <3>1
  <2> QED BY <2>1, <2>2
<1>8. n >= 5 => 4 \in Ends(string)
  <2>1. ASSUME n >= 5 PROVE 4 \in Ends(string)
    <3>1. 4 \in 1 .. n - 1 /\ string[4] = EndMsg[1] /\ string[4 + 1] = EndMsg[2]
      BY <1>1, <1>2, <1>4, <2>1
    <3>2. SubSeq(string, 4, 4 + 1) = EndMsg
      BY <1>5, <3>1
    <3> QED BY <3>1, <3>2 DEF Ends
  <2> QED BY <2>1
<1>9. n >= 5 => Min(Ends(string)) = 4
  <2>1. ASSUME n >= 5 PROVE Min(Ends(string)) = 4
    <3>1. Min(Ends(string)) \in Ends(string) /\ \A i \in Ends(string) : Min(Ends(string)) <= i
      BY <1>7, <1>8, <2>1, LeastOfSet
    <3>2. Min(Ends(string)) \in Nat /\ Min(Ends(string)) >= 4 /\ Min(Ends(string)) <= 4
      BY <1>7, <1>8, <2>1, <3>1
    <3> QED BY <3>2
  <2> QED BY <2>1
<1> HIDE DEF n
<1>10. Ends(string) = {} <=> n < 5
  <2>1. n < 5 => Ends(string) = {}
    BY <1>1, <1>7
  <2>2. ~(n < 5) => Ends(string) # {}
    BY <1>1, <1>8
  <2> QED BY <2>1, <2>2
<1> QED BY <1>9, <1>10 DEF n

\* The text of the next message, cut out of the string.
LEMMA TextIsCut ==
  ASSUME LinkInv, NEW string, NEW a \in 0 .. Len(stream), Holds(string, a), Len(string) >= 5
  PROVE  SubSeq(string, 1, 3) = Text(sent[Len(received) + 1])
<1> DEFINE m == sent[Len(received) + 1]
           t == SubSeq(string, 1, 3)
           u == Text(m)
<1>1. string \in Seq(Byte) /\ Len(string) \in Nat /\ \A i \in 1 .. Len(string) : string[i] \in Byte
  BY LenProperties, ElementOfSeq DEF Holds
<1>2. Len(string) >= 1
  BY <1>1
<1>3. m \in Nat \ {0} /\ \A j \in 1 .. 5 : string[j] = Frame(m)[j]
  BY <1>1, <1>2, NextMessage
<1> HIDE DEF m
<1>4. string[1] = m /\ string[2] = m /\ string[3] = Newline
  BY <1>3, FrameBytes
<1>5. u \in Seq(Byte) /\ Len(u) = 3 /\ u[1] = m /\ u[2] = m /\ u[3] = Newline
  BY <1>3 DEF Text, Byte, Newline
<1>6. t \in Seq(Byte) /\ Len(t) = 3 /\ t[1] = string[1] /\ t[2] = string[2] /\ t[3] = string[3]
  <2>1. \A i \in 1 .. 3 : string[i] \in Byte
    BY <1>1
  <2>2. /\ SubSeq(string, 1, 3) \in Seq(Byte)
        /\ Len(SubSeq(string, 1, 3)) = IF 1 <= 3 THEN 3 - 1 + 1 ELSE 0
        /\ \A i \in 1 .. 3 - 1 + 1 : SubSeq(string, 1, 3)[i] = string[1 + i - 1]
    BY <2>1, SubSeqProperties
  <2> QED BY <2>2
<1> HIDE DEF t, u
<1>7. Len(t) = Len(u) /\ \A i \in 1 .. Len(t) : t[i] = u[i]
  BY <1>4, <1>5, <1>6
<1>8. t = u
  BY <1>5, <1>6, <1>7, SeqEqual
<1> QED BY <1>8 DEF t, u, m

\* What is left of the string when a message and its terminator are cut off.
LEMMA RestIsCut ==
  ASSUME NEW string \in Seq(Byte), Len(string) >= 5
  PROVE  /\ SubSeq(string, 6, Len(string)) \in Seq(Byte)
         /\ Len(SubSeq(string, 6, Len(string))) = Len(string) - 5
         /\ \A j \in 1 .. Len(string) - 5 : SubSeq(string, 6, Len(string))[j] = string[5 + j]
<1> DEFINE n == Len(string)
<1>1. n \in Nat /\ n >= 5 /\ \A i \in 1 .. n : string[i] \in Byte
  BY LenProperties, ElementOfSeq
<1> HIDE DEF n
<1>2. 6 \in Int /\ n \in Int /\ \A i \in 6 .. n : string[i] \in Byte
  BY <1>1
<1>3. /\ SubSeq(string, 6, n) \in Seq(Byte)
      /\ Len(SubSeq(string, 6, n)) = IF 6 <= n THEN n - 6 + 1 ELSE 0
      /\ \A i \in 1 .. n - 6 + 1 : SubSeq(string, 6, n)[i] = string[6 + i - 1]
  BY <1>2, SubSeqProperties
<1>4. Len(SubSeq(string, 6, n)) = n - 5
  BY <1>1, <1>3
<1>5. ASSUME NEW j \in 1 .. n - 5 PROVE SubSeq(string, 6, n)[j] = string[5 + j]
  <2>1. j \in 1 .. n - 6 + 1 /\ 6 + j - 1 = 5 + j
    BY <1>1
  <2> QED BY <1>3, <2>1
<1> QED BY <1>3, <1>4, <1>5 DEF n

\* The library's facts about Append, for messages.
LEMMA AppendIs ==
  ASSUME NEW r \in Seq(Seq(Byte)), NEW t \in Seq(Byte)
  PROVE  /\ Len(Append(r, t)) = Len(r) + 1
         /\ \A i \in 1 .. Len(r) : Append(r, t)[i] = r[i]
         /\ Append(r, t)[Len(r) + 1] = t
BY AppendProperties

\* A string that holds what has arrived is processed as the queue says: nothing
\* is returned, or the next message.
LEMMA ProcessNext ==
  ASSUME LinkInv, NEW string, NEW a \in 0 .. Len(stream), Holds(string, a),
         Process(string), arrived' = a, UNCHANGED senderVars
  PROVE  /\ ReceiverInv'
         /\ \/ UNCHANGED received
            \/ /\ Len(received) < Len(sent)
               /\ received' = Append(received, Text(sent[Len(received) + 1]))
<1> DEFINE q == Len(received)
           n == Len(string)
           m == sent[q + 1]
<1>1. /\ string \in Seq(Byte) /\ n \in Nat /\ q \in Nat /\ Len(sent) \in Nat
      /\ received \in Seq(Seq(Byte)) /\ a \in Nat
  BY LenProperties DEF LinkInv, ChannelTypeOK, Holds
<1>2. sent' = sent /\ stream' = stream
  BY DEF senderVars
<1>3. CASE n < 5
  <2>1. tmpStr' = string /\ received' = received
    BY <1>3, EndsAre DEF Process
  <2> QED BY <1>2, <2>1 DEF LinkInv, ReceiverInv, Holds
<1>4. CASE n >= 5
  <2>1. Ends(string) # {} /\ Min(Ends(string)) = 4
    <3>1. ~(n < 5)
      BY <1>1, <1>4
    <3> QED BY <1>4, <3>1, EndsAre
  <2>2. /\ received' = Append(received, SubSeq(string, 1, 3))
        /\ tmpStr' = SubSeq(string, 6, n)
    BY <2>1 DEF Process
  <2>3. q + 1 \in 1 .. Len(sent) /\ m \in Nat \ {0}
    BY <1>1, <1>4, NextMessage
  <2>4. SubSeq(string, 1, 3) = Text(m)
    BY <1>4, TextIsCut
  <2>5. /\ tmpStr' \in Seq(Byte) /\ Len(tmpStr') = n - 5
        /\ \A j \in 1 .. n - 5 : tmpStr'[j] = string[5 + j]
    BY <1>1, <1>4, <2>2, RestIsCut
  <2>6. Text(m) \in Seq(Byte)
    BY <2>3 DEF Text, Byte, Newline
  <2>7. /\ Len(received') = q + 1
        /\ \A r \in 1 .. q : received'[r] = received[r]
        /\ received'[q + 1] = Text(m)
    <3>1. received' = Append(received, Text(m))
      BY <2>2, <2>4
    <3> QED BY <1>1, <2>6, <3>1, AppendIs
  <2>8. \A r \in 1 .. Len(received') : received'[r] = Text(sent'[r])
    <3> SUFFICES ASSUME NEW r \in 1 .. q + 1 PROVE received'[r] = Text(sent[r])
      BY <1>2, <2>7
    <3>1. CASE r = q + 1
      BY <2>7, <3>1
    <3>2. CASE r # q + 1
      <4>1. r \in 1 .. q
        BY <1>1, <3>2
      <4> QED BY <2>7, <4>1 DEF LinkInv, ReceiverInv
    <3> QED BY <3>1, <3>2
  <2>9. Holds(tmpStr, arrived)'
    <3>1. n = Clean(a) - 5 * q /\ Clean(a) \in Nat
      BY <1>1, PlaceClean DEF Holds
    <3>2. Len(tmpStr') = Clean(a) - 5 * Len(received')
      <4> HIDE DEF n, q
      <4> QED BY <1>1, <2>5, <2>7, <3>1
    <3>3. ASSUME NEW j \in 1 .. Len(tmpStr')
          PROVE  tmpStr'[j] = stream'[Place(5 * Len(received') + j)]
      <4>1. j \in 1 .. n - 5 /\ 5 + j \in 1 .. n
        <5> HIDE DEF n, q
        <5> QED BY <1>1, <1>4, <2>5
      <4>2. tmpStr'[j] = string[5 + j] /\ string[5 + j] = stream[Place(5 * q + (5 + j))]
        BY <2>5, <4>1 DEF Holds
      <4>3. 5 * q + (5 + j) = 5 * Len(received') + j
        <5> HIDE DEF n, q
        <5> QED BY <1>1, <2>7, <4>1
      <4> QED BY <1>2, <4>2, <4>3
    <3>4. tmpStr' \in Seq(Byte)
      BY <2>5
    <3> QED BY <3>2, <3>3, <3>4 DEF Holds
  <2>10. Len(received') <= Len(sent')
    BY <1>1, <1>2, <2>3, <2>7
  <2>11. Len(received) < Len(sent)
    BY <1>1, <2>3
  <2> QED BY <2>2, <2>4, <2>8, <2>9, <2>10, <2>11 DEF ReceiverInv
<1> QED BY <1>1, <1>3, <1>4

\* A buffer read is appended to what is held, without its zeros.
LEMMA FillHolds ==
  ASSUME LinkInv, NEW k \in Available
  PROVE  arrived + k \in 0 .. Len(stream) /\ Holds(Fill(k), arrived + k)
<1> DEFINE a == arrived
           q == Len(received)
           b == RemoveZeros(Piece(stream, a, k))
           m == Clean(a + k) - Clean(a)
           w == SubSeq(b, 1, m)
           l == Len(tmpStr)
<1>1. /\ k \in Nat \ {0} /\ a \in Nat /\ a + k <= Len(stream) /\ Len(stream) \in Nat
      /\ stream \in Seq(Byte) /\ q \in Nat /\ tmpStr \in Seq(Byte) /\ l \in Nat
  BY FillType, LenProperties DEF LinkInv, ChannelTypeOK
<1>2. /\ Piece(stream, a, k) \in Seq(Byte) /\ Len(Piece(stream, a, k)) = k
      /\ Piece(stream, a, k) # << >>
  BY <1>1, PieceIs
<1>3. ZeroEverySixth(stream)
  BY StreamMarks DEF LinkInv
<1>4. b \in Seq(Byte) /\ Len(b) = k
  BY <1>2, RemoveZerosType
<1>5. \A j \in 1 .. k : b[j] = IF Place(Clean(a) + j) <= a + k
                               THEN stream[Place(Clean(a) + j)] ELSE Zero
  BY <1>1, <1>3, ZerosRemoved
<1>6. Fill(k) = tmpStr \o CString(b)
  BY DEF Fill, Piece
<1> HIDE DEF b
<1>7. Clean(a) \in Nat /\ Clean(a + k) \in Nat /\ m \in 0 .. k
  <2> DEFINE x == a \div 6
             r == a % 6
             y == (a + k) \div 6
             t == (a + k) % 6
  <2>1. x \in Nat /\ r \in 0 .. 5 /\ a = 6 * x + r
    BY <1>1
  <2>2. y \in Nat /\ t \in 0 .. 5 /\ a + k = 6 * y + t
    <3> DEFINE c == a + k
    <3>1. c \in Nat
      BY <1>1
    <3> HIDE DEF c
    <3>2. c \div 6 \in Nat /\ c % 6 \in 0 .. 5 /\ c = 6 * (c \div 6) + (c % 6)
      BY <3>1
    <3> QED BY <3>2 DEF c
  <2>3. Clean(a) = a - x /\ Clean(a + k) = (a + k) - y
    BY DEF Clean
  <2> HIDE DEF x, y, r, t
  <2> QED BY <1>1, <2>1, <2>2, <2>3
<1>8. ASSUME NEW j \in 1 .. k
      PROVE  /\ Place(Clean(a) + j) <= a + k <=> j <= m
             /\ b[j] = Zero <=> j > m
  <2> DEFINE c == Clean(a) + j
  <2>1. c \in Nat \ {0} /\ (c <= Clean(a + k) <=> j <= m)
    BY <1>7
  <2> HIDE DEF c
  <2>2. Place(c) \in Nat \ {0} /\ Place(c) % 6 # 0
    BY <2>1, PlaceNext
  <2>3. Place(c) <= a + k <=> c <= Clean(a + k)
    <3>1. a + k \in Nat
      BY <1>1
    <3> QED BY <2>1, <3>1, PlaceClean
  <2>4. Place(c) <= a + k => stream[Place(c)] # Zero
    BY <1>1, <1>3, <2>2 DEF ZeroEverySixth
  <2>5. b[j] = IF Place(c) <= a + k THEN stream[Place(c)] ELSE Zero
    BY <1>5 DEF c
  <2>6. Place(c) <= a + k <=> j <= m
    BY <2>1, <2>3
  <2>7. b[j] = Zero <=> j > m
    BY <1>7, <2>4, <2>5, <2>6
  <2> QED BY <2>6, <2>7 DEF c
<1> HIDE DEF m
<1>9. CString(b) = w
  BY <1>4, <1>7, <1>8, CStringIs
<1>10. /\ w \in Seq(Byte) /\ Len(w) = m
       /\ \A j \in 1 .. m : w[j] = stream[Place(Clean(a) + j)]
  <2>1. \A i \in 1 .. m : b[i] \in Byte
    BY <1>4, <1>7, ElementOfSeq
  <2>2. /\ SubSeq(b, 1, m) \in Seq(Byte)
        /\ Len(SubSeq(b, 1, m)) = IF 1 <= m THEN m - 1 + 1 ELSE 0
        /\ \A i \in 1 .. m - 1 + 1 : SubSeq(b, 1, m)[i] = b[1 + i - 1]
    BY <1>7, <2>1, SubSeqProperties
  <2>3. Len(w) = m /\ \A j \in 1 .. m : w[j] = b[j]
    BY <1>7, <2>2
  <2>4. ASSUME NEW j \in 1 .. m PROVE w[j] = stream[Place(Clean(a) + j)]
    <3>1. j \in 1 .. k /\ j <= m
      BY <1>1, <1>7
    <3>2. Place(Clean(a) + j) <= a + k
      BY <1>8, <3>1
    <3> QED BY <1>5, <2>3, <3>1, <3>2
  <2> QED BY <2>2, <2>3, <2>4
<1> HIDE DEF w
<1>11. /\ tmpStr \o w \in Seq(Byte) /\ Len(tmpStr \o w) = l + m
       /\ \A j \in 1 .. l + m : (tmpStr \o w)[j] = IF j <= l THEN tmpStr[j] ELSE w[j - l]
  BY <1>1, <1>10, BytesConcat
<1>12. l = Clean(a) - 5 * q /\ \A j \in 1 .. l : tmpStr[j] = stream[Place(5 * q + j)]
  BY DEF LinkInv, ReceiverInv, Holds
<1> HIDE DEF a, q, l
<1>13. l + m = Clean(a + k) - 5 * q
  BY <1>1, <1>7, <1>12 DEF m
<1>14. ASSUME NEW j \in 1 .. l + m PROVE (tmpStr \o w)[j] = stream[Place(5 * q + j)]
  <2>1. CASE j <= l
    <3>1. j \in 1 .. l
      BY <1>1, <2>1
    <3> QED BY <1>11, <1>12, <2>1, <3>1
  <2>2. CASE ~(j <= l)
    <3>1. j - l \in 1 .. m /\ Clean(a) + (j - l) = 5 * q + j
      <4>1. l \in Nat /\ q \in Nat /\ Clean(a) \in Nat /\ m \in Nat /\ l = Clean(a) - 5 * q
            /\ j \in Nat /\ j <= l + m /\ j > l
        BY <1>1, <1>7, <1>12, <2>2
      <4> QED BY <4>1
    <3> QED BY <1>10, <1>11, <2>2, <3>1
  <2> QED BY <2>1, <2>2
<1>15. Fill(k) = tmpStr \o w
  BY <1>6, <1>9
<1>16. a + k \in 0 .. Len(stream)
  BY <1>1
<1> QED BY <1>11, <1>13, <1>14, <1>15, <1>16 DEF Holds, a, q

-----------------------------------------------------------------------------
(* The queue.                                                              *)

\* send changes nothing that the receiver has, and no byte that was sent.
LEMMA SendInv ==
  ASSUME LinkInv, ~Timeouts, Send
  PROVE  /\ LinkInv' /\ UNCHANGED received
         /\ UNCHANGED sent \/ (sent' = Append(sent, offered + 1))
<1>1. ChannelTypeOK' /\ Framing'
  <2>1. SenderTypeOK
    BY DEF LinkInv, ChannelTypeOK, SenderTypeOK
  <2> QED BY <2>1, SendType, SendPreserves DEF LinkInv
<1>2. /\ offered \in Nat /\ offered' = offered + 1
      /\ UNCHANGED <<arrived, tmpStr, connected, received, link>>
  BY ChannelAssumption DEF LinkInv, ChannelTypeOK, Send, receiverVars, ChannelAssumption
<1>3. \E out \in Seq(Byte) : stream' = stream \o out
  <2> DEFINE message == partialPrevMsg \o Frame(offered + 1)
  <2>1. offered + 1 \in Nat \ {0}
    BY <1>2
  <2>2. message \in Seq(Byte)
    BY <2>1, FrameType, BytesConcat DEF LinkInv, ChannelTypeOK
  <2>3. PICK result \in SendAll(Len(message)) : stream' = stream \o SubSeq(message, 1, result.total)
    BY DEF Send
  <2> HIDE DEF message
  <2>4. result.total \in 0 .. Len(message)
    BY <2>2, LenProperties DEF SendAll
  <2>5. SubSeq(message, 1, result.total) \in Seq(Byte)
    BY <2>2, <2>4, CutType
  <2> QED BY <2>3, <2>5
<1>4. /\ Len(stream) \in Nat /\ stream \in Seq(Byte)
      /\ \A i \in 1 .. Len(stream) : stream'[i] = stream[i]
  <2>1. PICK out \in Seq(Byte) : stream' = stream \o out
    BY <1>3
  <2>2. stream \in Seq(Byte) /\ Len(stream) \in Nat /\ Len(out) \in Nat
    BY LenProperties DEF LinkInv, ChannelTypeOK
  <2>3. \A i \in 1 .. Len(stream) + Len(out) : (stream \o out)[i] = IF i <= Len(stream) THEN stream[i] ELSE out[i - Len(stream)]
    BY <2>2, BytesConcat
  <2> QED BY <2>1, <2>2, <2>3
<1>5. UNCHANGED sent \/ sent' = Append(sent, offered + 1)
  BY DEF Send
<1>6. /\ sent \in Seq(1 .. MaxMessages) /\ Len(sent) \in Nat /\ Len(received) \in Nat
      /\ \A k \in 1 .. Len(sent) : sent[k] \in Nat
  <2>1. sent \in Seq(1 .. MaxMessages) /\ received \in Seq(Seq(Byte))
    BY DEF LinkInv, ChannelTypeOK
  <2>2. \A k \in 1 .. Len(sent) : sent[k] \in 1 .. MaxMessages
    BY <2>1, ElementOfSeq
  <2>3. Len(sent) \in Nat /\ Len(received) \in Nat
    BY <2>1, LenProperties
  <2> QED BY <2>1, <2>2, <2>3
<1>7. /\ Len(sent') \in Nat /\ Len(sent) <= Len(sent')
      /\ \A k \in 1 .. Len(sent) : sent'[k] = sent[k]
      /\ \A k \in 1 .. Len(sent') : sent'[k] = sent[k] \/ sent'[k] = offered + 1
      /\ \A k \in 1 .. Len(sent') : k > Len(sent) => sent'[k] = offered + 1
  <2>1. CASE UNCHANGED sent
    BY <1>6, <2>1
  <2>2. CASE sent' = Append(sent, offered + 1)
    <3>1. offered + 1 \in 1 .. MaxMessages
      BY <1>2, ChannelAssumption DEF LinkInv, ChannelTypeOK, Send, ChannelAssumption
    <3>2. /\ Len(Append(sent, offered + 1)) = Len(sent) + 1
          /\ \A k \in 1 .. Len(sent) : Append(sent, offered + 1)[k] = sent[k]
          /\ Append(sent, offered + 1)[Len(sent) + 1] = offered + 1
      BY <1>6, <3>1, AppendProperties
    <3> DEFINE n == Len(sent)
    <3>3. \A k \in 1 .. n + 1 : k \in 1 .. n \/ k = n + 1
      BY <1>6
    <3> QED BY <1>6, <2>2, <3>2, <3>3
  <2> QED BY <1>5, <2>1, <2>2
<1>8. SentOffered'
  <2> SUFFICES ASSUME NEW k \in 1 .. Len(sent') PROVE sent'[k] <= offered + 1
    BY <1>2 DEF SentOffered
  <2>1. CASE k <= Len(sent)
    <3>1. k \in 1 .. Len(sent)
      BY <1>6, <1>7, <2>1
    <3>2. sent'[k] = sent[k] /\ sent[k] \in Nat /\ sent[k] <= offered
      BY <1>6, <1>7, <3>1 DEF LinkInv, SentOffered
    <3> QED BY <1>2, <3>2
  <2>2. CASE k > Len(sent)
    BY <1>2, <1>7, <2>2
  <2>3. k <= Len(sent) \/ k > Len(sent)
    BY <1>6, <1>7
  <2> QED BY <2>1, <2>2, <2>3
<1>9. ReceiverInv'
  <2>1. Len(received) <= Len(sent) /\ \A r \in 1 .. Len(received) : received[r] = Text(sent[r])
    BY DEF LinkInv, ReceiverInv
  <2>2. Len(received) <= Len(sent') /\ \A r \in 1 .. Len(received) : received[r] = Text(sent'[r])
    <3>1. \A r \in 1 .. Len(received) : r \in 1 .. Len(sent)
      BY <1>6, <2>1
    <3> QED BY <1>6, <1>7, <2>1, <3>1
  <2>3. Holds(tmpStr, arrived)'
    <3>1. Holds(tmpStr, arrived)
      BY DEF LinkInv, ReceiverInv
    <3> SUFFICES ASSUME NEW j \in 1 .. Len(tmpStr)
                 PROVE  stream'[Place(5 * Len(received) + j)] = stream[Place(5 * Len(received) + j)]
      BY <1>2, <3>1 DEF Holds
    <3> DEFINE c == 5 * Len(received) + j
    <3>2. /\ Len(tmpStr) = Clean(arrived) - 5 * Len(received) /\ Len(tmpStr) \in Nat
          /\ arrived \in Nat /\ arrived <= Len(stream)
      BY <1>4, <3>1, LenProperties DEF Holds, LinkInv, ChannelTypeOK
    <3>3. Clean(arrived) \in Nat
      BY <3>2, PlaceClean
    <3>4. c \in Nat \ {0} /\ c <= Clean(arrived)
      BY <1>6, <3>2, <3>3
    <3> HIDE DEF c
    <3>5. Place(c) \in Nat \ {0} /\ Place(c) <= arrived
      BY <3>2, <3>4, PlaceNext, PlaceClean
    <3>6. Place(c) \in 1 .. Len(stream)
      BY <1>4, <3>2, <3>5
    <3> QED BY <1>4, <3>6 DEF c
  <2> QED BY <1>2, <2>2, <2>3 DEF ReceiverInv
<1> QED BY <1>1, <1>2, <1>5, <1>8, <1>9 DEF LinkInv

\* receive returns nothing, or the next of the messages sent.
LEMMA ReceiveInv ==
  ASSUME LinkInv, Receive
  PROVE  /\ LinkInv' /\ UNCHANGED sent
         /\ \/ UNCHANGED received
            \/ /\ Len(received) < Len(sent)
               /\ received' = Append(received, Text(sent[Len(received) + 1]))
<1>1. UNCHANGED senderVars /\ UNCHANGED <<offered, partialPrevMsg, stream, sent, link>>
  BY DEF Receive, senderVars
<1>2. ChannelTypeOK' /\ Framing' /\ SentOffered'
  BY <1>1, ReceiveType DEF LinkInv, Framing, SentOffered
<1>3. /\ ReceiverInv'
      /\ \/ UNCHANGED received
         \/ /\ Len(received) < Len(sent)
            /\ received' = Append(received, Text(sent[Len(received) + 1]))
  <2>1. CASE ReceiveBuffered
    <3>1. /\ Process(tmpStr) /\ arrived' = arrived /\ arrived \in 0 .. Len(stream)
          /\ Holds(tmpStr, arrived)
      BY <2>1 DEF ReceiveBuffered, LinkInv, ReceiverInv, ChannelTypeOK
    <3> QED BY <1>1, <3>1, ProcessNext
  <2>2. CASE ReceiveBytes
    <3>1. PICK k \in Available : Process(Fill(k)) /\ arrived' = arrived + k
      BY <2>2 DEF ReceiveBytes
    <3>2. arrived + k \in 0 .. Len(stream) /\ Holds(Fill(k), arrived + k)
      BY FillHolds
    <3> QED BY <1>1, <3>1, <3>2, ProcessNext
  <2>3. CASE ReceiveEnd
    BY <1>1, <2>3 DEF ReceiveEnd, LinkInv, ReceiverInv, Holds
  <2> QED BY <2>1, <2>2, <2>3 DEF Receive
<1> QED BY <1>1, <1>2, <1>3 DEF LinkInv

\* What happens to the link changes nothing at its ends.
LEMMA OtherInv ==
  ASSUME LinkInv, UNCHANGED <<senderVars, receiverVars>>, ChannelTypeOK'
  PROVE  LinkInv' /\ UNCHANGED sent /\ UNCHANGED received
BY DEF LinkInv, senderVars, receiverVars, Framing, SentOffered, ReceiverInv, Holds

\* A text has its message's number.
LEMMA NumberOfText ==
  ASSUME NEW m \in 1 .. MaxMessages
  PROVE  Number(Text(m)) = m
BY DEF Number, Text

\* What the queue has delivered when one more message is received.
LEMMA DeliveredNext ==
  ASSUME received \in Seq(Seq(Byte)), NEW m \in 1 .. MaxMessages,
         received' = Append(received, Text(m))
  PROVE  [k \in DOMAIN received' |-> Number(received'[k])]
           = Append([k \in DOMAIN received |-> Number(received[k])], m)
<1> DEFINE n == Len(received)
           d == [k \in DOMAIN received |-> Number(received[k])]
           e == [k \in DOMAIN received' |-> Number(received'[k])]
<1>1. n \in Nat /\ DOMAIN received = 1 .. n
  BY LenProperties
<1>2. m \in Nat \ {0}
  BY ChannelAssumption DEF ChannelAssumption
<1>3. Text(m) \in Seq(Byte)
  BY <1>2 DEF Text, Byte, Newline
<1>4. /\ Append(received, Text(m)) \in Seq(Seq(Byte))
      /\ Len(Append(received, Text(m))) = n + 1
      /\ \A i \in 1 .. n : Append(received, Text(m))[i] = received[i]
      /\ Append(received, Text(m))[n + 1] = Text(m)
  BY <1>3, AppendIs, AppendProperties
<1>5. DOMAIN received' = 1 .. n + 1
  BY <1>4, LenProperties
<1>6. \A k \in DOMAIN received : Number(received[k]) \in Int
  <2> SUFFICES ASSUME NEW k \in 1 .. n PROVE Number(received[k]) \in Int
    BY <1>1
  <2>1. received[k] \in Seq(Byte)
    BY ElementOfSeq
  <2>2. ASSUME NEW o \in 1 .. MaxMessages, received[k] = Text(o) PROVE received[k][1] \in Int
    BY <2>2 DEF Text
  <2> QED BY <2>2 DEF Number
<1>7. d \in Seq(Int) /\ Len(d) = n /\ \A k \in 1 .. n : d[k] = Number(received[k])
  <2>1. d \in [1 .. n -> Int]
    BY <1>1, <1>6
  <2>2. \A k \in 1 .. n : d[k] = Number(received[k])
    BY <1>1
  <2> HIDE DEF d, n
  <2> QED BY <1>1, <2>1, <2>2
<1>8. /\ e \in Seq(Int) /\ Len(e) = n + 1 /\ \A k \in 1 .. n : e[k] = Number(received[k])
      /\ e[n + 1] = m
  <2>1. \A k \in 1 .. n : k \in 1 .. n + 1 /\ received'[k] = received[k]
    BY <1>1, <1>4
  <2>2. n + 1 \in 1 .. n + 1 /\ received'[n + 1] = Text(m)
    BY <1>1, <1>4
  <2>3. \A k \in 1 .. n + 1 : k \in 1 .. n \/ k = n + 1
    BY <1>1
  <2>4. \A k \in 1 .. n + 1 : e[k] = Number(received'[k])
    BY <1>5
  <2>5. e[n + 1] = m /\ m \in Int
    BY <2>2, <2>4, NumberOfText
  <2>6. \A k \in 1 .. n : e[k] = Number(received[k])
    BY <2>1, <2>4
  <2>7. e \in [1 .. n + 1 -> Int]
    <3>1. \A k \in 1 .. n + 1 : e[k] \in Int
      BY <1>1, <1>6, <2>3, <2>5, <2>6
    <3>2. e = [k \in 1 .. n + 1 |-> Number(received'[k])]
      BY <1>5
    <3>3. e = [k \in 1 .. n + 1 |-> e[k]]
      BY <3>2
    <3> HIDE DEF e, n
    <3> QED BY <3>1, <3>3
  <2> HIDE DEF e, n
  <2> QED BY <1>1, <2>5, <2>6, <2>7
<1> HIDE DEF d, e, n
<1>9. /\ Append(d, m) \in Seq(Int) /\ Len(Append(d, m)) = n + 1
      /\ \A k \in 1 .. n : Append(d, m)[k] = d[k]
      /\ Append(d, m)[n + 1] = m
  BY <1>2, <1>7, AppendProperties
<1>10. \A k \in 1 .. n + 1 : e[k] = Append(d, m)[k]
  <2>1. \A k \in 1 .. n + 1 : k \in 1 .. n \/ k = n + 1
    BY <1>1 DEF n
  <2> QED BY <1>7, <1>8, <1>9, <2>1
<1>11. e = Append(d, m)
  BY <1>8, <1>9, <1>10, SeqEqual
<1> QED BY <1>11 DEF d, e

\* Without a send timeout the two ends of a connection are a queue that may
\* refuse a message and loses, changes, doubles or reorders none it accepted,
\* for any number of messages and any size of the receiver's buffer.
THEOREM ChannelImplementsLossyQueue == ASSUME ~Timeouts PROVE Spec => ImplementsLossyQueue
<1>1. Init => LinkInv
  <2> SUFFICES ASSUME Init PROVE LinkInv
    OBVIOUS
  <2>1. ChannelTypeOK
    <3>1. Len(stream) = 0
      BY DEF Init
    <3> QED BY <3>1, ChannelAssumption DEF ChannelAssumption, Init, ChannelTypeOK
  <2>2. Framing
    <3>1. << >> \o << >> = << >>
      OBVIOUS
    <3> QED BY <3>1, FramesEmpty DEF Init, Framing
  <2>3. Clean(0) = 0 /\ Len(tmpStr) = 0 /\ Len(received) = 0 /\ Len(sent) = 0
    BY DEF Init, Clean
  <2> QED BY <2>1, <2>2, <2>3 DEF LinkInv, SentOffered, ReceiverInv, Holds, Init, ChannelTypeOK
<1>2. Init => Lossy!Init
  BY DEF Init, Lossy!Init
<1>3. LinkInv /\ [Next]_channelVars => LinkInv' /\ [Lossy!Next]_(Lossy!queueVars)
  <2> SUFFICES ASSUME LinkInv, [Next]_channelVars
               PROVE  LinkInv' /\ [Lossy!Next]_(Lossy!queueVars)
    OBVIOUS
  <2> DEFINE d == [k \in DOMAIN received |-> Number(received[k])]
  <2>1. CASE Send
    <3>1. LinkInv' /\ UNCHANGED received /\ (UNCHANGED sent \/ sent' = Append(sent, offered + 1))
      BY <2>1, SendInv
    <3>2. CASE UNCHANGED sent
      BY <3>1, <3>2 DEF Lossy!queueVars
    <3>3. CASE sent' = Append(sent, offered + 1)
      <4>1. offered + 1 \in 1 .. MaxMessages
        BY <2>1, ChannelAssumption DEF LinkInv, ChannelTypeOK, Send, ChannelAssumption
      <4>2. Lossy!IsNew(offered + 1)
        <5>1. DOMAIN sent = 1 .. Len(sent) /\ \A k \in 1 .. Len(sent) : sent[k] \in 1 .. MaxMessages
          BY LenProperties, ElementOfSeq DEF LinkInv, ChannelTypeOK
        <5> QED BY <4>1, <5>1 DEF Lossy!IsNew, LinkInv, SentOffered, ChannelTypeOK
      <4>3. Lossy!Accept(offered + 1)
        BY <3>1, <3>3 DEF Lossy!Accept
      <4> QED BY <3>1, <4>1, <4>2, <4>3 DEF Lossy!Next
    <3> QED BY <3>1, <3>2, <3>3
  <2>2. CASE Receive
    <3>1. /\ LinkInv' /\ UNCHANGED sent
          /\ \/ UNCHANGED received
             \/ /\ Len(received) < Len(sent)
                /\ received' = Append(received, Text(sent[Len(received) + 1]))
      BY <2>2, ReceiveInv
    <3>2. CASE UNCHANGED received
      BY <3>1, <3>2 DEF Lossy!queueVars
    <3>3. CASE /\ Len(received) < Len(sent)
               /\ received' = Append(received, Text(sent[Len(received) + 1]))
      <4> DEFINE m == sent[Len(received) + 1]
      <4>1. received \in Seq(Seq(Byte)) /\ Len(received) \in Nat /\ Len(sent) \in Nat
            /\ DOMAIN received = 1 .. Len(received)
        BY LenProperties DEF LinkInv, ChannelTypeOK
      <4>2. m \in 1 .. MaxMessages
        <5>1. Len(received) + 1 \in 1 .. Len(sent)
          BY <3>3, <4>1
        <5> QED BY <5>1, ElementOfSeq DEF LinkInv, ChannelTypeOK
      <4>3. d' = Append(d, m)
        BY <3>3, <4>1, <4>2, DeliveredNext
      <4>4. Len(d) = Len(received)
        BY <4>1
      <4>5. Lossy!Deliver
        BY <3>1, <3>3, <4>3, <4>4 DEF Lossy!Deliver
      <4> QED BY <3>1, <4>5 DEF Lossy!Next
    <3> QED BY <3>1, <3>2, <3>3
  <2>3. CASE UNCHANGED <<senderVars, receiverVars>> /\ link' \in {"up", "closed", "reset"}
    <3>1. ChannelTypeOK'
      <4>1. Ends(tmpStr)' = Ends(tmpStr)
        BY <2>3 DEF Ends, receiverVars
      <4> QED BY <2>3, <4>1 DEF LinkInv, ChannelTypeOK, senderVars, receiverVars
    <3>2. LinkInv' /\ UNCHANGED sent /\ UNCHANGED received
      BY <2>3, <3>1, OtherInv
    <3> QED BY <3>2 DEF Lossy!queueVars
  <2> QED BY <2>1, <2>2, <2>3 DEF Next, SenderCloses, Reset, channelVars, LinkInv, ChannelTypeOK
<1> QED BY <1>1, <1>2, <1>3, PTL DEF Spec, ImplementsLossyQueue, Lossy!Spec

=============================================================================
