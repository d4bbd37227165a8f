----------------------------- MODULE TCPChannel ------------------------------
(***************************************************************************)
(* One connection of ofxNetwork: ofxTCPClient::send at one end, over       *)
(* ofxTCPManager::SendAll, and at the other end ofxTCPClient::receive, the *)
(* readLine of the Processing client, or the XMLSocket of the Flash port.  *)
(*                                                                         *)
(* The network is external: it carries the bytes it takes in order, but it *)
(* takes as many of them as it pleases, hands them out in pieces of any    *)
(* size, and may reset the connection.                                     *)
(*                                                                         *)
(* Abstractions.                                                           *)
(*  - The text of a message is two bytes and a newline; its terminator     *)
(*    [/TCP] is two bytes, so that both can be torn; the zero "for flash"  *)
(*    is a byte of its own.                                                *)
(*  - A call of send or receive is one step: both ends see nothing of the  *)
(*    other but the bytes.                                                 *)
(*  - Timeouts says whether a send timeout may strike (SetTimeoutSend);    *)
(*    the default, NO_TIMEOUT, is taken for never (it is 18 hours).        *)
(***************************************************************************)
EXTENDS Integers, Sequences, SequencesExt, FiniteSets, FiniteSetsExt

CONSTANTS
  MaxMessages,   \* bound: how often send is called
  MaxRead,       \* TCP_MAX_MSG_SIZE: 512 in the program
  Timeouts

ASSUME ChannelAssumption ==
  /\ MaxMessages \in Nat
  /\ MaxRead \in Nat \ {0}
  /\ Timeouts \in BOOLEAN

VARIABLES
  offered,          \* how often send was called
  partialPrevMsg,   \* sender: the rest of a message sent in part
  stream,           \* every byte the network took, in order
  link,             \* the connection is up, closed by the sender, or reset
  arrived,          \* how many bytes of stream the receiver has read
  tmpStr,           \* receiver: bytes without a terminator so far
  connected,        \* receiver: not closed
  sent,             \* history: the messages for which send returned true
  received          \* history: what receive returned, but for ""

senderVars == <<offered, partialPrevMsg, stream, sent>>
receiverVars == <<arrived, tmpStr, connected, received>>
channelVars == <<senderVars, receiverVars, link>>

\* A byte of the text of message m is m.
Newline == 0
Zero == -1
EndMsg == << -2, -3 >>

Byte == {-3, -2, Zero, Newline} \cup (Nat \ {0})

Text(m) == << m, m, Newline >>

\* Mutant of Frame: without the zero.
FrameNoZero(m) == Text(m) \o EndMsg

\* What send appends for a message: the text, the terminator, and a zero.
Frame(m) == Text(m) \o EndMsg \o << Zero >>

-----------------------------------------------------------------------------
(* The sender.                                                             *)

SOCKET_ERROR == -1
SOCKET_TIMEOUT == -2

\* How many bytes of n the network may take from SendAll, and what SendAll
\* returns: an error only if it took none, a timeout however many it took.
SendAll(n) ==
  IF link # "up"
  THEN {[total |-> 0, ret |-> SOCKET_ERROR]}
  ELSE {[total |-> 0, ret |-> SOCKET_ERROR]}
         \cup {[total |-> k, ret |-> k] : k \in 1 .. n}
         \cup {[total |-> k, ret |-> SOCKET_TIMEOUT] : k \in IF Timeouts THEN 0 .. n ELSE {}}

\* Mutant of KeptBack: the rest is cut one byte late.
KeptBackLate(message, ret) ==
  IF ret < 0 THEN partialPrevMsg ELSE SubSeq(message, ret + 2, Len(message))

\* Mutant of KeptBack: an error is taken for a message sent.
KeptBackNone(message, ret) ==
  IF ret < 0 THEN << >> ELSE SubSeq(message, ret + 1, Len(message))

\* partialPrevMsg after a send.  (ret = 0, "other side disconnected", cannot
\* come from SendAll for a message that is not empty.)
KeptBack(message, ret) ==
  IF ret < 0 THEN partialPrevMsg ELSE SubSeq(message, ret + 1, Len(message))

Send ==
  /\ offered < MaxMessages
  /\ offered' = offered + 1
  /\ LET message == partialPrevMsg \o Frame(offered + 1)
     IN  \E result \in SendAll(Len(message)) :
           /\ stream' = stream \o SubSeq(message, 1, result.total)
           /\ partialPrevMsg' = KeptBack(message, result.ret)
           /\ sent' = IF result.ret < 0 THEN sent ELSE Append(sent, offered + 1)
  /\ UNCHANGED <<receiverVars, link>>

SenderCloses ==
  /\ link = "up" /\ link' = "closed"
  /\ UNCHANGED <<senderVars, receiverVars>>

Reset ==
  /\ link # "reset" /\ link' = "reset"
  /\ UNCHANGED <<senderVars, receiverVars>>

-----------------------------------------------------------------------------
(* The receiver.                                                           *)

\* A zero is moved to the end, and everything after it to the left.
ZeroMoved(b, i) == IF b[i] = Zero THEN RemoveAt(b, i) \o << Zero >> ELSE b

\* removeZeros does so for one position after the other, all but the last.
RemoveZeros(buffer) ==
  LET pass[i \in 0 .. Len(buffer) - 1] ==
        IF i = 0 THEN buffer ELSE ZeroMoved(pass[i - 1], i)
  IN  pass[Len(buffer) - 1]

\* What "tmpStr += tmpBuff" appends of a buffer: up to the first zero.
CString(buffer) ==
  LET zeros == {i \in DOMAIN buffer : buffer[i] = Zero}
  IN  IF zeros = {} THEN buffer ELSE SubSeq(buffer, 1, Min(zeros) - 1)

\* tmpStr.find(STR_END_MSG): the places where the terminator begins.
Ends(string) == {i \in 1 .. Len(string) - 1 : SubSeq(string, i, i + 1) = EndMsg}

\* Bytes read from the network, or << >> for none; a reset link gives none.
Available ==
  IF link = "reset" \/ ~connected THEN {}
  ELSE {k \in 1 .. MaxRead : arrived + k <= Len(stream)}

\* Mutant of Fill: the buffer takes the place of what was kept.
FillAnew(k) == CString(RemoveZeros(SubSeq(stream, arrived + 1, arrived + k)))

\* Mutant of Fill: zeros are not removed.
FillWithZeros(k) == tmpStr \o CString(SubSeq(stream, arrived + 1, arrived + k))

Fill(k) == tmpStr \o CString(RemoveZeros(SubSeq(stream, arrived + 1, arrived + k)))

\* Mutant of Process: the terminator is left in place.
ProcessKeepsEnd(string) ==
  IF Ends(string) = {}
  THEN tmpStr' = string /\ UNCHANGED received
  ELSE LET end == Min(Ends(string))
       IN  /\ received' = Append(received, SubSeq(string, 1, end - 1))
           /\ tmpStr' = SubSeq(string, end + 1, Len(string))

\* The first message of the string is returned, the rest kept.
Process(string) ==
  IF Ends(string) = {}
  THEN tmpStr' = string /\ UNCHANGED received
  ELSE LET end == Min(Ends(string))
       IN  /\ received' = Append(received, SubSeq(string, 1, end - 1))
           /\ tmpStr' = SubSeq(string, end + 2, Len(string))

\* A complete message is returned before anything is read.
ReceiveBuffered ==
  /\ Ends(tmpStr) # {}
  /\ Process(tmpStr)
  /\ UNCHANGED <<arrived, connected>>

ReceiveBytes ==
  /\ Ends(tmpStr) = {}
  /\ \E k \in Available : Process(Fill(k)) /\ arrived' = arrived + k
  /\ UNCHANGED connected

\* Mutant of ReceiveEnd: the end is noticed before what was read is returned.
ReceiveEndEarly ==
  /\ connected
  /\ link = "reset" \/ (link = "closed" /\ arrived = Len(stream))
  /\ connected' = FALSE
  /\ UNCHANGED <<arrived, tmpStr, received>>

\* The end of the stream, or a reset: the receiver closes.
ReceiveEnd ==
  /\ Ends(tmpStr) = {} /\ connected
  /\ link = "reset" \/ (link = "closed" /\ arrived = Len(stream))
  /\ connected' = FALSE
  /\ UNCHANGED <<arrived, tmpStr, received>>

\* Mutant of Receive: nothing is processed without new bytes.
ReceiveOnlyFresh ==
  /\ ReceiveBytes \/ ReceiveEnd
  /\ UNCHANGED <<senderVars, link>>

Receive ==
  /\ ReceiveBuffered \/ ReceiveBytes \/ ReceiveEnd
  /\ UNCHANGED <<senderVars, link>>

-----------------------------------------------------------------------------
Init ==
  /\ offered = 0 /\ partialPrevMsg = << >> /\ stream = << >> /\ sent = << >>
  /\ link = "up"
  /\ arrived = 0 /\ tmpStr = << >> /\ connected = TRUE /\ received = << >>

Next == Send \/ SenderCloses \/ Reset \/ Receive

Spec == Init /\ [][Next]_channelVars

\* The receiver calls receive again and again, as testApp does in update().
FairSpec == Spec /\ WF_channelVars(Receive)

-----------------------------------------------------------------------------
(* Properties.                                                             *)

FrameLength == Len(Text(0)) + Len(EndMsg) + 1

\* The frames of the messages s, one after the other.
Frames(s) ==
  [i \in 1 .. FrameLength * Len(s) |->
     Frame(s[((i - 1) \div FrameLength) + 1])[((i - 1) % FrameLength) + 1]]

\* The ends of the connection hold bytes and message numbers; a receiver that
\* has closed has no whole message left.
ChannelTypeOK ==
  /\ offered \in 0 .. MaxMessages
  /\ partialPrevMsg \in Seq(Byte) /\ stream \in Seq(Byte) /\ tmpStr \in Seq(Byte)
  /\ link \in {"up", "closed", "reset"}
  /\ arrived \in 0 .. Len(stream)
  /\ connected \in BOOLEAN
  /\ sent \in Seq(1 .. MaxMessages)
  /\ received \in Seq(Seq(Byte))
  /\ ~connected => Ends(tmpStr) = {}

\* However a message is torn, and whichever are refused, what is on the wire
\* and what waits to follow it are whole frames of the messages for which send
\* returned true: "store the part that hasn't been sent and send with the next
\* message to not corrupt next messages" (ofxTCPClient.cpp:108).
Framing == stream \o partialPrevMsg = Frames(sent)

\* The lines that PositionReader.parsetxt gets from readLine, with the
\* terminator of the message before, which it drops by its length.
Line(k) ==
  LET ends == {i \in DOMAIN stream : stream[i] = Newline}
      kth(n) == CHOOSE i \in ends : Cardinality({j \in ends : j <= i}) = n
      line == SubSeq(stream, IF k = 1 THEN 1 ELSE kth(k - 1) + 1, kth(k) - 1)
  IN  IF IsPrefix(EndMsg, line) THEN SubSeq(line, Len(EndMsg) + 2, Len(line)) ELSE line

\* The Processing client, which knows nothing of terminators but their length,
\* reads exactly the messages sent, in order.
LinesAreMessages ==
  \A k \in 1 .. Cardinality({i \in DOMAIN stream : stream[i] = Newline}) :
    k <= Len(sent) /\ Line(k) \o << Newline >> = Text(sent[k])

\* The number of a message received; 0 for anything that was never sent.
Number(string) ==
  IF \E m \in 1 .. MaxMessages : string = Text(m) THEN string[1] ELSE 0

Lossy == INSTANCE LossyQueue WITH
  Message <- 1 .. MaxMessages,
  accepted <- sent, delivered <- [k \in DOMAIN received |-> Number(received[k])]

\* The bytes, the terminators, the rests kept at both ends and the order of
\* the calls amount to a queue that may refuse messages, and nothing else.
ImplementsLossyQueue == Lossy!Spec

\* receive returns every message whose terminator the network has taken, also
\* those that came in one read, unless the connection is reset.
WholeMessagesArrive ==
  \A n \in 1 .. MaxMessages :
    Len(stream) >= n * FrameLength - 1 ~> (Len(received) >= n \/ link = "reset")

=============================================================================
