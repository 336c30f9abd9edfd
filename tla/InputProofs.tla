---------------------------- MODULE InputProofs ----------------------------
(***************************************************************************)
(* Proofs about FrameParser and IpScan, and about all inputs together.     *)
(*                                                                         *)
(* FrameParser.  For any anchor: the types, and that no                    *)
(* handler is given less data than it reads; the inductive invariant adds  *)
(* to the types that a frame about to be dispatched is whole.  For an      *)
(* anchor that sends what the handlers take: every frame is handled when   *)
(* it is there, and the parser implements OrderedDelivery; the invariant   *)
(* says where the frames lie on the wire, that the buffer is a piece of    *)
(* it, and that what is done with ends where the next message may begin.   *)
(*                                                                         *)
(* IpScan.  For interfaces whose netmasks leave the last field to the      *)
(* hosts: what the iterator counts is the number that the host's parts of  *)
(* the four fields make, so that no two counts give the same address, and  *)
(* only the first and the last give a reserved one.                        *)
(*                                                                         *)
(* MCInput.  The types of every variable, from the invariants of the       *)
(* parts: of the parser, of a scan for any netmask, and those of           *)
(* StubProofs for the discovery thread and for the shared connection.      *)
(***************************************************************************)
EXTENDS MCInput, StubProofs, SequenceTheorems, FiniteSetTheorems, TLAPS

\* A frame on the wire is a sequence of bytes, whatever stands for the checksum.
LEMMA FrameWith ==
  ASSUME NEW m \in Message, NEW crc \in Bytes
  PROVE  <<STX, Len(m) % 256, Len(m) \div 256>> \o m \o crc \o <<ETX>> \in Bytes
<1>1. m \in Seq(Byte) /\ Len(m) <= 65535
  BY MessageAssumption DEF Bytes
<1>2. Len(m) \in Nat
  BY <1>1
<1>3. Len(m) % 256 \in Byte /\ Len(m) \div 256 \in Byte
  <2> DEFINE n == Len(m)
  <2>1. n \in Nat /\ n <= 65535 BY <1>1, <1>2
  <2> HIDE DEF n
  <2>2. n % 256 \in 0..255 /\ n \div 256 \in 0..255 BY <2>1
  <2> QED BY <2>2 DEF n, Byte
<1> DEFINE h == <<STX, Len(m) % 256, Len(m) \div 256>>
<1>4. h \in Seq(Byte)
  <2>1. STX \in Byte BY DEF STX, Byte
  <2> QED BY <1>3, <2>1
<1>5. crc \in Seq(Byte)
  BY DEF Bytes
<1>6. <<ETX>> \in Seq(Byte)
  <2>1. ETX \in Byte BY DEF ETX, Byte
  <2> QED BY <2>1
<1> HIDE DEF h
<1>7. h \o m \in Seq(Byte)
  BY <1>1, <1>4, ConcatProperties
<1>8. h \o m \o crc \in Seq(Byte)
  BY <1>5, <1>7, ConcatProperties
<1>9. h \o m \o crc \o <<ETX>> \in Seq(Byte)
  BY <1>6, <1>8, ConcatProperties
<1> QED BY <1>9 DEF h, Bytes

LEMMA FrameType ==
  ASSUME NEW m \in Message
  PROVE  Frame(m) \in Bytes
BY FrameWith, CrcAssumption DEF Frame

\* The length in a header is a number.
LEMMA HeaderLengthType ==
  ASSUME rx \in Bytes, LongEnough(rx)
  PROVE  HeaderLength \in Nat
<1>1. rx \in Seq(Byte)
  BY DEF Bytes
<1>2. Len(rx) > 6
  BY DEF LongEnough, FRAME_HEADER_LEN
<1>3. rx[2] \in Byte /\ rx[3] \in Byte
  BY <1>1, <1>2
<1>4. \A b \in Byte : b \in Nat
  BY DEF Byte
<1> QED BY <1>3, <1>4 DEF HeaderLength

\* The inductive invariant.
DispatchWhole == pc = "dispatch" => LongEnough(rx) /\ flen + FRAME_HEADER_LEN <= Len(rx)
Inv == FrameTypeOK /\ DispatchWhole /\ HandledFits

LEMMA InvInit == FrameInit => Inv
<1> SUFFICES ASSUME FrameInit PROVE Inv OBVIOUS
<1>1. stream \in Bytes /\ rx \in Bytes /\ handled \in Seq(Bytes)
  BY DEF FrameInit, Bytes
<1>2. ends \in Seq([msg : Message, at : Nat])
  BY DEF FrameInit
<1>3. FrameTypeOK
  BY <1>1, <1>2, BoundAssumption DEF FrameInit, FrameTypeOK
<1> QED BY <1>3 DEF FrameInit, Inv, DispatchWhole, HandledFits

\* More bytes on the wire change nothing else.
LEMMA StreamGrows ==
  ASSUME FrameTypeOK, NEW b \in Bytes, stream' = stream \o b
  PROVE  stream' \in Bytes /\ got \in 0..Len(stream')
<1>1. stream \in Seq(Byte) /\ got \in 0..Len(stream)
  BY DEF FrameTypeOK, Bytes
<1>2. b \in Seq(Byte)
  BY DEF Bytes
<1>3. stream \o b \in Seq(Byte) /\ Len(stream \o b) = Len(stream) + Len(b)
  BY <1>1, <1>2, ConcatProperties
<1>4. Len(stream) \in Nat /\ Len(b) \in Nat
  BY <1>1, <1>2
<1>5. got \in 0..Len(stream) + Len(b)
  BY <1>1, <1>4
<1> QED BY <1>3, <1>5 DEF Bytes

\* A message has been sent, in the frame f.
LEMMA SentInFrame ==
  ASSUME Inv, NEW m \in Message, NEW f \in Bytes,
         items < MaxItems, items' = items + 1, stream' = stream \o f,
         ends' = Append(ends, [msg |-> m, at |-> Len(stream) + Len(f)]),
         UNCHANGED <<got, rx, flen, pc, handled>>
  PROVE  Inv'
<1> USE DEF Inv
<1>1. stream' \in Bytes /\ got' \in 0..Len(stream')
  BY StreamGrows
<1>2. Len(stream) + Len(f) \in Nat
  <2>1. stream \in Seq(Byte) /\ f \in Seq(Byte)
    BY DEF FrameTypeOK, Bytes
  <2> QED BY <2>1
<1>3. ends' \in Seq([msg : Message, at : Nat])
  <2>1. [msg |-> m, at |-> Len(stream) + Len(f)] \in [msg : Message, at : Nat]
    BY <1>2
  <2>2. ends \in Seq([msg : Message, at : Nat])
    BY DEF FrameTypeOK
  <2> QED BY <2>1, <2>2, AppendProperties
<1>4. items' \in 0..MaxItems
  BY BoundAssumption DEF FrameTypeOK
<1>5. FrameTypeOK'
  BY <1>1, <1>3, <1>4 DEF FrameTypeOK
<1> QED BY <1>5 DEF DispatchWhole, HandledFits, LongEnough

LEMMA SendMessageStep ==
  ASSUME Inv, NEW m \in Message, SendMessage(m)
  PROVE  Inv'
BY FrameType, SentInFrame DEF SendMessage

LEMMA SendJunkStep ==
  ASSUME Inv, NEW j \in Junk, SendJunk(j)
  PROVE  Inv'
<1> USE DEF Inv
<1>1. j \in Bytes /\ stream' = stream \o j
  BY MessageAssumption DEF SendJunk
<1>2. stream' \in Bytes /\ got' \in 0..Len(stream')
  BY <1>1, StreamGrows DEF SendJunk
<1>3. items' \in 0..MaxItems
  BY BoundAssumption DEF SendJunk, FrameTypeOK
<1>4. UNCHANGED <<ends, got, rx, flen, pc, handled>>
  BY DEF SendJunk
<1>5. FrameTypeOK'
  BY <1>2, <1>3, <1>4 DEF FrameTypeOK
<1> QED BY <1>4, <1>5 DEF DispatchWhole, HandledFits, LongEnough

\* k bytes have been received.
LEMMA BytesReceived ==
  ASSUME Inv, NEW k \in Nat, got + k <= Len(stream), got' = got + k,
         rx' = rx \o SubSeq(stream, got + 1, got + k),
         pc' \in {"search", "receive"}, UNCHANGED <<stream, ends, items, flen, handled>>
  PROVE  Inv'
<1> USE DEF Inv
<1>1. stream \in Seq(Byte) /\ rx \in Seq(Byte) /\ got \in 0..Len(stream)
  BY DEF FrameTypeOK, Bytes
<1>2. Len(stream) \in Nat /\ got \in Nat
  BY <1>1
<1>3. \A i \in got + 1..got + k : stream[i] \in Byte
  BY <1>1, <1>2
<1>4. SubSeq(stream, got + 1, got + k) \in Seq(Byte)
  BY <1>2, <1>3, SubSeqProperties
<1>5. rx' \in Bytes
  BY <1>1, <1>4, ConcatProperties DEF Bytes
<1>6. got' \in 0..Len(stream)
  BY <1>2
<1>7. FrameTypeOK'
  BY <1>5, <1>6 DEF FrameTypeOK
<1> QED BY <1>7 DEF DispatchWhole, HandledFits

LEMMA ReceiveStep ==
  ASSUME Inv, Receive
  PROVE  Inv'
<1>1. PICK k \in 1..BufLen : /\ got + k <= Len(stream)
                             /\ got' = got + k
                             /\ rx' = rx \o SubSeq(stream, got + 1, got + k)
  BY DEF Receive
<1>2. k \in Nat
  BY BoundAssumption
<1>3. UNCHANGED <<stream, ends, items, flen, handled>> /\ pc' \in {"search", "receive"}
  BY DEF Receive, anchorVars
<1> QED BY <1>1, <1>2, <1>3, BytesReceived

LEMMA SkipByteStep ==
  ASSUME Inv, SkipByte
  PROVE  Inv'
<1> USE DEF Inv
<1>1. rx \in Bytes /\ LongEnough(rx) /\ flen \in Nat
  BY DEF FrameTypeOK, SkipByte
<1>2. rx \in Seq(Byte) /\ rx # <<>>
  BY <1>1 DEF LongEnough, FRAME_HEADER_LEN, Bytes
<1>3. rx' \in Bytes
  BY <1>2, HeadTailProperties DEF SkipByte, Bytes
<1>4. flen' \in Nat
  BY <1>1, HeaderLengthType DEF SkipByte
<1>5. UNCHANGED <<stream, ends, items, got, pc, handled>> /\ pc = "search"
  BY DEF SkipByte, anchorVars
<1>6. FrameTypeOK'
  BY <1>3, <1>4, <1>5 DEF FrameTypeOK
<1> QED BY <1>5, <1>6 DEF DispatchWhole, HandledFits

LEMMA IncompleteStep ==
  ASSUME Inv, Incomplete
  PROVE  Inv'
<1> USE DEF Inv
<1>1. rx \in Bytes /\ flen \in Nat
  BY DEF FrameTypeOK
<1>2. flen' \in Nat
  BY <1>1, HeaderLengthType DEF Incomplete
<1>3. UNCHANGED <<stream, ends, items, got, rx, handled>> /\ pc' = "receive"
  BY DEF Incomplete, anchorVars
<1>4. FrameTypeOK'
  BY <1>2, <1>3 DEF FrameTypeOK
<1> QED BY <1>3, <1>4 DEF DispatchWhole, HandledFits

LEMMA FoundStep ==
  ASSUME Inv, Found
  PROVE  Inv'
<1> USE DEF Inv
<1>1. rx \in Bytes /\ LongEnough(rx) /\ flen' = HeaderLength
  BY DEF FrameTypeOK, Found
<1>2. flen' \in Nat
  BY <1>1, HeaderLengthType
<1>3. UNCHANGED <<stream, ends, items, got, rx, handled>> /\ pc' = "dispatch"
  BY DEF Found, anchorVars
<1>4. FrameTypeOK'
  BY <1>2, <1>3 DEF FrameTypeOK
<1>5. flen' + FRAME_HEADER_LEN <= Len(rx)
  BY <1>1 DEF Found, Whole
<1>6. DispatchWhole'
  BY <1>1, <1>3, <1>5 DEF DispatchWhole, LongEnough
<1> QED BY <1>3, <1>4, <1>6 DEF HandledFits

\* The data of a whole frame is as long as its header says, and starts with its
\* function code if there is any.
LEMMA DataLength ==
  ASSUME Inv, pc = "dispatch"
  PROVE  /\ Data \in Bytes /\ Len(Data) = flen
         /\ flen > 0 => Data[1] = Fcode
         /\ \A i \in 1..flen : Data[i] = rx[3 + i]
<1>1. rx \in Seq(Byte) /\ flen \in Nat
  BY DEF Inv, FrameTypeOK, Bytes
<1>2. flen + 6 <= Len(rx)
  BY DEF Inv, DispatchWhole, FRAME_HEADER_LEN
<1>3. flen \in Nat /\ Len(rx) \in Nat
  BY <1>1
<1>4. \A i \in 4..3 + flen : rx[i] \in Byte
  BY <1>1, <1>2, <1>3
<1>5. /\ SubSeq(rx, 4, 3 + flen) \in Seq(Byte)
      /\ Len(SubSeq(rx, 4, 3 + flen)) = IF 4 <= 3 + flen THEN (3 + flen) - 4 + 1 ELSE 0
      /\ \A i \in 1..(3 + flen) - 4 + 1 : SubSeq(rx, 4, 3 + flen)[i] = rx[4 + i - 1]
  BY <1>3, <1>4, SubSeqProperties
<1>6. Data = SubSeq(rx, 4, 3 + flen)
  BY DEF Data
<1>7. Len(Data) = flen
  BY <1>3, <1>5, <1>6
<1>8. flen > 0 => Data[1] = rx[4]
  BY <1>3, <1>5, <1>6
<1>9. \A i \in 1..flen : Data[i] = rx[3 + i]
  <2>1. \A i \in 1..flen : i \in 1..(3 + flen) - 4 + 1 /\ 4 + i - 1 = 3 + i
    BY <1>3
  <2> QED BY <1>5, <1>6, <2>1
<1> QED BY <1>5, <1>6, <1>7, <1>8, <1>9 DEF Bytes, Fcode

LEMMA HandleStep ==
  ASSUME Inv, Handle
  PROVE  Inv'
<1>1. rx \in Seq(Byte) /\ flen \in Nat /\ handled \in Seq(Bytes)
  BY DEF Inv, FrameTypeOK, Bytes
<1>2. flen + 7 \in Int /\ flen \in Nat /\ Len(rx) \in Nat
  BY <1>1
<1>3. \A i \in flen + 7..Len(rx) : rx[i] \in Byte
  BY <1>1, <1>2
<1>4. SubSeq(rx, flen + 7, Len(rx)) \in Seq(Byte)
  BY <1>2, <1>3, SubSeqProperties
<1>5. flen + FRAME_HEADER_LEN + 1 = flen + 7
  BY <1>2 DEF FRAME_HEADER_LEN
<1>6. rx' \in Bytes
  BY <1>4, <1>5 DEF Handle, AfterFrame, Bytes
<1>7. Data \in Bytes /\ Len(Data) = flen /\ (flen > 0 => Data[1] = Fcode)
  BY DataLength DEF Handle
<1>8. Fcode \in DOMAIN MinLength /\ flen >= MinLength[Fcode]
  BY DEF Handle, Fits
<1>9. MinLength[Fcode] \in Nat \ {0}
  BY <1>8, HandlerAssumption
<1>10. flen > 0
  BY <1>2, <1>8, <1>9
<1>11. Data # <<>>
  BY <1>7, <1>10
<1>12. handled' = Append(handled, Data)
  BY DEF Handle
<1>13. /\ handled' \in Seq(Bytes) /\ Len(handled') = Len(handled) + 1
       /\ \A i \in 1..Len(handled) : handled'[i] = handled[i]
       /\ handled'[Len(handled) + 1] = Data
  BY <1>1, <1>7, <1>12, AppendProperties
<1>14. HandledFits'
  <2>1. DOMAIN handled = 1..Len(handled) /\ DOMAIN handled' = 1..Len(handled) + 1
    BY <1>1, <1>13
  <2>2. Len(handled) \in Nat
    BY <1>1
  <2> SUFFICES ASSUME NEW i \in DOMAIN handled'
               PROVE  /\ handled'[i] # <<>> /\ handled'[i][1] \in DOMAIN MinLength
                      /\ Len(handled'[i]) >= MinLength[handled'[i][1]]
    BY DEF HandledFits
  <2>3. CASE i \in 1..Len(handled)
    <3>1. handled'[i] = handled[i] /\ i \in DOMAIN handled
      BY <1>13, <2>1, <2>3
    <3> QED BY <3>1 DEF Inv, HandledFits
  <2>4. CASE i = Len(handled) + 1
    <3>1. handled'[i] = Data
      BY <1>13, <2>4
    <3> QED BY <3>1, <1>7, <1>8, <1>10, <1>11
  <2> QED BY <2>1, <2>2, <2>3, <2>4
<1>15. /\ UNCHANGED <<stream, ends, items, got, flen>>
       /\ pc' \in {"search", "receive"}
  BY DEF Handle, Again, anchorVars
<1>16. FrameTypeOK'
  BY <1>6, <1>13, <1>15 DEF Inv, FrameTypeOK
<1> QED BY <1>14, <1>15, <1>16 DEF Inv, DispatchWhole

\* Every step keeps the invariant.
LEMMA InvNext == Inv /\ [FrameNext]_frameVars => Inv'
<1> SUFFICES ASSUME Inv, [FrameNext]_frameVars PROVE Inv' OBVIOUS
<1>1. ASSUME NEW m \in Message, SendMessage(m) PROVE Inv'
  BY <1>1, SendMessageStep
<1>2. ASSUME NEW j \in Junk, SendJunk(j) PROVE Inv'
  BY <1>2, SendJunkStep
<1>3. CASE Receive BY <1>3, ReceiveStep
<1>4. CASE Close
  <2>1. FrameTypeOK' BY <1>4 DEF Close, anchorVars, Inv, FrameTypeOK
  <2> QED BY <1>4, <2>1 DEF Close, Inv, DispatchWhole, HandledFits
<1>5. CASE SkipByte BY <1>5, SkipByteStep
<1>6. CASE Incomplete BY <1>6, IncompleteStep
<1>7. CASE Found BY <1>7, FoundStep
<1>8. CASE Handle BY <1>8, HandleStep
<1>9. CASE TooShort
  <2>1. FrameTypeOK' BY <1>9 DEF TooShort, anchorVars, Inv, FrameTypeOK
  <2> QED BY <1>9, <2>1 DEF TooShort, Inv, DispatchWhole, HandledFits
<1>10. CASE Unknown
  <2>1. rx' \in Bytes BY <1>10 DEF Unknown, Bytes
  <2>2. FrameTypeOK' BY <1>10, <2>1 DEF Unknown, anchorVars, Inv, FrameTypeOK
  <2> QED BY <1>10, <2>2 DEF Unknown, Inv, DispatchWhole, HandledFits
<1>11. CASE UNCHANGED frameVars
  BY <1>11 DEF frameVars, anchorVars, Inv, FrameTypeOK, DispatchWhole, LongEnough, HandledFits
<1> QED BY <1>1, <1>2, <1>3, <1>4, <1>5, <1>6, <1>7, <1>8, <1>9, <1>10, <1>11
           DEF FrameNext, Parse

\* HandlerConnection::Run keeps its variables within their types, whatever an
\* anchor sends; in particular a length is read only where there are bytes.
THEOREM ParserTypes == FrameSpec => []FrameTypeOK
<1>1. Inv => FrameTypeOK BY DEF Inv
<1> QED BY <1>1, InvInit, InvNext, PTL DEF FrameSpec

\* No handler is ever given less data than the structure it casts it to, whatever
\* bytes an anchor sends and however they are cut.
THEOREM HandlersStayInside == FrameSpec => []HandledFits
<1>1. Inv => HandledFits BY DEF Inv
<1> QED BY <1>1, InvInit, InvNext, PTL DEF FrameSpec

-----------------------------------------------------------------------------
(***************************************************************************)
(* The connection is a channel, for anchors that send what a handler takes *)
(* and nothing else that could be the start of a frame.                    *)
(***************************************************************************)
\* A start byte at q shows before b that no frame begins with it.
NoFrame(s, q, b) ==
  s[q] = STX => /\ q + 2 <= b /\ q + (s[q + 1] + 256 * s[q + 2]) + 5 <= b
                /\ s[q + (s[q + 1] + 256 * s[q + 2]) + 5] # ETX

\* No frame begins after a, up to b.
Quiet(s, a, b) == \A q \in a + 1..b : NoFrame(s, q, b)

WellBehaved ==
  /\ \A m \in Message : Known(m)
  /\ \A j \in Junk : Quiet(j, 0, Len(j))

\* Every byte of a frame.
IsFrame(m, f) ==
  /\ Len(f) = Len(m) + 6 /\ f[1] = STX
  /\ f[2] + 256 * f[3] = Len(m) /\ f[2] \in Nat /\ f[3] \in Nat
  /\ \A i \in 1..Len(m) : f[3 + i] = m[i]
  /\ f[Len(m) + 6] = ETX

\* The first a bytes of r are s, the other b are u.
IsJoin(r, s, u, a, b) ==
  /\ r \in Seq(Byte) /\ Len(r) = a + b
  /\ \A i \in 1..a : r[i] = s[i]
  /\ \A i \in 1..b : r[a + i] = u[i]

LEMMA Joined ==
  ASSUME NEW s \in Seq(Byte), NEW u \in Seq(Byte), NEW a \in Nat, NEW b \in Nat,
         Len(s) = a, Len(u) = b
  PROVE  IsJoin(s \o u, s, u, a, b)
<1>1. /\ s \o u \in Seq(Byte) /\ Len(s \o u) = a + b
      /\ \A i \in 1..a + b : (s \o u)[i] = IF i <= a THEN s[i] ELSE u[i - a]
  BY ConcatProperties
<1>2. \A i \in 1..b : a + i \in 1..a + b /\ ~(a + i <= a) /\ (a + i) - a = i
  OBVIOUS
<1>3. \A i \in 1..a : i \in 1..a + b /\ i <= a
  OBVIOUS
<1> QED BY <1>1, <1>2, <1>3, SMTT(40) DEF IsJoin

LEMMA FrameBytes ==
  ASSUME NEW m \in Message
  PROVE  IsFrame(m, Frame(m))
<1>1. m \in Seq(Byte) /\ Len(m) <= 65535
  BY MessageAssumption DEF Bytes
<1>2. Crc \in Seq(Byte) /\ Len(Crc) = 2 /\ 2 \in Nat
  BY CrcAssumption DEF Bytes
<1>3. PICK n \in Nat : n = Len(m) /\ n <= 65535
  BY <1>1
<1>4. PICK lo \in Byte, hi \in Byte :
        lo = n % 256 /\ hi = n \div 256 /\ lo + 256 * hi = n /\ lo \in Nat /\ hi \in Nat
  <2>0. n \in Nat /\ n <= 65535
    BY <1>3
  <2>1. /\ n % 256 \in 0..255 /\ n \div 256 \in 0..255
        /\ (n % 256) + 256 * (n \div 256) = n
    BY <2>0
  <2>2. /\ n % 256 \in Byte /\ n \div 256 \in Byte
        /\ n % 256 \in Nat /\ n \div 256 \in Nat
    BY <2>1 DEF Byte
  <2> DEFINE l == n % 256
             g == n \div 256
  <2>3. l \in Byte /\ g \in Byte /\ l + 256 * g = n /\ l \in Nat /\ g \in Nat
    BY <2>1, <2>2
  <2>4. l = n % 256 /\ g = n \div 256
    OBVIOUS
  <2> HIDE DEF l, g
  <2> QED BY <2>3, <2>4
<1>5. PICK h \in Seq(Byte) :
        /\ h = <<STX, lo, hi>> /\ Len(h) = 3 /\ h[1] = STX /\ h[2] = lo /\ h[3] = hi
  <2>1. STX \in Byte
    BY DEF STX, Byte
  <2> DEFINE g == <<STX, lo, hi>>
  <2>2. g \in Seq(Byte) /\ Len(g) = 3 /\ g[1] = STX /\ g[2] = lo /\ g[3] = hi
    BY <2>1
  <2>3. g = <<STX, lo, hi>>
    OBVIOUS
  <2> HIDE DEF g
  <2> QED BY <2>2, <2>3
<1>6. PICK e \in Seq(Byte) : e = <<ETX>> /\ Len(e) = 1 /\ e[1] = ETX
  <2>1. ETX \in Byte
    BY DEF ETX, Byte
  <2> DEFINE g == <<ETX>>
  <2>2. g \in Seq(Byte) /\ Len(g) = 1 /\ g[1] = ETX
    BY <2>1
  <2>3. g = <<ETX>>
    OBVIOUS
  <2> HIDE DEF g
  <2> QED BY <2>2, <2>3
<1>7. PICK r \in Seq(Byte) : r = h \o m /\ IsJoin(r, h, m, 3, n)
  <2>1. IsJoin(h \o m, h, m, 3, n)
    <3>1. m \in Seq(Byte) /\ Len(m) = n /\ Len(h) = 3 /\ 3 \in Nat
      BY <1>1, <1>3, <1>5
    <3> QED BY <3>1, Joined
  <2>2. h \o m \in Seq(Byte)
    BY <2>1 DEF IsJoin
  <2> QED BY <2>1, <2>2
<1>8. PICK c \in Seq(Byte) : c = r \o Crc /\ IsJoin(c, r, Crc, 3 + n, 2)
  <2>1. IsJoin(r \o Crc, r, Crc, 3 + n, 2)
    <3>1. 3 + n \in Nat /\ Len(r) = 3 + n
      BY <1>7 DEF IsJoin
    <3> QED BY <1>2, <3>1, Joined
  <2>2. r \o Crc \in Seq(Byte)
    BY <2>1 DEF IsJoin
  <2> QED BY <2>1, <2>2
<1>9. PICK f \in Seq(Byte) : f = c \o e /\ IsJoin(f, c, e, (3 + n) + 2, 1)
  <2>1. IsJoin(c \o e, c, e, (3 + n) + 2, 1)
    <3>1. (3 + n) + 2 \in Nat /\ Len(c) = (3 + n) + 2
      BY <1>8 DEF IsJoin
    <3> QED BY <1>6, <3>1, Joined
  <2>2. c \o e \in Seq(Byte)
    BY <2>1 DEF IsJoin
  <2> QED BY <2>1, <2>2
<1>10. f = Frame(m)
  BY <1>3, <1>4, <1>5, <1>6, <1>7, <1>8, <1>9 DEF Frame
<1>11. \A i \in 1..3 : f[i] = h[i]
  <2>1. \A i \in 1..3 : i \in 1..3 + n /\ i \in 1..(3 + n) + 2
    OBVIOUS
  <2> QED BY <1>7, <1>8, <1>9, <2>1 DEF IsJoin
<1>12. \A i \in 1..n : f[3 + i] = m[i]
  <2>1. \A i \in 1..n : 3 + i \in 1..3 + n /\ 3 + i \in 1..(3 + n) + 2
    OBVIOUS
  <2> QED BY <1>7, <1>8, <1>9, <2>1 DEF IsJoin
<1>13. Len(f) = n + 6 /\ f[n + 6] = ETX
  <2>1. ((3 + n) + 2) + 1 = n + 6 /\ 1 \in 1..1
    OBVIOUS
  <2> QED BY <1>6, <1>9, <2>1 DEF IsJoin
<1>14. f[1] = STX /\ f[2] = lo /\ f[3] = hi
  BY <1>5, <1>11
<1>15. f[2] + 256 * f[3] = n /\ f[2] \in Nat /\ f[3] \in Nat
  BY <1>4, <1>14
<1> QED BY <1>3, <1>10, <1>12, <1>13, <1>14, <1>15 DEF IsFrame

\* Where the frame of a message that has been sent begins.
First(e) == e.at - Len(e.msg) - 6

\* The frame of e lies on s, after b, and none begins between.
Lies(s, e, b) ==
  /\ e.at <= Len(s) /\ b <= First(e) /\ Quiet(s, b, First(e))
  /\ s[First(e) + 1] = STX
  /\ s[First(e) + 2] + 256 * s[First(e) + 3] = Len(e.msg)
  /\ \A q \in 1..Len(e.msg) : s[First(e) + 3 + q] = e.msg[q]
  /\ s[e.at] = ETX

\* Where the frame before the i-th ends.
Before(i) == IF i = 1 THEN 0 ELSE ends[i - 1].at

\* What lies on the wire: the frames in their order, and none begins between them.
Layout ==
  /\ \A i \in 1..Len(ends) : Lies(stream, ends[i], Before(i))
  /\ \A i, j \in 1..Len(ends) : i < j => ends[i].at <= First(ends[j])
  /\ Quiet(stream, Before(Len(ends) + 1), Len(stream))

\* The buffer is what was received last; this much is done with.
Done == got - Len(rx)
BufferIsStream == Done \in Nat /\ \A q \in 1..Len(rx) : rx[q] = stream[Done + q]

\* The message that is next.
Due == Len(handled) + 1
InOrder == /\ Len(handled) <= Len(ends)
           /\ \A i \in 1..Len(handled) : handled[i] = ends[i].msg
Between == /\ Before(Due) <= Done
           /\ Due <= Len(ends) => Done <= First(ends[Due])
Expecting == pc = "receive" /\ Due <= Len(ends) => ends[Due].at > got
Ready == pc = "dispatch" => /\ Due <= Len(ends) /\ Done = First(ends[Due])
                            /\ flen = Len(ends[Due].msg) /\ ends[Due].at <= got
InPlace == InOrder /\ Between /\ Expecting /\ Ready

ChannelInv == Inv /\ Layout /\ BufferIsStream /\ InPlace

LEMMA Kinds ==
  ASSUME Inv
  PROVE  /\ stream \in Seq(Byte) /\ Len(stream) \in Nat /\ got \in Nat /\ got <= Len(stream)
         /\ rx \in Seq(Byte) /\ Len(rx) \in Nat /\ flen \in Nat
         /\ handled \in Seq(Bytes) /\ Len(handled) \in Nat /\ Due \in Nat /\ Due >= 1
         /\ ends \in Seq([msg : Message, at : Nat]) /\ Len(ends) \in Nat
         /\ DOMAIN ends = 1..Len(ends) /\ DOMAIN handled = 1..Len(handled)
<1>1. /\ stream \in Seq(Byte) /\ got \in 0..Len(stream) /\ rx \in Seq(Byte) /\ flen \in Nat
      /\ handled \in Seq(Bytes) /\ ends \in Seq([msg : Message, at : Nat])
  BY DEF Inv, FrameTypeOK, Bytes
<1>2. Len(stream) \in Nat /\ Len(rx) \in Nat /\ Len(handled) \in Nat /\ Len(ends) \in Nat
  BY <1>1
<1>3. DOMAIN ends = 1..Len(ends) /\ DOMAIN handled = 1..Len(handled)
  BY <1>1
<1> QED BY <1>1, <1>2, <1>3 DEF Due

\* A message that a handler takes, and its place.
LEMMA Entry ==
  ASSUME WellBehaved, Inv, NEW i \in 1..Len(ends)
  PROVE  /\ ends[i].msg \in Message /\ Len(ends[i].msg) \in Nat /\ Len(ends[i].msg) >= 1
         /\ ends[i].at \in Nat /\ First(ends[i]) \in Int
         /\ ends[i].at = First(ends[i]) + Len(ends[i].msg) + 6
<1>1. ends[i] \in [msg : Message, at : Nat]
  <2> DEFINE R == [msg : Message, at : Nat]
  <2>1. ends \in Seq(R) /\ i \in 1..Len(ends)
    BY Kinds
  <2> HIDE DEF R
  <2>2. ends[i] \in R
    BY <2>1
  <2> QED BY <2>2 DEF R
<1>2. ends[i].msg \in Message /\ ends[i].at \in Nat
  BY <1>1
<1>3. ends[i].msg \in Seq(Byte) /\ ends[i].msg # <<>>
  BY <1>2, MessageAssumption DEF WellBehaved, Known, Bytes
<1>4. Len(ends[i].msg) \in Nat /\ Len(ends[i].msg) >= 1
  BY <1>3
<1>5. PICK a \in Nat, n \in Nat : a = ends[i].at /\ n = Len(ends[i].msg)
  BY <1>2, <1>4
<1>6. First(ends[i]) = a - n - 6
  BY <1>5 DEF First
<1>7. First(ends[i]) \in Int /\ a = First(ends[i]) + n + 6
  BY <1>5, <1>6, SMTT(40)
<1> QED BY <1>2, <1>4, <1>5, <1>7

LEMMA BeforeType ==
  ASSUME WellBehaved, Inv, Layout, NEW i \in 1..Len(ends) + 1
  PROVE  Before(i) \in Nat /\ Before(i) <= Len(stream)
<1>1. CASE i = 1
  BY <1>1, Kinds DEF Before
<1>2. CASE i # 1
  <2>1. i - 1 \in 1..Len(ends) /\ Len(ends) \in Nat
    BY <1>2, Kinds
  <2>2. ends[i - 1].at \in Nat /\ ends[i - 1].at <= Len(stream)
    BY <2>1, Entry DEF Layout, Lies
  <2> QED BY <1>2, <2>2 DEF Before
<1> QED BY <1>1, <1>2

LEMMA LayoutSame ==
  ASSUME Layout, UNCHANGED <<stream, ends>>
  PROVE  Layout'
BY SMTT(40) DEF Layout, Lies, Quiet, NoFrame, Before, First

LEMMA QuietStays ==
  ASSUME NEW s \in Seq(Byte), NEW u \in Seq(Byte), NEW b \in Nat, NEW c \in Nat, NEW d \in Nat,
         c <= Len(s), c <= d, \A q \in 1..Len(s) : u[q] = s[q], Quiet(s, b, c),
         NEW q \in b + 1..c
  PROVE  NoFrame(u, q, d)
<1>1. SUFFICES ASSUME u[q] = STX
               PROVE  /\ q + 2 <= d /\ q + (u[q + 1] + 256 * u[q + 2]) + 5 <= d
                      /\ u[q + (u[q + 1] + 256 * u[q + 2]) + 5] # ETX
  BY DEF NoFrame
<1>2. PICK l \in Nat : l = Len(s) /\ c <= l
  OBVIOUS
<1>3. \A p \in 1..l : u[p] = s[p]
  BY <1>2
<1>4. q \in 1..l
  BY <1>2
<1>5. s[q] = STX
  BY <1>1, <1>3, <1>4
<1>6. /\ q + 2 <= c /\ q + (s[q + 1] + 256 * s[q + 2]) + 5 <= c
      /\ s[q + (s[q + 1] + 256 * s[q + 2]) + 5] # ETX
  BY <1>5 DEF Quiet, NoFrame
<1>7. q + 1 \in 1..l /\ q + 2 \in 1..l
  BY <1>2, <1>4, <1>6
<1>8. PICK n \in Nat : n = s[q + 1] + 256 * s[q + 2]
  <2>1. s[q + 1] \in Byte /\ s[q + 2] \in Byte
    BY <1>2, <1>7
  <2>2. \A h \in Byte : h \in Nat
    BY DEF Byte
  <2>3. s[q + 1] \in Nat /\ s[q + 2] \in Nat
    BY <2>1, <2>2
  <2> QED BY <2>3
<1>9. n = u[q + 1] + 256 * u[q + 2]
  BY <1>3, <1>7, <1>8
<1>10. q + n + 5 <= c /\ s[q + n + 5] # ETX /\ q + 2 <= c
  BY <1>6, <1>8
<1>11. q + n + 5 \in 1..l /\ q + n + 5 <= d /\ q + 2 <= d
  BY <1>2, <1>4, <1>10
<1>12. u[q + n + 5] # ETX
  BY <1>3, <1>10, <1>11
<1> QED BY <1>9, <1>11, <1>12

\* What has been sent stays where it is when the wire gets longer.
LEMMA LiesStays ==
  ASSUME NEW s \in Seq(Byte), NEW u \in Seq(Byte), Len(s) <= Len(u),
         \A q \in 1..Len(s) : u[q] = s[q],
         NEW e, e.at \in Nat, NEW b \in Nat, Len(e.msg) \in Nat, Lies(s, e, b)
  PROVE  Lies(u, e, b)
<1>1. PICK a \in Nat, n \in Nat, l \in Nat, k \in Nat :
        a = e.at /\ n = Len(e.msg) /\ l = Len(s) /\ k = Len(u)
  OBVIOUS
<1>2. First(e) = a - n - 6 /\ a <= l /\ b <= First(e) /\ l <= k
  BY <1>1 DEF First, Lies
<1>3. PICK f \in Nat : f = First(e) /\ a = f + n + 6
  BY <1>2
<1>4. \A q \in 1..l : u[q] = s[q]
  BY <1>1
<1>5. Quiet(u, b, f)
  <2>1. Quiet(s, b, f)
    BY <1>3 DEF Lies
  <2>2. f <= Len(s) /\ f <= f
    <3>1. f <= l /\ f <= f
      BY <1>2, <1>3
    <3> QED BY <1>1, <3>1
  <2>3. \A q \in b + 1..f : NoFrame(u, q, f)
    BY <2>1, <2>2, QuietStays
  <2> QED BY <2>3 DEF Quiet
<1>6. u[f + 1] = s[f + 1] /\ u[f + 2] = s[f + 2] /\ u[f + 3] = s[f + 3] /\ u[a] = s[a]
  <2>1. a <= l /\ a = f + n + 6
    BY <1>2, <1>3
  <2>2. f + 1 \in 1..l /\ f + 2 \in 1..l /\ f + 3 \in 1..l /\ a \in 1..l
    BY <2>1, SMTT(40)
  <2> QED BY <1>4, <2>2
<1>7. \A q \in 1..n : u[f + 3 + q] = s[f + 3 + q]
  <2>1. \A q \in 1..n : f + 3 + q \in 1..l
    BY <1>2, <1>3
  <2> QED BY <1>4, <2>1
<1>8. a <= k
  BY <1>2
<1> QED BY <1>1, <1>2, <1>3, <1>5, <1>6, <1>7, <1>8 DEF Lies

LEMMA LayoutMessage ==
  ASSUME WellBehaved, Inv, Layout, NEW m \in Message, SendMessage(m)
  PROVE  /\ Layout' /\ Len(ends') = Len(ends) + 1
         /\ \A i \in 1..Len(ends) : ends'[i] = ends[i]
         /\ First(ends'[Len(ends) + 1]) = Len(stream) /\ ends'[Len(ends) + 1].msg = m
         /\ ends'[Len(ends) + 1].at \in Nat /\ ends'[Len(ends) + 1].at > Len(stream)
         /\ \A q \in 1..Len(stream) : stream'[q] = stream[q]
<1> DEFINE f == Frame(m)
<1>1. IsFrame(m, f) /\ f \in Seq(Byte)
  BY FrameBytes, FrameType DEF Bytes
<1>2. m \in Seq(Byte)
  BY MessageAssumption DEF Bytes
<1>3. PICK n \in Nat, l \in Nat, k \in Nat : n = Len(m) /\ l = Len(stream) /\ k = Len(ends)
  <2>1. Len(m) \in Nat
    BY <1>2
  <2>2. Len(stream) \in Nat /\ Len(ends) \in Nat
    BY Kinds
  <2> QED BY <2>1, <2>2
<1> HIDE DEF f
<1>4. IsJoin(stream', stream, f, l, n + 6)
  <2>1. stream' = stream \o f
    BY DEF SendMessage, f
  <2>2. stream \in Seq(Byte) /\ Len(stream) = l /\ n + 6 \in Nat /\ Len(f) = n + 6
    BY <1>1, <1>3, Kinds DEF IsFrame
  <2> QED BY <1>1, <2>1, <2>2, Joined
<1>5. /\ Len(f) = n + 6 /\ f[1] = STX /\ f[2] + 256 * f[3] = n
      /\ \A q \in 1..n : f[3 + q] = m[q]
      /\ f[n + 6] = ETX
  BY <1>1, <1>3 DEF IsFrame
<1> DEFINE e == [msg |-> m, at |-> l + n + 6]
<1>6. /\ ends' \in Seq([msg : Message, at : Nat]) /\ Len(ends') = k + 1
      /\ \A i \in 1..k : ends'[i] = ends[i]
      /\ ends'[k + 1] = e
  <2>1. e \in [msg : Message, at : Nat]
    BY <1>3
  <2>2. ends \in Seq([msg : Message, at : Nat]) /\ Len(ends) = k
    BY <1>3, Kinds
  <2>3. ends' = Append(ends, e)
    <3>1. l + (n + 6) = l + n + 6
      BY <1>3
    <3> QED BY <1>3, <1>5, <3>1 DEF SendMessage, f
  <2> HIDE DEF e
  <2> QED BY <2>1, <2>2, <2>3, AppendProperties
<1>7. e.msg = m /\ e.at = l + n + 6 /\ First(e) = l
  <2>1. e.msg = m /\ e.at = l + n + 6
    OBVIOUS
  <2>2. (l + n + 6) - n - 6 = l
    BY <1>3
  <2> HIDE DEF e
  <2> QED BY <1>3, <2>1, <2>2 DEF First
<1> HIDE DEF e
<1>8. /\ stream' \in Seq(Byte) /\ Len(stream') = l + (n + 6)
      /\ \A q \in 1..l : stream'[q] = stream[q]
      /\ \A q \in 1..n + 6 : stream'[l + q] = f[q]
  BY <1>4 DEF IsJoin
<1>9. Before(k + 1)' = Before(k + 1) /\ \A i \in 1..k : Before(i)' = Before(i)
  <2>1. \A i \in 1..k + 1 : i # 1 => i - 1 \in 1..k
    BY <1>3
  <2>2. k + 1 \in 1..k + 1 /\ \A i \in 1..k : i \in 1..k + 1
    BY <1>3
  <2> QED BY <1>6, <2>1, <2>2 DEF Before
<1>10. Before(k + 1) \in Nat /\ Before(k + 1) <= l /\ Quiet(stream, Before(k + 1), l)
  <2>1. k + 1 \in 1..Len(ends) + 1
    BY <1>3
  <2> QED BY <1>3, <2>1, BeforeType DEF Layout
<1>11. ASSUME NEW i \in 1..k PROVE Lies(stream', ends'[i], Before(i)')
  <2>1. Lies(stream, ends[i], Before(i)) /\ i \in 1..Len(ends) /\ i \in 1..Len(ends) + 1
    BY <1>3 DEF Layout
  <2>2. /\ ends[i].at \in Nat /\ Len(ends[i].msg) \in Nat /\ Before(i) \in Nat
    BY <2>1, Entry, BeforeType
  <2>3. /\ stream \in Seq(Byte) /\ stream' \in Seq(Byte) /\ Len(stream) <= Len(stream')
        /\ \A q \in 1..Len(stream) : stream'[q] = stream[q]
    BY <1>3, <1>8, Kinds
  <2>4. Lies(stream', ends[i], Before(i))
    BY <2>1, <2>2, <2>3, LiesStays
  <2> QED BY <1>6, <1>9, <2>4
<1>12. Lies(stream', ends'[k + 1], Before(k + 1)')
  <2>1. Quiet(stream', Before(k + 1), l)
    <3>1. /\ stream \in Seq(Byte) /\ stream' \in Seq(Byte) /\ l <= Len(stream) /\ l <= l
          /\ \A q \in 1..Len(stream) : stream'[q] = stream[q]
      BY <1>3, <1>8, Kinds
    <3>2. \A q \in Before(k + 1) + 1..l : NoFrame(stream', q, l)
      BY <1>10, <3>1, QuietStays
    <3> QED BY <3>2 DEF Quiet
  <2>2. /\ stream'[l + 1] = f[1] /\ stream'[l + 2] = f[2] /\ stream'[l + 3] = f[3]
        /\ stream'[l + (n + 6)] = f[n + 6]
    <3>1. 1 \in 1..n + 6 /\ 2 \in 1..n + 6 /\ 3 \in 1..n + 6 /\ n + 6 \in 1..n + 6
      BY <1>3
    <3> QED BY <1>8, <3>1
  <2>3. \A q \in 1..n : stream'[l + 3 + q] = m[q]
    <3>1. \A q \in 1..n : 3 + q \in 1..n + 6 /\ l + 3 + q = l + (3 + q)
      BY <1>3
    <3> QED BY <1>5, <1>8, <3>1
  <2>4. l + (n + 6) = l + n + 6 /\ l + n + 6 <= l + (n + 6)
    BY <1>3
  <2>5. e.at <= Len(stream') /\ Before(k + 1) <= First(e)
    BY <1>7, <1>8, <1>10, <2>4
  <2> QED BY <1>3, <1>5, <1>6, <1>7, <1>9, <2>1, <2>2, <2>3, <2>4, <2>5 DEF Lies
<1>13. \A i \in 1..Len(ends') : Lies(stream', ends'[i], Before(i)')
  <2>1. \A i \in 1..k + 1 : i \in 1..k \/ i = k + 1
    BY <1>3
  <2> QED BY <1>6, <1>11, <1>12, <2>1
<1>14. \A i, j \in 1..Len(ends') : i < j => ends'[i].at <= First(ends'[j])
  <2> SUFFICES ASSUME NEW i \in 1..k + 1, NEW j \in 1..k + 1, i < j
               PROVE  ends'[i].at <= First(ends'[j])
    BY <1>6
  <2>1. i \in 1..k /\ (j \in 1..k \/ j = k + 1)
    BY <1>3
  <2>2. CASE j \in 1..k
    <3>1. ends[i].at <= First(ends[j])
      BY <1>3, <2>1, <2>2 DEF Layout
    <3> QED BY <1>6, <2>1, <2>2, <3>1
  <2>3. CASE j = k + 1
    <3>1. ends[i].at <= l
      BY <1>3, <2>1 DEF Layout, Lies
    <3> QED BY <1>6, <1>7, <2>1, <2>3, <3>1
  <2> QED BY <2>1, <2>2, <2>3
<1>15. Quiet(stream', Before(Len(ends) + 1)', Len(stream'))
  <2>1. Before(Len(ends) + 1)' = e.at
    <3>1. (k + 1) + 1 # 1 /\ ((k + 1) + 1) - 1 = k + 1
      BY <1>3
    <3> QED BY <1>6, <3>1 DEF Before
  <2>2. e.at = l + n + 6 /\ Len(stream') = l + n + 6
    BY <1>3, <1>7, <1>8
  <2>3. (l + n + 6) + 1..(l + n + 6) = {}
    BY <1>3
  <2> QED BY <2>1, <2>2, <2>3 DEF Quiet
<1>16. Layout'
  BY <1>13, <1>14, <1>15 DEF Layout
<1>17. e.at \in Nat /\ e.at > l
  BY <1>3, <1>7
<1> QED BY <1>3, <1>6, <1>7, <1>8, <1>16, <1>17

LEMMA LayoutJunk ==
  ASSUME WellBehaved, Inv, Layout, NEW j \in Junk, SendJunk(j)
  PROVE  Layout' /\ ends' = ends /\ \A q \in 1..Len(stream) : stream'[q] = stream[q]
<1>1. j \in Seq(Byte)
  BY MessageAssumption DEF Bytes
<1>2. PICK n \in Nat, l \in Nat, k \in Nat : n = Len(j) /\ l = Len(stream) /\ k = Len(ends)
  <2>1. Len(j) \in Nat
    BY <1>1
  <2>2. Len(stream) \in Nat /\ Len(ends) \in Nat
    BY Kinds
  <2> QED BY <2>1, <2>2
<1>3. IsJoin(stream', stream, j, l, n)
  <2>1. stream' = stream \o j
    BY DEF SendJunk
  <2>2. stream \in Seq(Byte) /\ Len(stream) = l /\ Len(j) = n
    BY <1>2, Kinds
  <2> QED BY <1>1, <2>1, <2>2, Joined
<1>4. /\ stream' \in Seq(Byte) /\ Len(stream') = l + n
      /\ \A q \in 1..l : stream'[q] = stream[q]
      /\ \A q \in 1..n : stream'[l + q] = j[q]
  BY <1>3 DEF IsJoin
<1>5. ends' = ends
  BY DEF SendJunk
<1>6. \A i : Before(i)' = Before(i)
  BY <1>5 DEF Before
<1>7. ASSUME NEW i \in 1..k PROVE Lies(stream', ends[i], Before(i))
  <2>1. Lies(stream, ends[i], Before(i)) /\ i \in 1..Len(ends) /\ i \in 1..Len(ends) + 1
    BY <1>2 DEF Layout
  <2>2. /\ ends[i].at \in Nat /\ Len(ends[i].msg) \in Nat /\ Before(i) \in Nat
    BY <2>1, Entry, BeforeType
  <2>3. stream \in Seq(Byte) /\ stream' \in Seq(Byte)
    BY <1>4, Kinds
  <2>4. Len(stream) <= Len(stream') /\ \A q \in 1..Len(stream) : stream'[q] = stream[q]
    BY <1>2, <1>4, SMTT(40)
  <2> QED BY <2>1, <2>2, <2>3, <2>4, LiesStays
<1>8. PICK b \in Nat : b = Before(k + 1) /\ b <= l /\ Quiet(stream, b, l)
  <2>1. k + 1 \in 1..Len(ends) + 1
    BY <1>2
  <2> QED BY <1>2, <2>1, BeforeType DEF Layout
<1>9. Quiet(stream', b, l + n)
  <2> SUFFICES ASSUME NEW q \in b + 1..l + n PROVE NoFrame(stream', q, l + n)
    BY DEF Quiet
  <2>1. CASE q <= l
    <3>1. q \in b + 1..l /\ l <= Len(stream) /\ l <= l + n /\ l + n \in Nat
      BY <1>2, <2>1
    <3>2. /\ stream \in Seq(Byte) /\ stream' \in Seq(Byte)
          /\ \A p \in 1..Len(stream) : stream'[p] = stream[p]
      BY <1>2, <1>4, Kinds
    <3> QED BY <1>8, <3>1, <3>2, QuietStays
  <2>2. CASE ~(q <= l)
    <3>1. PICK p \in 1..n : q = l + p
      <4>1. q - l \in 1..n /\ q = l + (q - l)
        BY <2>2
      <4> QED BY <4>1
    <3>2. NoFrame(j, p, n)
      <4>1. Quiet(j, 0, n) /\ p \in 0 + 1..n
        BY <1>2 DEF WellBehaved
      <4> QED BY <4>1 DEF Quiet
    <3> SUFFICES ASSUME stream'[q] = STX
                 PROVE  /\ q + 2 <= l + n
                        /\ q + (stream'[q + 1] + 256 * stream'[q + 2]) + 5 <= l + n
                        /\ stream'[q + (stream'[q + 1] + 256 * stream'[q + 2]) + 5] # ETX
      BY DEF NoFrame
    <3>3. j[p] = STX
      BY <1>4, <3>1
    <3>4. /\ p + 2 <= n /\ p + (j[p + 1] + 256 * j[p + 2]) + 5 <= n
          /\ j[p + (j[p + 1] + 256 * j[p + 2]) + 5] # ETX
      BY <3>2, <3>3 DEF NoFrame
    <3>5. p + 1 \in 1..n /\ p + 2 \in 1..n /\ l + (p + 1) = q + 1 /\ l + (p + 2) = q + 2
      BY <3>1, <3>4
    <3>6. PICK h \in Nat : h = j[p + 1] + 256 * j[p + 2]
      <4>1. j[p + 1] \in Byte /\ j[p + 2] \in Byte
        BY <1>1, <1>2, <3>5
      <4>2. j[p + 1] \in Nat /\ j[p + 2] \in Nat
        BY <4>1 DEF Byte
      <4> QED BY <4>2
    <3>7. h = stream'[q + 1] + 256 * stream'[q + 2]
      BY <1>4, <3>5, <3>6
    <3>8. p + h + 5 <= n /\ j[p + h + 5] # ETX /\ p + 2 <= n
      BY <3>4, <3>6
    <3>9. p + h + 5 \in 1..n /\ l + (p + h + 5) = q + h + 5 /\ q + h + 5 <= l + n /\ q + 2 <= l + n
      BY <3>1, <3>8
    <3>10. stream'[q + h + 5] # ETX
      BY <1>4, <3>8, <3>9
    <3> QED BY <3>7, <3>9, <3>10
  <2> QED BY <2>1, <2>2
<1>10. Layout'
  BY <1>2, <1>4, <1>5, <1>6, <1>7, <1>8, <1>9, SMTT(40) DEF Layout
<1> QED BY <1>2, <1>4, <1>5, <1>10

\* What is at the front of the buffer, when there is enough in it to tell: the frame
\* that is next, or a start byte with which none begins.
NextIsFirst == /\ Due <= Len(ends) /\ Done = First(ends[Due])
               /\ HeaderLength = Len(ends[Due].msg)
               /\ Whole => EndsRight /\ ends[Due].at <= got
               /\ ~Whole => ends[Due].at > got
NoneIsFirst == /\ Due <= Len(ends) => Done < First(ends[Due])
               /\ Whole => ~EndsRight
               /\ ~Whole /\ Due <= Len(ends) => ends[Due].at > got

LEMMA FrontIsStart ==
  ASSUME WellBehaved, ChannelInv, LongEnough(rx), AtStart
  PROVE  NextIsFirst \/ NoneIsFirst
<1> USE DEF ChannelInv
<1>1. PICK l \in Nat, r \in Nat, g \in Nat, k \in Nat, d \in Nat :
        l = Len(stream) /\ r = Len(rx) /\ g = got /\ k = Len(ends) /\ d = Due /\ g <= l
  BY Kinds
<1>2. PICK p \in Nat : p = Done /\ p = g - r
  BY <1>1 DEF BufferIsStream, Done
<1>3. r > 6 /\ g = p + r /\ \A q \in 1..r : rx[q] = stream[p + q]
  BY <1>1, <1>2, SMTT(40) DEF LongEnough, FRAME_HEADER_LEN, BufferIsStream
<1>4. /\ stream[p + 1] = STX
      /\ rx[2] = stream[p + 2] /\ rx[3] = stream[p + 3] /\ rx[1] = stream[p + 1]
  <2>1. 1 \in 1..r /\ 2 \in 1..r /\ 3 \in 1..r
    BY <1>3
  <2> QED BY <1>3, <2>1 DEF AtStart
<1>5. d >= 1 /\ d <= k + 1 /\ Before(d) <= p /\ Before(d) \in Nat
  <2>1. d >= 1 /\ d <= k + 1
    <3>1. Len(handled) \in Nat /\ Len(handled) <= k /\ d = Len(handled) + 1
      BY <1>1, Kinds DEF InPlace, InOrder, Due
    <3> QED BY <3>1
  <2>2. Due \in 1..Len(ends) + 1
    BY <1>1, <2>1
  <2> QED BY <1>1, <1>2, <2>1, <2>2, BeforeType DEF InPlace, Between
<1>6. PICK n \in Nat : n = HeaderLength
  BY HeaderLengthType, Kinds DEF Bytes
<1>7. stream[p + 2] + 256 * stream[p + 3] = n
  BY <1>4, <1>6 DEF HeaderLength
<1>8. Whole <=> n + 6 <= r
  BY <1>1, <1>6 DEF Whole, FRAME_HEADER_LEN
<1>9. n + 6 <= r => rx[n + 6] = stream[p + n + 6] /\ p + n + 6 <= g
  <2> SUFFICES ASSUME n + 6 <= r PROVE rx[n + 6] = stream[p + n + 6] /\ p + n + 6 <= g
    OBVIOUS
  <2>1. n + 6 \in 1..r /\ p + (n + 6) = p + n + 6
    OBVIOUS
  <2>2. p + n + 6 <= g
    BY <1>3
  <2> QED BY <1>3, <2>1, <2>2
<1>10. EndsRight <=> rx[n + 6] = ETX
  BY <1>6 DEF EndsRight, FRAME_HEADER_LEN
<1>11. ASSUME NEW b \in Nat, p + 1 <= b, NoFrame(stream, p + 1, b)
       PROVE  /\ Whole => ~EndsRight
              /\ ~Whole => g < b
  <2>1. (p + 1) + 1 = p + 2 /\ (p + 1) + 2 = p + 3 /\ (p + 1) + n + 5 = p + n + 6
    OBVIOUS
  <2>2. p + n + 6 <= b /\ stream[p + n + 6] # ETX
    BY <1>4, <1>7, <1>11, <2>1 DEF NoFrame
  <2>3. ~(n + 6 <= r) => g < b
    <3>1. g = p + r
      BY <1>3
    <3> QED BY <2>2, <3>1
  <2> QED BY <1>8, <1>9, <1>10, <2>2, <2>3
<1>12. CASE ~(d <= k)
  <2>1. d = k + 1
    BY <1>5, <1>12
  <2>2. Quiet(stream, Before(d), l)
    BY <1>1, <2>1 DEF Layout
  <2>3. p + 1 \in Before(d) + 1..l /\ p + 1 <= l
    BY <1>1, <1>3, <1>5, SMTT(40)
  <2>4. NoFrame(stream, p + 1, l)
    BY <2>2, <2>3 DEF Quiet
  <2>5. Whole => ~EndsRight
    BY <1>11, <2>3, <2>4
  <2> QED BY <1>1, <1>12, <2>5 DEF NoneIsFirst
<1>13. CASE d <= k
  <2>1. Due \in 1..Len(ends) /\ d \in 1..k
    BY <1>1, <1>5, <1>13
  <2>2. PICK a \in Nat, m \in Nat, f \in Int :
          /\ a = ends[Due].at /\ m = Len(ends[Due].msg) /\ f = First(ends[Due])
          /\ a = f + m + 6
    BY <2>1, Entry
  <2>3. Lies(stream, ends[Due], Before(Due))
    BY <2>1 DEF Layout
  <2>4. p <= f
    BY <1>2, <2>1, <2>2 DEF InPlace, Between
  <2>5. CASE p = f
    <3>1. m = n
      BY <1>7, <2>2, <2>3, <2>5 DEF Lies
    <3>2. a = p + n + 6
      BY <2>2, <2>5, <3>1
    <3>3. stream[a] = ETX
      BY <2>2, <2>3 DEF Lies
    <3>4. Whole => EndsRight /\ a <= g
      BY <1>8, <1>9, <1>10, <3>2, <3>3
    <3>5. ~Whole => a > g
      <4>1. g = p + r
        BY <1>3
      <4> QED BY <1>8, <3>2, <4>1
    <3> QED BY <1>1, <1>2, <1>6, <1>13, <2>2, <2>5, <3>1, <3>4, <3>5 DEF NextIsFirst
  <2>6. CASE p < f
    <3>1. f \in Nat /\ p + 1 <= f /\ p + 1 \in Before(d) + 1..f
      BY <1>5, <2>6
    <3>2. NoFrame(stream, p + 1, f)
      BY <1>1, <2>2, <2>3, <3>1 DEF Lies, Quiet
    <3>3. (Whole => ~EndsRight) /\ (~Whole => g < f)
      BY <1>11, <3>1, <3>2
    <3>4. ~Whole => a > g
      BY <2>2, <3>3, SMTT(40)
    <3> QED BY <1>1, <1>2, <2>2, <2>6, <3>3, <3>4 DEF NoneIsFirst
  <2> QED BY <2>4, <2>5, <2>6
<1> QED BY <1>12, <1>13, SMTT(40)

LEMMA FrontIsNone ==
  ASSUME WellBehaved, ChannelInv, LongEnough(rx), ~AtStart, Due <= Len(ends)
  PROVE  Done < First(ends[Due])
<1> USE DEF ChannelInv
<1>1. Due \in 1..Len(ends)
  BY Kinds
<1>2. First(ends[Due]) \in Int /\ Lies(stream, ends[Due], Before(Due))
  BY <1>1, Entry DEF Layout
<1>3. Done \in Nat /\ Done <= First(ends[Due])
  BY DEF BufferIsStream, InPlace, Between
<1>4. rx[1] = stream[Done + 1]
  <2>1. 1 \in 1..Len(rx)
    BY Kinds DEF LongEnough, FRAME_HEADER_LEN
  <2> QED BY <2>1 DEF BufferIsStream
<1>5. Done # First(ends[Due])
  BY <1>2, <1>4 DEF AtStart, Lies
<1> QED BY <1>2, <1>3, <1>5

\* More on the wire leaves the buffer and what is done with in their places.
LEMMA SentStep ==
  ASSUME WellBehaved, ChannelInv, UNCHANGED <<got, rx, flen, pc, handled>>,
         \A q \in 1..Len(stream) : stream'[q] = stream[q],
         \A i \in 1..Len(ends) : ends'[i] = ends[i],
         \/ Len(ends') = Len(ends)
         \/ /\ Len(ends') = Len(ends) + 1 /\ First(ends'[Len(ends) + 1]) = Len(stream)
            /\ ends'[Len(ends) + 1].at \in Nat /\ ends'[Len(ends) + 1].at > Len(stream)
  PROVE  BufferIsStream' /\ InPlace'
<1> USE DEF ChannelInv
<1>1. PICK l \in Nat, g \in Nat, k \in Nat, d \in Nat, p \in Nat, c \in Nat, r \in Nat :
        /\ l = Len(stream) /\ g = got /\ k = Len(ends) /\ d = Due /\ p = Done
        /\ c = Len(handled) /\ r = Len(rx) /\ g <= l /\ p = g - r /\ d = c + 1 /\ c <= k
  <2>1. Done \in Nat /\ Done = got - Len(rx) /\ Due = Len(handled) + 1 /\ Len(handled) <= Len(ends)
    BY DEF BufferIsStream, Done, Due, InPlace, InOrder
  <2> QED BY <2>1, Kinds
<1>2. Due' = d /\ Done' = p /\ got' = g /\ Len(handled') = c /\ Len(rx') = r
  BY <1>1 DEF Due, Done
<1>3. BufferIsStream'
  <2>1. \A q \in 1..r : p + q \in 1..l
    BY <1>1
  <2> QED BY <1>1, <1>2, <2>1, ZenonT(60) DEF BufferIsStream
<1>4. InOrder'
  <2>1. c <= Len(ends') /\ \A i \in 1..c : i \in 1..k
    BY <1>1
  <2> QED BY <1>1, <1>2, <2>1 DEF InPlace, InOrder
<1>5. Before(Due)' = Before(Due)
  <2>1. d # 1 => d - 1 \in 1..k
    BY <1>1
  <2> QED BY <1>1, <1>2, <2>1 DEF Before
<1>6. CASE Len(ends') = k
  <2>1. Due <= Len(ends) => ends'[d] = ends[d]
    BY <1>1
  <2>2. Between'
    BY <1>1, <1>2, <1>5, <1>6, <2>1 DEF InPlace, Between
  <2>3. Expecting' /\ Ready'
    BY <1>1, <1>2, <1>6, <2>1 DEF InPlace, Expecting, Ready
  <2> QED BY <1>3, <1>4, <2>2, <2>3 DEF InPlace
<1>7. CASE /\ Len(ends') = k + 1 /\ First(ends'[k + 1]) = l
          /\ ends'[k + 1].at \in Nat /\ ends'[k + 1].at > l
  <2>1. d <= k => ends'[d] = ends[d]
    BY <1>1
  <2>2. d <= k \/ d = k + 1
    BY <1>1
  <2>3. p <= l /\ g <= l
    BY <1>1
  <2>4. Between'
    <3>1. CASE d <= k
      BY <1>1, <1>2, <1>5, <1>7, <2>1, <3>1 DEF InPlace, Between
    <3>2. CASE d = k + 1
      <4>1. Before(Due)' <= Done'
        BY <1>1, <1>2, <1>5 DEF InPlace, Between
      <4>2. Done' <= First(ends'[Due'])
        BY <1>2, <1>7, <2>3, <3>2
      <4> QED BY <4>1, <4>2 DEF Between
    <3> QED BY <2>2, <3>1, <3>2
  <2>5. Expecting'
    <3>1. CASE d <= k
      BY <1>1, <1>2, <2>1, <3>1 DEF InPlace, Expecting
    <3>2. CASE d = k + 1
      <4>1. ends'[Due'].at > got'
        <5>1. PICK a \in Nat : a = ends'[k + 1].at /\ a > l
          BY <1>7
        <5>2. a > g
          BY <2>3, <5>1
        <5> QED BY <1>2, <3>2, <5>1, <5>2
      <4> QED BY <4>1 DEF Expecting
    <3> QED BY <2>2, <3>1, <3>2
  <2>6. Ready'
    BY <1>1, <1>2, <1>7, <2>1, SMTT(40) DEF InPlace, Ready
  <2> QED BY <1>3, <1>4, <2>4, <2>5, <2>6 DEF InPlace
<1> QED BY <1>1, <1>6, <1>7, SMTT(40)

LEMMA ReceivePlace ==
  ASSUME WellBehaved, ChannelInv, Receive
  PROVE  Layout' /\ BufferIsStream' /\ InPlace'
<1> USE DEF ChannelInv
<1>1. PICK k \in 1..BufLen : /\ got + k <= Len(stream)
                             /\ got' = got + k
                             /\ rx' = rx \o SubSeq(stream, got + 1, got + k)
  BY DEF Receive
<1>2. /\ UNCHANGED <<stream, ends, handled>> /\ pc \in {"receive"}
      /\ pc' = IF LongEnough(rx') THEN "search" ELSE "receive"
  BY DEF Receive, anchorVars
<1>3. PICK n \in Nat, g \in Nat, l \in Nat, r \in Nat, p \in Nat :
        /\ n = k /\ g = got /\ l = Len(stream) /\ r = Len(rx) /\ p = Done
        /\ p = g - r /\ g + n <= l
  <2>1. k \in Nat /\ Done \in Nat
    BY BoundAssumption DEF BufferIsStream
  <2> QED BY <1>1, <2>1, Kinds DEF Done
<1> DEFINE u == SubSeq(stream, g + 1, g + n)
<1>4. u \in Seq(Byte) /\ Len(u) = n /\ \A q \in 1..n : u[q] = stream[g + q]
  <2>1. stream \in Seq(Byte)
    BY Kinds
  <2>2. \A q \in g + 1..g + n : stream[q] \in Byte
    BY <1>3, <2>1
  <2>3. /\ u \in Seq(Byte)
        /\ Len(u) = IF g + 1 <= g + n THEN (g + n) - (g + 1) + 1 ELSE 0
        /\ \A q \in 1..(g + n) - (g + 1) + 1 : u[q] = stream[(g + 1) + q - 1]
    BY <1>3, <2>2, SubSeqProperties, SMTT(40)
  <2>4. \A q \in 1..n : q \in 1..(g + n) - (g + 1) + 1 /\ (g + 1) + q - 1 = g + q
    OBVIOUS
  <2>5. (IF g + 1 <= g + n THEN (g + n) - (g + 1) + 1 ELSE 0) = n
    OBVIOUS
  <2> QED BY <2>3, <2>4, <2>5
<1> HIDE DEF u
<1>5. IsJoin(rx', rx, u, r, n)
  <2>1. rx \in Seq(Byte) /\ Len(rx) = r /\ rx' = rx \o u
    BY <1>1, <1>3, Kinds DEF u
  <2> QED BY <1>4, <2>1, Joined
<1>6. /\ Len(rx') = r + n
      /\ \A q \in 1..r : rx'[q] = rx[q]
      /\ \A q \in 1..n : rx'[r + q] = u[q]
  BY <1>5 DEF IsJoin
<1>7. Done' = p /\ got' = p + (r + n) /\ Due' = Due
  BY <1>1, <1>2, <1>3, <1>6 DEF Done, Due
<1>8. \A q \in 1..r + n : rx'[q] = stream[p + q]
  <2> SUFFICES ASSUME NEW q \in 1..r + n PROVE rx'[q] = stream[p + q]
    OBVIOUS
  <2>1. CASE q <= r
    <3>1. q \in 1..r
      BY <2>1
    <3> QED BY <1>3, <1>6, <3>1 DEF BufferIsStream
  <2>2. CASE ~(q <= r)
    <3>1. q - r \in 1..n /\ r + (q - r) = q /\ g + (q - r) = p + q
      BY <1>3, <2>2
    <3> QED BY <1>4, <1>6, <3>1, ZenonT(60)
  <2> QED BY <2>1, <2>2
<1>9. BufferIsStream'
  BY <1>2, <1>6, <1>7, <1>8 DEF BufferIsStream
<1>10. InOrder' /\ Between'
  <2>1. Before(Due)' = Before(Due)
    BY <1>2 DEF Before, Due
  <2> QED BY <1>2, <1>3, <1>7, <2>1 DEF InPlace, InOrder, Between
<1>11. Expecting'
  <2> SUFFICES ASSUME pc' = "receive", Due <= Len(ends) PROVE ends[Due].at > p + (r + n)
    BY <1>2, <1>7 DEF Expecting
  <2>1. r + n <= 6
    <3>1. ~LongEnough(rx')
      BY <1>2
    <3> QED BY <1>6, <3>1 DEF LongEnough, FRAME_HEADER_LEN
  <2>2. Due \in 1..Len(ends)
    BY Kinds
  <2>3. PICK a \in Nat, m \in Nat, f \in Int :
          a = ends[Due].at /\ f = First(ends[Due]) /\ m >= 1 /\ a = f + m + 6
    BY <2>2, Entry
  <2>4. p <= f
    BY <1>3, <2>3 DEF InPlace, Between
  <2>5. a > p + (r + n)
    BY <2>1, <2>3, <2>4
  <2> QED BY <2>3, <2>5
<1>12. Ready'
  BY <1>2 DEF Ready
<1> QED BY <1>2, <1>9, <1>10, <1>11, <1>12, LayoutSame DEF InPlace

LEMMA SkipBytePlace ==
  ASSUME WellBehaved, ChannelInv, SkipByte
  PROVE  Layout' /\ BufferIsStream' /\ InPlace'
<1> USE DEF ChannelInv
<1>1. /\ UNCHANGED <<stream, ends, items, got, pc, handled>> /\ rx' = Tail(rx)
      /\ pc = "search" /\ LongEnough(rx)
      /\ Due <= Len(ends) => Done < First(ends[Due])
  BY FrontIsStart, FrontIsNone DEF SkipByte, anchorVars, NextIsFirst, NoneIsFirst
<1>2. PICK r \in Nat, p \in Nat, g \in Nat :
        r = Len(rx) /\ p = Done /\ g = got /\ p = g - r /\ r > 6
  BY <1>1, Kinds DEF BufferIsStream, Done, LongEnough, FRAME_HEADER_LEN
<1>3. Len(rx') = r - 1 /\ \A q \in 1..r - 1 : rx'[q] = rx[q + 1]
  <2>1. rx \in Seq(Byte) /\ rx # <<>>
    BY <1>2, Kinds
  <2> QED BY <1>1, <1>2, <2>1, HeadTailProperties
<1>4. Done' = p + 1 /\ Due' = Due
  <2>1. got' = g /\ Len(rx') = r - 1
    BY <1>1, <1>2, <1>3
  <2>2. g - (r - 1) = p + 1
    BY <1>2
  <2>3. Due' = Due
    BY <1>1 DEF Due
  <2> QED BY <2>1, <2>2, <2>3 DEF Done
<1>5. BufferIsStream'
  <2>1. \A q \in 1..r - 1 : q + 1 \in 1..r /\ (p + 1) + q = p + (q + 1)
    BY <1>2
  <2> QED BY <1>1, <1>2, <1>3, <1>4, <2>1 DEF BufferIsStream
<1>6. Before(Due)' = Before(Due)
  BY <1>1 DEF Before, Due
<1>7. Between'
  <2>1. Due <= Len(ends) => p + 1 <= First(ends[Due])
    <3> SUFFICES ASSUME Due <= Len(ends) PROVE p + 1 <= First(ends[Due])
      OBVIOUS
    <3>1. Due \in 1..Len(ends)
      BY Kinds
    <3>2. p < First(ends[Due]) /\ First(ends[Due]) \in Int
      BY <1>1, <1>2, <3>1, Entry
    <3> QED BY <3>2
  <2>2. Before(Due) <= p + 1
    <3>1. Due \in 1..Len(ends) + 1
      BY Kinds DEF InPlace, InOrder, Due
    <3>2. Before(Due) \in Nat /\ Before(Due) <= p
      BY <1>2, <3>1, BeforeType DEF InPlace, Between
    <3> QED BY <3>2
  <2> QED BY <1>1, <1>4, <1>6, <2>1, <2>2 DEF Between
<1>8. InOrder' /\ Expecting' /\ Ready'
  BY <1>1 DEF InPlace, InOrder, Expecting, Ready
<1> QED BY <1>1, <1>5, <1>7, <1>8, LayoutSame DEF InPlace

\* The buffer and what is done with stay.
LEMMA SamePlace ==
  ASSUME Layout, BufferIsStream, InOrder, Between, UNCHANGED <<stream, ends, got, rx, handled>>
  PROVE  Layout' /\ BufferIsStream' /\ InOrder' /\ Between' /\ Done' = Done /\ Due' = Due
<1>1. Before(Due)' = Before(Due) /\ Done' = Done /\ Due' = Due
  BY DEF Before, Due, Done
<1> QED BY <1>1, LayoutSame DEF BufferIsStream, InOrder, Between

LEMMA IncompletePlace ==
  ASSUME WellBehaved, ChannelInv, Incomplete
  PROVE  Layout' /\ BufferIsStream' /\ InPlace'
<1> USE DEF ChannelInv
<1>1. /\ UNCHANGED <<stream, ends, items, got, rx, handled>> /\ pc' = "receive"
      /\ \/ ~LongEnough(rx)
         \/ LongEnough(rx) /\ AtStart /\ ~Whole
  BY DEF Incomplete, anchorVars
<1>2. Layout' /\ BufferIsStream' /\ InOrder' /\ Between' /\ Due' = Due
  BY <1>1, SamePlace DEF InPlace
<1>3. Expecting'
  <2> SUFFICES ASSUME Due <= Len(ends) PROVE ends[Due].at > got
    BY <1>1, <1>2 DEF Expecting
  <2>1. CASE ~LongEnough(rx)
    <3>1. Due \in 1..Len(ends)
      BY Kinds
    <3>2. PICK a \in Nat, m \in Nat, f \in Int :
            a = ends[Due].at /\ f = First(ends[Due]) /\ m >= 1 /\ a = f + m + 6
      BY <3>1, Entry
    <3>3. PICK r \in Nat, p \in Nat, g \in Nat :
            r = Len(rx) /\ p = Done /\ g = got /\ p = g - r /\ r <= 6
      BY <2>1, Kinds DEF BufferIsStream, Done, LongEnough, FRAME_HEADER_LEN
    <3>4. p <= f
      BY <3>2, <3>3 DEF InPlace, Between
    <3>5. a > g
      BY <3>2, <3>3, <3>4
    <3> QED BY <3>2, <3>3, <3>5
  <2>2. CASE LongEnough(rx) /\ AtStart /\ ~Whole
    BY <2>2, FrontIsStart DEF NextIsFirst, NoneIsFirst
  <2> QED BY <1>1, <2>1, <2>2
<1> QED BY <1>1, <1>2, <1>3 DEF InPlace, Ready

LEMMA FoundPlace ==
  ASSUME WellBehaved, ChannelInv, Found
  PROVE  Layout' /\ BufferIsStream' /\ InPlace'
<1> USE DEF ChannelInv
<1>1. /\ UNCHANGED <<stream, ends, items, got, rx, handled>> /\ pc' = "dispatch"
      /\ flen' = HeaderLength /\ LongEnough(rx) /\ AtStart /\ Whole /\ EndsRight
  BY DEF Found, anchorVars
<1>2. Layout' /\ BufferIsStream' /\ InOrder' /\ Between' /\ Due' = Due /\ Done' = Done
  BY <1>1, SamePlace DEF InPlace
<1>3. Ready'
  BY <1>1, <1>2, FrontIsStart DEF Ready, NextIsFirst, NoneIsFirst
<1> QED BY <1>1, <1>2, <1>3 DEF InPlace, Expecting

\* What is dispatched is the message that is next.
LEMMA DataIsMessage ==
  ASSUME WellBehaved, ChannelInv, pc = "dispatch"
  PROVE  /\ Data = ends[Due].msg /\ Due <= Len(ends)
         /\ Fcode \in DOMAIN MinLength /\ Fits
<1> USE DEF ChannelInv
<1>1. /\ Due <= Len(ends) /\ Done = First(ends[Due])
      /\ flen = Len(ends[Due].msg) /\ ends[Due].at <= got
  BY DEF InPlace, Ready
<1>2. Due \in 1..Len(ends)
  BY <1>1, Kinds
<1>3. ends[Due].msg \in Message /\ flen \in Nat /\ flen >= 1 /\ Done \in Nat
  BY <1>1, <1>2, Entry, Kinds DEF BufferIsStream
<1>4. ends[Due].msg \in Seq(Byte)
  BY <1>3, MessageAssumption DEF Bytes
<1>5. /\ Data \in Seq(Byte) /\ Len(Data) = flen /\ Data[1] = Fcode
      /\ \A i \in 1..flen : Data[i] = rx[3 + i]
  BY <1>3, DataLength DEF Bytes
<1>6. flen + 6 <= Len(rx)
  BY DEF Inv, DispatchWhole, FRAME_HEADER_LEN
<1>7. \A i \in 1..flen : rx[3 + i] = stream[Done + 3 + i]
  <2>1. \A i \in 1..flen : 3 + i \in 1..Len(rx) /\ Done + (3 + i) = Done + 3 + i
    BY <1>3, <1>6, Kinds
  <2> QED BY <2>1 DEF BufferIsStream
<1>8. \A i \in 1..flen : stream[Done + 3 + i] = ends[Due].msg[i]
  BY <1>1, <1>2 DEF Layout, Lies
<1>9. Data = ends[Due].msg
  <2>1. Len(Data) = Len(ends[Due].msg) /\ \A i \in 1..Len(Data) : Data[i] = ends[Due].msg[i]
    BY <1>1, <1>5, <1>7, <1>8
  <2> QED BY <1>4, <1>5, <2>1, SeqEqual
<1>10. Known(Data)
  BY <1>3, <1>9 DEF WellBehaved
<1> QED BY <1>1, <1>5, <1>9, <1>10 DEF Known, Fits

LEMMA HandlePlace ==
  ASSUME WellBehaved, ChannelInv, Handle
  PROVE  /\ Layout' /\ BufferIsStream' /\ InPlace'
         /\ handled' = Append(handled, ends[Due].msg) /\ Due <= Len(ends) /\ ends' = ends
<1> USE DEF ChannelInv
<1>1. /\ UNCHANGED <<stream, ends, items, got, flen>> /\ pc = "dispatch"
      /\ handled' = Append(handled, Data) /\ rx' = AfterFrame
      /\ pc' = IF rx' # <<>> THEN "search" ELSE "receive"
  BY DEF Handle, Again, anchorVars
<1>2. handled' = Append(handled, ends[Due].msg) /\ Due <= Len(ends)
  BY <1>1, DataIsMessage
<1>3. Due \in 1..Len(ends)
  BY <1>2, Kinds
<1>4. PICK n \in Nat, r \in Nat, p \in Nat, g \in Nat, a \in Nat :
        /\ n = flen /\ r = Len(rx) /\ p = Done /\ g = got /\ a = ends[Due].at
        /\ p = g - r /\ a = p + n + 6 /\ a <= g
  <2>1. /\ Done = First(ends[Due]) /\ flen = Len(ends[Due].msg) /\ ends[Due].at <= got
    BY <1>1 DEF InPlace, Ready
  <2>2. Done \in Nat /\ Done = got - Len(rx)
    BY DEF BufferIsStream, Done
  <2>3. /\ ends[Due].at \in Nat
        /\ ends[Due].at = First(ends[Due]) + Len(ends[Due].msg) + 6
    BY <1>3, Entry
  <2>4. ends[Due].at = Done + flen + 6
    BY <2>1, <2>3
  <2> QED BY <2>1, <2>2, <2>3, <2>4, Kinds
<1>5. PICK k \in Nat, d \in Nat : k = Len(ends) /\ d = Due /\ 1 <= d /\ d <= k
  <2>1. Len(ends) \in Nat /\ Due \in Nat
    BY Kinds
  <2>2. 1 <= Due /\ Due <= Len(ends)
    BY <1>3, <2>1
  <2> QED BY <2>1, <2>2
<1>6. Len(handled') = d /\ \A i \in 1..d - 1 : handled'[i] = handled[i]
  <2>1. handled \in Seq(Bytes) /\ Len(handled) = d - 1
    BY <1>4, <1>5, Kinds DEF Due
  <2>2. Data \in Bytes
    BY <1>1, DataLength
  <2> QED BY <1>1, <1>4, <1>5, <2>1, <2>2, AppendProperties
<1>7. handled'[d] = ends[Due].msg
  <2>1. handled \in Seq(Bytes) /\ Len(handled) + 1 = d /\ Data \in Bytes
    BY <1>1, <1>4, <1>5, Kinds, DataLength DEF Due
  <2> QED BY <1>1, <1>2, <2>1, AppendProperties, DataIsMessage
<1>8. Due' = d + 1
  BY <1>6 DEF Due
<1>9. Len(rx') = r - (n + 6) /\ \A q \in 1..r - (n + 6) : rx'[q] = rx[n + 6 + q]
  <2>1. rx \in Seq(Byte)
    BY Kinds
  <2>2. rx' = SubSeq(rx, n + 6 + 1, r)
    BY <1>1, <1>4 DEF AfterFrame, FRAME_HEADER_LEN
  <2>3. n + 6 <= r
    BY <1>4, <1>5
  <2>4. \A q \in n + 6 + 1..r : rx[q] \in Byte
    BY <1>4, <1>5, <2>1
  <2>5. /\ Len(rx') = IF n + 6 + 1 <= r THEN r - (n + 6 + 1) + 1 ELSE 0
        /\ \A q \in 1..r - (n + 6 + 1) + 1 : rx'[q] = rx[(n + 6 + 1) + q - 1]
    BY <2>2, <2>4, SubSeqProperties
  <2>6. (IF n + 6 + 1 <= r THEN r - (n + 6 + 1) + 1 ELSE 0) = r - (n + 6)
    BY <2>3
  <2>7. \A q \in 1..r - (n + 6) :
          q \in 1..r - (n + 6 + 1) + 1 /\ (n + 6 + 1) + q - 1 = n + 6 + q
    OBVIOUS
  <2> QED BY <2>5, <2>6, <2>7
<1>10. Done' = a /\ got' = g
  BY <1>1, <1>4, <1>5, <1>9 DEF Done
<1>11. BufferIsStream'
  <2>1. \A q \in 1..r - (n + 6) : n + 6 + q \in 1..r /\ p + (n + 6 + q) = a + q
    BY <1>4, <1>5
  <2> QED BY <1>1, <1>4, <1>5, <1>9, <1>10, <2>1, SMTT(40) DEF BufferIsStream
<1>12. InOrder'
  <2>1. \A i \in 1..d : i \in 1..d - 1 \/ i = d
    BY <1>4, <1>5
  <2>2. \A i \in 1..d - 1 : handled[i] = ends[i].msg
    <3>1. Len(handled) \in Nat /\ d = Len(handled) + 1
      BY <1>5, Kinds DEF Due
    <3>2. d - 1 = Len(handled)
      BY <3>1
    <3> QED BY <3>2 DEF InPlace, InOrder
  <2> QED BY <1>1, <1>4, <1>5, <1>6, <1>7, <2>1, <2>2 DEF InOrder
<1>13. d + 1 <= k => a <= First(ends[d + 1])
  <2> SUFFICES ASSUME d + 1 <= k PROVE a <= First(ends[d + 1])
    OBVIOUS
  <2>1. d \in 1..k /\ d + 1 \in 1..k /\ d < d + 1
    BY <1>4, <1>5
  <2> QED BY <1>4, <1>5, <2>1 DEF Layout
<1>14. Between'
  <2>1. Before(Due)' = a
    <3>1. d + 1 # 1 /\ (d + 1) - 1 = d
      BY <1>4, <1>5
    <3> QED BY <1>1, <1>4, <1>5, <1>8, <3>1 DEF Before
  <2>2. a <= a
    BY <1>4, <1>5
  <2> QED BY <1>1, <1>4, <1>5, <1>8, <1>10, <1>13, <2>1, <2>2 DEF Between
<1>15. Expecting'
  <2> SUFFICES ASSUME rx' = <<>>, d + 1 <= k PROVE ends[d + 1].at > g
    BY <1>1, <1>4, <1>5, <1>8, <1>10 DEF Expecting
  <2>1. a = g
    <3>1. r - (n + 6) = 0
      BY <1>9
    <3>2. p = g - r /\ a = p + n + 6
      BY <1>4, <1>5
    <3> QED BY <3>1, <3>2
  <2>2. d + 1 \in 1..Len(ends)
    BY <1>4, <1>5
  <2>3. PICK b \in Nat, m \in Nat, f \in Int :
          b = ends[d + 1].at /\ f = First(ends[d + 1]) /\ m >= 1 /\ b = f + m + 6
    BY <2>2, Entry
  <2>4. a <= f
    BY <1>13, <2>3
  <2>5. b > g
    BY <2>1, <2>3, <2>4
  <2> QED BY <2>3, <2>5
<1>16. Ready'
  BY <1>1 DEF Ready
<1> QED BY <1>1, <1>2, <1>11, <1>12, <1>14, <1>15, <1>16, LayoutSame DEF InPlace

\* Every step keeps the invariant.
LEMMA ChannelNext ==
  ASSUME WellBehaved, ChannelInv, [FrameNext]_frameVars
  PROVE  ChannelInv'
<1>1. Inv'
  BY InvNext DEF ChannelInv
<1>2. SUFFICES Layout' /\ BufferIsStream' /\ InPlace'
  BY <1>1 DEF ChannelInv
<1>3. ASSUME NEW m \in Message, SendMessage(m)
      PROVE  Layout' /\ BufferIsStream' /\ InPlace'
  <2>1. UNCHANGED <<got, rx, flen, pc, handled>>
    BY <1>3 DEF SendMessage
  <2>2. /\ Layout' /\ Len(ends') = Len(ends) + 1
        /\ \A i \in 1..Len(ends) : ends'[i] = ends[i]
        /\ First(ends'[Len(ends) + 1]) = Len(stream)
        /\ ends'[Len(ends) + 1].at \in Nat /\ ends'[Len(ends) + 1].at > Len(stream)
        /\ \A q \in 1..Len(stream) : stream'[q] = stream[q]
    BY <1>3, LayoutMessage DEF ChannelInv
  <2> QED BY <2>1, <2>2, SentStep
<1>4. ASSUME NEW j \in Junk, SendJunk(j)
      PROVE  Layout' /\ BufferIsStream' /\ InPlace'
  <2>1. UNCHANGED <<got, rx, flen, pc, handled>>
    BY <1>4 DEF SendJunk
  <2>2. Layout' /\ ends' = ends /\ \A q \in 1..Len(stream) : stream'[q] = stream[q]
    BY <1>4, LayoutJunk DEF ChannelInv
  <2> QED BY <2>1, <2>2, SentStep
<1>5. CASE Receive BY <1>5, ReceivePlace
<1>6. CASE Close
  <2>1. UNCHANGED <<stream, ends, got, rx, handled>> /\ pc' = "closed"
    BY <1>6 DEF Close, anchorVars
  <2> QED BY <2>1, SamePlace DEF ChannelInv, InPlace, Expecting, Ready
<1>7. CASE SkipByte BY <1>7, SkipBytePlace
<1>8. CASE Incomplete BY <1>8, IncompletePlace
<1>9. CASE Found BY <1>9, FoundPlace
<1>10. CASE Handle BY <1>10, HandlePlace
<1>11. CASE TooShort BY <1>11, DataIsMessage DEF TooShort
<1>12. CASE Unknown BY <1>12, DataIsMessage DEF Unknown
<1>13. CASE UNCHANGED frameVars
  <2>1. UNCHANGED <<stream, ends, got, rx, handled, flen, pc>>
    BY <1>13 DEF frameVars, anchorVars
  <2> QED BY <2>1, SamePlace DEF ChannelInv, InPlace, Expecting, Ready
<1> QED BY <1>3, <1>4, <1>5, <1>6, <1>7, <1>8, <1>9, <1>10, <1>11, <1>12, <1>13
           DEF FrameNext, Parse

LEMMA ChannelInit == FrameInit => ChannelInv
<1> SUFFICES ASSUME FrameInit PROVE ChannelInv
  OBVIOUS
<1>1. /\ stream = <<>> /\ ends = <<>> /\ got = 0 /\ rx = <<>> /\ handled = <<>>
      /\ pc = "receive"
  BY DEF FrameInit
<1>2. Len(stream) = 0 /\ Len(ends) = 0 /\ Len(rx) = 0 /\ Len(handled) = 0
  BY <1>1
<1>3. Layout
  BY <1>1, <1>2 DEF Layout, Before, Quiet
<1>4. BufferIsStream /\ InPlace
  BY <1>1, <1>2 DEF BufferIsStream, Done, InPlace, InOrder, Between, Expecting, Ready, Due, Before
<1> QED BY <1>3, <1>4, InvInit DEF ChannelInv

\* While the thread waits for bytes, the messages that have arrived are the handled ones.
LEMMA ArrivedIsHandled ==
  ASSUME WellBehaved, ChannelInv
  PROVE  FramesHandled
<1> USE DEF ChannelInv
<1>1. PICK c \in Nat, k \in Nat, g \in Nat :
        /\ c = Len(handled) /\ k = Len(ends) /\ g = got /\ c <= k /\ Due = c + 1
        /\ DOMAIN ends = 1..k /\ DOMAIN handled = 1..c
  BY Kinds DEF InPlace, InOrder, Due
<1>2. ASSUME pc = "receive" PROVE {i \in DOMAIN ends : ends[i].at <= got} = 1..c
  <2>1. ASSUME NEW i \in 1..k PROVE ends[i].at <= g <=> i <= c
    <3>1. ends[i].at \in Nat /\ ends[i].at <= First(ends[i]) + Len(ends[i].msg) + 6
      BY <1>1, Entry
    <3>2. CASE i <= c
      <4>1. Before(Due) = ends[c].at /\ c \in 1..k
        <5>1. c + 1 # 1 /\ (c + 1) - 1 = c /\ c \in 1..k
          BY <1>1, <3>2
        <5> QED BY <1>1, <5>1 DEF Before
      <4>2. ends[c].at \in Nat /\ ends[c].at <= g
        <5>1. ends[c].at <= Done /\ Done \in Nat /\ Done = got - Len(rx)
          BY <4>1 DEF InPlace, Between, BufferIsStream, Done
        <5>2. ends[c].at \in Nat
          BY <1>1, <4>1, Entry
        <5>3. Len(rx) \in Nat
          BY Kinds
        <5> QED BY <1>1, <5>1, <5>2, <5>3
      <4>3. CASE i = c
        BY <3>2, <4>2, <4>3
      <4>4. CASE i < c
        <5>1. ends[i].at <= First(ends[c])
          BY <1>1, <4>1, <4>4 DEF Layout
        <5>2. PICK a \in Nat, m \in Nat, f \in Int :
                a = ends[c].at /\ f = First(ends[c]) /\ m >= 1 /\ a = f + m + 6
          BY <1>1, <4>1, Entry
        <5>3. ends[i].at <= g
          BY <3>1, <4>2, <5>1, <5>2, SMTT(40)
        <5> QED BY <3>2, <5>3
      <4> QED BY <1>1, <3>2, <4>3, <4>4
    <3>3. CASE ~(i <= c)
      <4>1. c + 1 \in 1..k /\ (i = c + 1 \/ c + 1 < i)
        BY <1>1, <3>3
      <4>2. PICK a \in Nat : a = ends[c + 1].at /\ a > g
        BY <1>1, <1>2, <4>1, Entry DEF InPlace, Expecting
      <4>3. CASE i = c + 1
        BY <3>3, <4>2, <4>3
      <4>4. CASE c + 1 < i
        <5>1. a <= First(ends[i])
          BY <1>1, <4>1, <4>2, <4>4 DEF Layout
        <5>2. PICK b \in Nat, m \in Nat, f \in Int :
                b = ends[i].at /\ f = First(ends[i]) /\ m >= 1 /\ b = f + m + 6
          BY <1>1, Entry
        <5>3. b > g
          BY <4>2, <5>1, <5>2
        <5> QED BY <3>3, <5>2, <5>3
      <4> QED BY <4>1, <4>3, <4>4
    <3> QED BY <3>2, <3>3
  <2>2. \A i \in 1..c : i \in 1..k /\ i <= c
    BY <1>1
  <2>3. \A i \in 1..k : i <= c => i \in 1..c
    BY <1>1
  <2> QED BY <1>1, <2>1, <2>2, <2>3
<1>3. Cardinality(1..c) = c
  <2>1. Cardinality(1..c) = IF 1 > c THEN 0 ELSE c - 1 + 1
    <3>1. 1 \in Int /\ c \in Int
      BY <1>1
    <3> QED BY <3>1, FS_Interval
  <2>2. c \in Nat
    BY <1>1
  <2> QED BY <2>1, <2>2
<1>4. PromptlyHandled
  BY <1>1, <1>2, <1>3 DEF PromptlyHandled
<1>5. HandledWereSent
  <2> DEFINE at == [i \in 1..c |-> i]
  <2>1. \A i \in 1..c : i \in 1..k
    BY <1>1
  <2>2. at \in [1..c -> 1..k] /\ \A i \in 1..c : at[i] = i
    BY <2>1
  <2>3. \A i \in 1..c : handled[i] = ends[i].msg
    BY <1>1 DEF InPlace, InOrder
  <2> HIDE DEF at
  <2> QED BY <1>1, <2>2, <2>3 DEF HandledWereSent
<1> QED BY <1>4, <1>5, SMTT(40) DEF FramesHandled

\* However the bytes are cut into pieces, and whatever else without a start byte lies
\* between the frames: every message that has arrived has been handled when the thread
\* waits for more, and what was handled was sent, in that order.
THEOREM EveryFrameIsHandled == WellBehaved => (FrameSpec => []FramesHandled)
<1> SUFFICES ASSUME WellBehaved PROVE FrameSpec => []FramesHandled
  OBVIOUS
<1>1. FrameInit => ChannelInv
  BY ChannelInit
<1>2. ChannelInv /\ [FrameNext]_frameVars => ChannelInv'
  BY ChannelNext
<1>3. ChannelInv => FramesHandled
  BY ArrivedIsHandled
<1> QED BY <1>1, <1>2, <1>3, PTL DEF FrameSpec

-----------------------------------------------------------------------------
(* The parser implements the channel that AnchorHelper relies on.          *)
Delivery == INSTANCE OrderedDelivery WITH sent <- Sent

Messages(es) == [i \in DOMAIN es |-> es[i].msg]

LEMMA MessagesOf ==
  ASSUME NEW es \in Seq([msg : Message, at : Nat])
  PROVE  /\ Messages(es) \in Seq(Message) /\ Len(Messages(es)) = Len(es)
         /\ \A i \in 1..Len(es) : Messages(es)[i] = es[i].msg
<1> DEFINE R == [msg : Message, at : Nat]
<1>1. es \in Seq(R)
  OBVIOUS
<1> HIDE DEF R
<1>2. Len(es) \in Nat /\ DOMAIN es = 1..Len(es) /\ \A i \in 1..Len(es) : es[i] \in R
  BY <1>1
<1>3. \A i \in 1..Len(es) : es[i].msg \in Message
  BY <1>2 DEF R
<1>4. Messages(es) \in [1..Len(es) -> Message]
  BY <1>2, <1>3 DEF Messages
<1>5. \A i \in 1..Len(es) : Messages(es)[i] = es[i].msg
  BY <1>2 DEF Messages
<1> DEFINE s == Messages(es)
           n == Len(es)
<1>6. s \in [1..n -> Message] /\ n \in Nat
  BY <1>2, <1>4
<1> HIDE DEF s, n
<1>7. s \in Seq(Message)
  BY <1>6, IsASeq
<1>8. Len(s) = n
  BY <1>6
<1> QED BY <1>5, <1>7, <1>8 DEF s, n

\* Sending a frame is sending its message.
LEMMA SentGrows ==
  ASSUME NEW es \in Seq([msg : Message, at : Nat]), NEW e \in [msg : Message, at : Nat]
  PROVE  Messages(Append(es, e)) = Append(Messages(es), e.msg)
<1> DEFINE R == [msg : Message, at : Nat]
<1>1. es \in Seq(R) /\ e \in R /\ e.msg \in Message
  OBVIOUS
<1> DEFINE fs == Append(es, e)
<1> HIDE DEF R
<1>2. fs \in Seq(R) /\ Len(fs) = Len(es) + 1 /\ fs[Len(es) + 1] = e
      /\ \A i \in 1..Len(es) : fs[i] = es[i]
  BY <1>1, AppendProperties
<1> HIDE DEF fs
<1>3. /\ Messages(fs) \in Seq(Message) /\ Len(Messages(fs)) = Len(fs)
      /\ \A i \in 1..Len(fs) : Messages(fs)[i] = fs[i].msg
  BY <1>2, MessagesOf DEF R
<1>4. /\ Messages(es) \in Seq(Message) /\ Len(Messages(es)) = Len(es)
      /\ \A i \in 1..Len(es) : Messages(es)[i] = es[i].msg
  BY <1>1, MessagesOf DEF R
<1> DEFINE s == Messages(es)
           u == Messages(fs)
           v == Append(s, e.msg)
<1>5. /\ v \in Seq(Message) /\ Len(v) = Len(s) + 1 /\ v[Len(s) + 1] = e.msg
      /\ \A i \in 1..Len(s) : v[i] = s[i]
  BY <1>1, <1>4, AppendProperties
<1>6. PICK n \in Nat : n = Len(es)
  BY <1>1
<1> HIDE DEF s, u, v
<1>7. Len(u) = n + 1 /\ Len(v) = n + 1 /\ Len(s) = n
  BY <1>2, <1>3, <1>4, <1>5, <1>6 DEF s, u
<1>8. ASSUME NEW i \in 1..n + 1 PROVE u[i] = v[i]
  <2>1. u[i] = fs[i].msg
    BY <1>2, <1>3, <1>6 DEF u
  <2>2. CASE i \in 1..n
    BY <1>2, <1>4, <1>5, <1>6, <1>7, <2>1, <2>2 DEF s
  <2>3. CASE i = n + 1
    BY <1>2, <1>5, <1>6, <1>7, <2>1, <2>3
  <2> QED BY <2>2, <2>3
<1>9. u = v
  <2>1. u \in Seq(Message) /\ v \in Seq(Message)
    BY <1>3, <1>5 DEF u
  <2> QED BY <1>7, <1>8, <2>1, SeqEqual
<1> QED BY <1>9 DEF u, v, s, fs

\* Every step of the parser and of the anchor is one of the channel, or none.
LEMMA ChannelStep ==
  ASSUME WellBehaved, ChannelInv, [FrameNext]_frameVars
  PROVE  [Delivery!Next]_(Delivery!vars)
<1>1. Sent = Messages(ends) /\ Sent' = Messages(ends')
  BY DEF Sent, Messages
<1>2. CASE ends' = ends /\ handled' = handled
  BY <1>1, <1>2 DEF Delivery!vars
<1>3. ASSUME NEW m \in Message, SendMessage(m) PROVE Delivery!Next
  <2> DEFINE e == [msg |-> m, at |-> Len(stream) + Len(Frame(m))]
  <2>1. ends' = Append(ends, e) /\ handled' = handled
    BY <1>3 DEF SendMessage
  <2>2. e \in [msg : Message, at : Nat] /\ e.msg = m
    <3>1. Frame(m) \in Seq(Byte) /\ stream \in Seq(Byte)
      BY FrameType, Kinds DEF Bytes, ChannelInv
    <3>2. Len(stream) + Len(Frame(m)) \in Nat
      BY <3>1
    <3> QED BY <3>2
  <2> HIDE DEF e
  <2>3. Messages(Append(ends, e)) = Append(Messages(ends), m)
    BY <2>2, SentGrows, Kinds DEF ChannelInv
  <2>4. Sent' = Append(Sent, m)
    BY <1>1, <2>1, <2>3
  <2> QED BY <2>1, <2>4 DEF Delivery!Next, Delivery!Send
<1>4. CASE Handle
  <2>1. handled' = Append(handled, ends[Due].msg) /\ Due <= Len(ends) /\ ends' = ends
    BY <1>4, HandlePlace
  <2>2. ends \in Seq([msg : Message, at : Nat])
    BY Kinds DEF ChannelInv
  <2>3. Len(Sent) = Len(ends) /\ \A i \in 1..Len(ends) : Sent[i] = ends[i].msg
    BY <1>1, <2>2, MessagesOf
  <2>4. Due \in 1..Len(ends) /\ Due = Len(handled) + 1 /\ Len(handled) < Len(ends)
    BY <2>1, Kinds DEF Due, ChannelInv
  <2>5. handled' = Append(handled, Sent[Len(handled) + 1])
    BY <2>1, <2>3, <2>4
  <2>6. Sent' = Sent
    BY <1>1, <2>1
  <2> QED BY <2>3, <2>4, <2>5, <2>6 DEF Delivery!Next, Delivery!Handle
<1>5. CASE TooShort BY <1>5, DataIsMessage DEF TooShort
<1>6. CASE Unknown BY <1>6, DataIsMessage DEF Unknown
<1>7. ASSUME NEW j \in Junk, SendJunk(j) PROVE ends' = ends /\ handled' = handled
  BY <1>7 DEF SendJunk
<1>8. CASE Receive \/ Close \/ SkipByte \/ Incomplete \/ Found \/ UNCHANGED frameVars
  <2>1. ends' = ends /\ handled' = handled
    BY <1>8 DEF Receive, Close, SkipByte, Incomplete, Found, frameVars, anchorVars
  <2> QED BY <1>2, <2>1
<1> QED BY <1>2, <1>3, <1>4, <1>5, <1>6, <1>7, <1>8 DEF FrameNext, Parse

\* The parser implements the channel that AnchorHelper relies on: each message is
\* handed over once, none before one that was sent before it.  (That each is handed
\* over in the end is liveness, which the runs check.)
THEOREM IsAChannel ==
  WellBehaved => (FrameSpec => Delivery!Init /\ [][Delivery!Next]_(Delivery!vars))
<1> SUFFICES ASSUME WellBehaved
             PROVE  FrameSpec => Delivery!Init /\ [][Delivery!Next]_(Delivery!vars)
  OBVIOUS
<1>1. FrameInit => ChannelInv
  BY ChannelInit
<1>2. ChannelInv /\ [FrameNext]_frameVars => ChannelInv'
  BY ChannelNext
<1>3. ChannelInv /\ [FrameNext]_frameVars => [Delivery!Next]_(Delivery!vars)
  BY ChannelStep
<1>4. FrameInit => Delivery!Init
  BY DEF FrameInit, Delivery!Init, Sent
<1> QED BY <1>1, <1>2, <1>3, <1>4, PTL DEF FrameSpec

-----------------------------------------------------------------------------
(***************************************************************************)
(* The addresses of a network.  First what is needed of powers of two and  *)
(* of division: a netmask splits a field where the host's part begins.     *)
(***************************************************************************)

\* A set of a + b elements has as many subsets as there are pairs of subsets of its parts.
LEMMA PowersOfTwo ==
  ASSUME NEW a \in Nat, NEW b \in Nat
  PROVE  2^a \in Nat \ {0} /\ 2^(a + b) = 2^a * 2^b
<1> DEFINE A == 1..a
           C == a + 1..a + b
           S == 1..a + b
           both == [p \in (SUBSET A) \X (SUBSET C) |-> p[1] \cup p[2]]
<1>1. /\ IsFiniteSet(A) /\ Cardinality(A) = a
      /\ IsFiniteSet(C) /\ Cardinality(C) = b
      /\ IsFiniteSet(S) /\ Cardinality(S) = a + b
  <2>1. \A x \in Int, y \in Int :
          IsFiniteSet(x..y) /\ Cardinality(x..y) = IF x > y THEN 0 ELSE y - x + 1
    BY FS_Interval
  <2>2. IsFiniteSet(A) /\ Cardinality(A) = a
    BY <2>1
  <2>3. IsFiniteSet(C) /\ Cardinality(C) = b
    <3>1. Cardinality(C) = IF a + 1 > a + b THEN 0 ELSE a + b - (a + 1) + 1
      BY <2>1, a + 1 \in Int, a + b \in Int
    <3>2. IsFiniteSet(C)
      BY <2>1, a + 1 \in Int, a + b \in Int
    <3>3. (IF a + 1 > a + b THEN 0 ELSE a + b - (a + 1) + 1) = b
      OBVIOUS
    <3> QED BY <3>1, <3>2, <3>3
  <2>4. IsFiniteSet(S) /\ Cardinality(S) = a + b
    <3>1. Cardinality(S) = (IF 1 > a + b THEN 0 ELSE a + b - 1 + 1) /\ IsFiniteSet(S)
      BY <2>1, a + b \in Int
    <3>2. (IF 1 > a + b THEN 0 ELSE a + b - 1 + 1) = a + b
      OBVIOUS
    <3> QED BY <3>1, <3>2
  <2> QED BY <2>2, <2>3, <2>4
<1>2. A \cup C = S /\ A \cap C = {}
  OBVIOUS
<1> HIDE DEF A, C, S
<1>3. /\ IsFiniteSet(SUBSET A) /\ Cardinality(SUBSET A) = 2^a
      /\ IsFiniteSet(SUBSET C) /\ Cardinality(SUBSET C) = 2^b
      /\ Cardinality(SUBSET S) = 2^(a + b)
  BY <1>1, FS_SUBSET
<1>4. /\ IsFiniteSet((SUBSET A) \X (SUBSET C))
      /\ Cardinality((SUBSET A) \X (SUBSET C)) = 2^a * 2^b
  BY <1>3, FS_Product
<1>5. both \in Bijection((SUBSET A) \X (SUBSET C), SUBSET S)
  <2>1. both \in [(SUBSET A) \X (SUBSET C) -> SUBSET S]
    BY <1>2
  <2>2. ASSUME NEW p \in (SUBSET A) \X (SUBSET C), NEW q \in (SUBSET A) \X (SUBSET C),
               both[p] = both[q]
        PROVE  p = q
    <3>1. PICK p1 \in SUBSET A, p2 \in SUBSET C, q1 \in SUBSET A, q2 \in SUBSET C :
            p = <<p1, p2>> /\ q = <<q1, q2>>
      OBVIOUS
    <3>2. p1 \cup p2 = q1 \cup q2
      BY <2>2, <3>1
    <3>3. p1 = q1 /\ p2 = q2
      BY <1>2, <3>2
    <3> QED BY <3>1, <3>3
  <2>3. ASSUME NEW U \in SUBSET S
        PROVE  \E p \in (SUBSET A) \X (SUBSET C) : both[p] = U
    <3>1. <<U \cap A, U \cap C>> \in (SUBSET A) \X (SUBSET C)
      OBVIOUS
    <3>2. both[<<U \cap A, U \cap C>>] = (U \cap A) \cup (U \cap C)
      BY <3>1
    <3>3. (U \cap A) \cup (U \cap C) = U
      BY <1>2
    <3> QED BY <3>1, <3>2, <3>3
  <2> HIDE DEF both
  <2> QED BY <2>1, <2>2, <2>3 DEF Bijection, Injection, Surjection, IsInjective
<1>6. Cardinality(SUBSET S) = Cardinality((SUBSET A) \X (SUBSET C))
  BY <1>4, <1>5, FS_Bijection DEF ExistsBijection
<1>7. 2^a \in Nat
  BY <1>3, FS_CardinalityType
<1>8. 2^a # 0
  BY <1>3, FS_EmptySet, {} \in SUBSET A
<1> QED BY <1>3, <1>4, <1>6, <1>7, <1>8

\* A quotient is a natural number, and what it leaves is less than the divisor.
LEMMA DivisionWithRest ==
  ASSUME NEW a \in Nat, NEW n \in Nat \ {0}
  PROVE  /\ a \div n \in Nat /\ a % n \in 0..n - 1
         /\ a = n * (a \div n) + (a % n)
  BY Z3

\* There is one quotient and one rest.
LEMMA OneDivision ==
  ASSUME NEW a \in Nat, NEW n \in Nat \ {0}, NEW q \in Nat, NEW r \in 0..n - 1,
         a = n * q + r
  PROVE  a \div n = q /\ a % n = r
<1> DEFINE down == a \div n
           rest == a % n
<1>1. down \in Nat /\ rest \in 0..n - 1 /\ a = n * down + rest
  BY DivisionWithRest
<1> HIDE DEF down, rest
<1>2. n * (down - q) = r - rest
  <2>1. n * (down - q) = n * down - n * q
    BY <1>1
  <2>2. n * down \in Nat /\ n * q \in Nat
    BY <1>1
  <2> QED BY <1>1, <2>1, <2>2
<1>3. ~(down > q)
  <2> SUFFICES ASSUME down > q PROVE FALSE
    OBVIOUS
  <2>1. n * (down - q) >= n
    BY <1>1
  <2> QED BY <1>1, <1>2, <2>1
<1>4. ~(down < q)
  <2> SUFFICES ASSUME down < q PROVE FALSE
    OBVIOUS
  <2>1. n * (down - q) <= - n
    BY <1>1
  <2> QED BY <1>1, <1>2, <2>1
<1>5. down = q
  BY <1>1, <1>3, <1>4
<1>6. rest = r
  BY <1>1, <1>5, n * q \in Nat
<1> QED BY <1>5, <1>6 DEF down, rest

LEMMA SmallDivision ==
  ASSUME NEW n \in Nat \ {0}, NEW a \in 0..n - 1
  PROVE  a \div n = 0 /\ a % n = a
<1>1. a = n * 0 + a /\ a \in Nat
  OBVIOUS
<1> QED BY <1>1, OneDivision

\* Dividing twice is dividing by the product.
LEMMA DivisionTwice ==
  ASSUME NEW a \in Nat, NEW n \in Nat \ {0}, NEW k \in Nat \ {0}
  PROVE  a \div (n * k) = (a \div n) \div k
<1> DEFINE q == a \div n
           r == a % n
           p == q \div k
           s == q % k
<1>1. q \in Nat /\ r \in 0..n - 1 /\ a = n * q + r
  BY DivisionWithRest
<1>2. p \in Nat /\ s \in 0..k - 1 /\ q = k * p + s
  BY <1>1, DivisionWithRest
<1> HIDE DEF q, r, p, s
<1>3. n * q = (n * k) * p + n * s
  BY <1>1, <1>2
<1>4. n * s + r \in 0..(n * k) - 1
  <2>1. n * s <= n * (k - 1) /\ n * s \in Nat
    BY <1>2
  <2>2. n * (k - 1) = n * k - n
    OBVIOUS
  <2> QED BY <1>1, <2>1, <2>2
<1>5. a = (n * k) * p + (n * s + r)
  BY <1>1, <1>2, <1>3
<1>6. n * k \in Nat \ {0}
  OBVIOUS
<1>7. a \div (n * k) = p
  BY <1>2, <1>4, <1>5, <1>6, OneDivision
<1> QED BY <1>7 DEF p, q

\* One field of an address.  Of base values of the field, n belong to the hosts; ip is the
\* field of the host's address, and x what the iterator adds to its network's: it changes
\* the host's part alone, and what it does not hold is left to the field before.
FieldAdds(base, n, x, ip) ==
  LET field == (x + (ip - (ip % n))) % base
  IN  /\ field \in 0..base - 1
      /\ field % n = x % n
      /\ field - (field % n) = ip - (ip % n)
      /\ x = n * (x \div base) + (x % n)

LEMMA OneField ==
  ASSUME NEW base \in Nat \ {0}, NEW n \in Nat \ {0}, NEW k \in Nat \ {0}, base = n * k,
         NEW x \in Nat, NEW ip \in 0..base - 1, n = base \/ x < n
  PROVE  FieldAdds(base, n, x, ip)
<1> USE DEF FieldAdds
<1> DEFINE net == ip - (ip % n)
           field == (x + net) % base
<1>1. /\ ip \div n \in Nat /\ ip % n \in 0..n - 1
      /\ ip = n * (ip \div n) + (ip % n)
  BY ip \in Nat, DivisionWithRest
<1>2. CASE n = base
  <2>1. ip % n = ip
    BY <1>2, SmallDivision
  <2>2. net = 0
    BY <2>1
  <2>3. field = x % n
    BY <1>2, <2>2
  <2>4. x % n \in 0..n - 1 /\ x = n * (x \div n) + (x % n)
    BY DivisionWithRest
  <2>5. field % n = field
    <3>1. PICK y \in 0..n - 1 : y = field
      BY <2>3, <2>4
    <3> QED BY <3>1, SmallDivision
  <2> QED BY <1>2, <2>2, <2>3, <2>4, <2>5
<1>3. CASE x < n
  <2>1. PICK p \in Nat : p = ip \div n /\ net = n * p
    BY <1>1
  <2>2. p < k
    <3> SUFFICES ASSUME p >= k PROVE FALSE
      OBVIOUS
    <3>1. n * p >= n * k
      OBVIOUS
    <3> QED BY <1>1, <2>1, <3>1
  <2>3. n * p + x \in 0..base - 1
    <3>1. n * p <= n * (k - 1)
      BY <2>2
    <3>2. n * (k - 1) = base - n
      OBVIOUS
    <3>3. n * p \in Nat
      OBVIOUS
    <3> QED BY <1>3, <3>1, <3>2, <3>3
  <2>4. field = n * p + x
    <3>1. x + net = n * p + x
      BY <2>1
    <3> QED BY <2>3, <3>1, SmallDivision
  <2>5. field % n = x
    <3>1. (n * p + x) % n = x
      BY <1>3, <2>3, x \in 0..n - 1, n * p + x \in Nat, OneDivision
    <3> QED BY <2>4, <3>1
  <2>6. x % n = x
    BY <1>3, x \in 0..n - 1, SmallDivision
  <2>7. x \div base = 0
    <3>1. x \in 0..base - 1
      <4>1. base >= n
        OBVIOUS
      <4> QED BY <1>3, <4>1
    <3> QED BY <3>1, SmallDivision
  <2> QED BY <2>1, <2>3, <2>4, <2>5, <2>6, <2>7
<1> QED BY <1>2, <1>3

(***************************************************************************)
(* An address the iterator gives, by its fields: of a field's values those *)
(* under the netmask are the network's, and HostPart of them are left to   *)
(* the hosts.  What the iterator counts is the number the host's parts of  *)
(* the four fields make.                                                   *)
(***************************************************************************)

HostPart(cidr, i) == 2^(W - Kept(cidr, i))

\* The number made of the host's parts of an address.
Number(h, a) ==
  LET part(i) == a[i] % HostPart(h.cidr, i)
  IN  B * (HostPart(h.cidr, 3) * (HostPart(h.cidr, 2) * part(1) + part(2)) + part(3)) + part(4)

\* The interfaces the hosts of which have at least the last field.
WideInterface == [ip : Address, cidr : 1..3 * W, loopback : BOOLEAN]

LEMMA BaseType == B \in Nat \ {0}
BY WidthAssumption, PowersOfTwo DEF B

\* What a netmask leaves of the fields.
LEMMA BitsLeft ==
  ASSUME NEW c \in 1..3 * W
  PROVE  LET left(i) == W - Kept(c, i)
         IN  /\ \A i \in 1..4 : left(i) \in Nat /\ Kept(c, i) \in Nat
             /\ left(4) = W
             /\ left(1) = 0 \/ left(2) = W
             /\ left(2) = 0 \/ left(3) = W
             /\ left(1) + left(2) + left(3) + left(4) = 4 * W - c
<1>1. W \in Nat \ {0} /\ c \in Nat /\ c >= 1 /\ c <= 3 * W
  BY WidthAssumption
<1>2. /\ Kept(c, 1) = IF c > W THEN W ELSE c
      /\ Kept(c, 2) = IF c < W THEN 0 ELSE IF c > 2 * W THEN W ELSE c - W
      /\ Kept(c, 3) = IF c < 2 * W THEN 0 ELSE c - 2 * W
      /\ Kept(c, 4) = 0
  BY <1>1 DEF Kept
<1>3. \A i \in 1..4 : i = 1 \/ i = 2 \/ i = 3 \/ i = 4
  OBVIOUS
<1>4. CASE c <= W
  BY <1>1, <1>2, <1>3, <1>4
<1>5. CASE c > W /\ c <= 2 * W
  BY <1>1, <1>2, <1>3, <1>5
<1>6. CASE c > 2 * W
  BY <1>1, <1>2, <1>3, <1>6
<1> QED BY <1>1, <1>4, <1>5, <1>6

LEMMA HostParts ==
  ASSUME NEW c \in 1..3 * W
  PROVE  LET n(i) == HostPart(c, i)
         IN  /\ \A i \in 1..4 : n(i) \in Nat \ {0} /\ \E k \in Nat \ {0} : B = n(i) * k
             /\ n(4) = B
             /\ n(1) = 1 \/ n(2) = B
             /\ n(2) = 1 \/ n(3) = B
             /\ MCount(c) = ((n(1) * n(2)) * n(3)) * B
<1> DEFINE left(i) == W - Kept(c, i)
<1>1. /\ \A i \in 1..4 : left(i) \in Nat /\ Kept(c, i) \in Nat
      /\ left(4) = W
      /\ left(1) = 0 \/ left(2) = W
      /\ left(2) = 0 \/ left(3) = W
      /\ left(1) + left(2) + left(3) + left(4) = 4 * W - c
  BY BitsLeft
<1>2. ASSUME NEW i \in 1..4
      PROVE  HostPart(c, i) \in Nat \ {0} /\ \E k \in Nat \ {0} : B = HostPart(c, i) * k
  <2>1. left(i) \in Nat /\ Kept(c, i) \in Nat /\ left(i) + Kept(c, i) = W
    <3>1. left(i) \in Nat /\ Kept(c, i) \in Nat
      BY <1>1
    <3>2. \A w \in Nat, k \in Nat : (w - k) + k = w
      OBVIOUS
    <3> QED BY <3>1, <3>2, WidthAssumption
  <2>2. 2^left(i) \in Nat \ {0} /\ 2^Kept(c, i) \in Nat \ {0}
    BY <2>1, PowersOfTwo
  <2>3. 2^(left(i) + Kept(c, i)) = 2^left(i) * 2^Kept(c, i)
    BY <2>1, PowersOfTwo
  <2> QED BY <2>1, <2>2, <2>3 DEF B, HostPart
<1>3. 2^0 = 1
  OBVIOUS
<1>4. /\ HostPart(c, 4) = B
      /\ HostPart(c, 1) = 1 \/ HostPart(c, 2) = B
      /\ HostPart(c, 2) = 1 \/ HostPart(c, 3) = B
  BY <1>1, <1>3 DEF B, HostPart
<1>5. MCount(c) = ((HostPart(c, 1) * HostPart(c, 2)) * HostPart(c, 3)) * B
  <2>1. PICK w \in Nat, x \in Nat, y \in Nat, z \in Nat :
          w = left(1) /\ x = left(2) /\ y = left(3) /\ z = left(4)
    <3>1. left(1) \in Nat /\ left(2) \in Nat /\ left(3) \in Nat /\ left(4) \in Nat
      BY <1>1, 1 \in 1..4, 2 \in 1..4, 3 \in 1..4, 4 \in 1..4
    <3> HIDE DEF left
    <3> QED BY <3>1
  <2>2. 2^(w + x) = 2^w * 2^x
    BY PowersOfTwo
  <2>3. 2^((w + x) + y) = 2^(w + x) * 2^y
    BY w + x \in Nat, PowersOfTwo
  <2>4. 2^(((w + x) + y) + z) = 2^((w + x) + y) * 2^z
    BY (w + x) + y \in Nat, PowersOfTwo
  <2>5. ((w + x) + y) + z = 4 * W - c /\ z = W
    BY <1>1, <2>1
  <2> QED BY <2>1, <2>2, <2>3, <2>4, <2>5 DEF MCount, HostPart, B
<1> QED BY <1>2, <1>4, <1>5

LEMMA QuotientBelow ==
  ASSUME NEW a \in Nat, NEW base \in Nat \ {0}, NEW p \in Nat, a < p * base
  PROVE  a \div base < p
<1>1. PICK q \in Nat, r \in 0..base - 1 : q = a \div base /\ a = base * q + r
  BY DivisionWithRest
<1>2. SUFFICES ASSUME q >= p PROVE FALSE
  BY <1>1
<1>3. base * q >= p * base /\ base * q \in Nat
  BY <1>2
<1> QED BY <1>1, <1>3

\* The quotients the iterator adds to the fields leave the network's parts alone: a field
\* that has one is added less than the host's part holds.
QuotientsAre(base, n1, n2, n3, m) ==
  LET x3 == m \div base
      x2 == x3 \div base
      x1 == x2 \div base
  IN  /\ x1 \in Nat /\ x2 \in Nat /\ x3 \in Nat
      /\ n3 = base \/ x3 < n3
      /\ n2 = base \/ x2 < n2
      /\ x1 < n1 /\ x1 \div base = 0

LEMMA QuotientsFit ==
  ASSUME NEW base \in Nat \ {0}, NEW n1 \in 1..base, NEW n2 \in 1..base, NEW n3 \in 1..base,
         n1 = 1 \/ n2 = base, n2 = 1 \/ n3 = base,
         NEW m \in Nat, m < ((n1 * n2) * n3) * base
  PROVE  QuotientsAre(base, n1, n2, n3, m)
<1> USE DEF QuotientsAre
<1>1. PICK x3 \in Nat : x3 = m \div base
  BY DivisionWithRest
<1>2. PICK x2 \in Nat : x2 = x3 \div base
  BY DivisionWithRest
<1>3. PICK x1 \in Nat : x1 = x2 \div base
  BY DivisionWithRest
<1>4. n1 * n2 \in Nat /\ (n1 * n2) * n3 \in Nat
  OBVIOUS
<1>5. x3 < (n1 * n2) * n3
  BY <1>1, <1>4, QuotientBelow
<1>6. CASE n3 = base
  <2>1. x2 < n1 * n2
    BY <1>2, <1>4, <1>5, <1>6, QuotientBelow
  <2>2. CASE n2 = base
    <3>1. x1 < n1
      BY <1>3, <2>1, <2>2, QuotientBelow
    <3>2. x1 \div base = 0
      BY <3>1, x1 \in 0..base - 1, SmallDivision
    <3> QED BY <1>1, <1>2, <1>3, <1>6, <2>2, <3>1, <3>2
  <2>3. CASE n1 = 1 /\ n2 # base
    <3>1. x2 < n2
      BY <2>1, <2>3
    <3>2. x1 = 0
      BY <1>3, <3>1, x2 \in 0..base - 1, SmallDivision
    <3>3. x1 \div base = 0
      BY <3>2, 0 \in 0..base - 1, SmallDivision
    <3> QED BY <1>1, <1>2, <1>3, <1>6, <2>3, <3>1, <3>2, <3>3
  <2> QED BY <2>2, <2>3
<1>7. CASE n3 # base
  <2>1. n2 = 1
    BY <1>7
  <2>2. n1 = 1
    BY <1>7, <2>1
  <2>3. x3 < n3
    BY <1>5, <2>1, <2>2
  <2>4. x2 = 0
    BY <1>2, <2>3, x3 \in 0..base - 1, SmallDivision
  <2>5. x1 = 0
    BY <1>3, <2>4, 0 \in 0..base - 1, SmallDivision
  <2>6. x1 \div base = 0
    BY <2>5, 0 \in 0..base - 1, SmallDivision
  <2> QED BY <1>1, <1>2, <1>3, <2>1, <2>2, <2>3, <2>4, <2>5, <2>6
<1> QED BY <1>6, <1>7

\* What the iterator adds to the fields are the quotients of its count.
LEMMA Quotients ==
  ASSUME NEW m \in Nat
  PROVE  /\ m \div 2^(W * 1) = m \div B
         /\ m \div 2^(W * 2) = (m \div B) \div B
         /\ m \div 2^(W * 3) = ((m \div B) \div B) \div B
<1>1. W \in Nat /\ W * 1 = W /\ W * 2 = W + W /\ W * 3 = (W + W) + W /\ W + W \in Nat
  BY WidthAssumption
<1>2. 2^(W + W) = B * B /\ 2^((W + W) + W) = (B * B) * B
  <2>1. 2^(W + W) = 2^W * 2^W
    BY <1>1, PowersOfTwo
  <2>2. 2^((W + W) + W) = 2^(W + W) * 2^W
    BY <1>1, PowersOfTwo
  <2> QED BY <2>1, <2>2 DEF B
<1>3. PICK base \in Nat \ {0} : base = B
  BY BaseType
<1>4. m \div (base * base) = (m \div base) \div base
  BY DivisionTwice
<1>5. base * base \in Nat \ {0}
  OBVIOUS
<1>6. m \div ((base * base) * base) = (m \div (base * base)) \div base
  BY <1>5, DivisionTwice
<1>7. 2^(W * 1) = B
  BY <1>1 DEF B
<1> QED BY <1>1, <1>2, <1>3, <1>4, <1>6, <1>7

\* A field of an address of the iterator, with the field's part of the count.
FieldGiven(h, m, i, x) ==
  LET n == HostPart(h.cidr, i)
      field == GetNext(h, m)[i]
  IN  /\ field \in Field
      /\ field % n = x % n
      /\ Masked(field, h.cidr, i) = Masked(h.ip[i], h.cidr, i)
      /\ x = n * (x \div B) + (x % n)

LEMMA NextField ==
  ASSUME NEW h \in WideInterface, NEW m \in Nat, NEW i \in 1..3, NEW x \in Nat,
         x = m \div 2^(W * (4 - i)),
         HostPart(h.cidr, i) = B \/ x < HostPart(h.cidr, i)
  PROVE  FieldGiven(h, m, i, x)
<1>1. PICK n \in Nat \ {0}, k \in Nat \ {0} : n = HostPart(h.cidr, i) /\ B = n * k
  <2>1. h.cidr \in 1..3 * W /\ i \in 1..4
    BY DEF WideInterface
  <2> QED BY <2>1, HostParts
<1>2. PICK base \in Nat \ {0} : base = B
  BY BaseType
<1>3. PICK ip \in 0..base - 1 : ip = h.ip[i]
  <2>1. h.ip \in Address /\ i \in 1..4
    BY DEF WideInterface
  <2> QED BY <1>2, <2>1 DEF Address, Field
<1>4. GetNext(h, m)[i] = (x + Masked(ip, h.cidr, i)) % B
  BY <1>3 DEF GetNext
<1>5. \A y : Masked(y, h.cidr, i) = y - (y % n)
  BY <1>1 DEF Masked, HostPart
<1> DEFINE field == (x + (ip - (ip % n))) % base
<1>6. /\ field \in 0..base - 1
      /\ field % n = x % n
      /\ field - (field % n) = ip - (ip % n)
      /\ x = n * (x \div base) + (x % n)
  <2>1. base = n * k /\ (n = base \/ x < n)
    BY <1>1, <1>2
  <2>2. FieldAdds(base, n, x, ip)
    BY <2>1, OneField
  <2> QED BY <2>2, Zenon DEF FieldAdds
<1>7. GetNext(h, m)[i] = field
  BY <1>2, <1>4, <1>5
<1> HIDE DEF field
<1> QED BY <1>1, <1>2, <1>3, <1>5, <1>6, <1>7 DEF Field, FieldGiven

LEMMA LastField ==
  ASSUME NEW h \in WideInterface, NEW m \in Nat
  PROVE  LET field == GetNext(h, m)[4]
         IN  /\ field \in Field
             /\ field % B = m % B
             /\ Masked(field, h.cidr, 4) = Masked(h.ip[4], h.cidr, 4)
             /\ m = B * (m \div B) + (m % B)
<1>1. PICK base \in Nat \ {0} : base = B
  BY BaseType
<1>2. HostPart(h.cidr, 4) = B
  <2>1. h.cidr \in 1..3 * W
    BY DEF WideInterface
  <2> QED BY <2>1, HostParts
<1>3. h.ip[4] \in 0..base - 1
  <2>1. h.ip \in Address
    BY DEF WideInterface
  <2> QED BY <1>1, <2>1 DEF Address, Field
<1>4. GetNext(h, m)[4] = m % B
  BY DEF GetNext
<1>5. PICK r \in 0..base - 1 : r = m % base /\ m = base * (m \div base) + r
  BY DivisionWithRest
<1>6. r % base = r
  BY SmallDivision
<1>7. h.ip[4] % base = h.ip[4]
  BY <1>3, SmallDivision
<1>8. \A y : Masked(y, h.cidr, 4) = y - (y % B)
  BY <1>2 DEF Masked, HostPart
<1>9. r - r = 0 /\ h.ip[4] - h.ip[4] = 0
  BY <1>3
<1>10. Masked(r, h.cidr, 4) = 0 /\ Masked(h.ip[4], h.cidr, 4) = 0
  BY <1>1, <1>6, <1>7, <1>8, <1>9
<1>11. GetNext(h, m)[4] = r
  BY <1>1, <1>4, <1>5
<1>12. r % B = m % B /\ m = B * (m \div B) + (m % B)
  BY <1>1, <1>5, <1>6, Zenon
<1>13. r \in Field
  BY <1>1 DEF Field
<1> QED BY <1>10, <1>11, <1>12, <1>13, Zenon

\* The number of an address the iterator gives is the count it is given for.
LEMMA NextAddress ==
  ASSUME NEW h \in WideInterface, NEW m \in Nat, m < MCount(h.cidr)
  PROVE  /\ GetNext(h, m) \in Address
         /\ SameNetwork(h, GetNext(h, m))
         /\ Number(h, GetNext(h, m)) = m
<1> DEFINE a == GetNext(h, m)
<1>1. h.cidr \in 1..3 * W
  BY DEF WideInterface
<1>2. PICK base \in Nat \ {0} : base = B
  BY BaseType
<1>3. PICK n1 \in 1..base, n2 \in 1..base, n3 \in 1..base :
        /\ n1 = HostPart(h.cidr, 1) /\ n2 = HostPart(h.cidr, 2) /\ n3 = HostPart(h.cidr, 3)
  <2>1. \A n \in Nat \ {0}, k \in Nat \ {0} : n * k >= n
    OBVIOUS
  <2>2. ASSUME NEW i \in 1..4 PROVE HostPart(h.cidr, i) \in 1..base
    <3>1. PICK n \in Nat \ {0}, k \in Nat \ {0} : n = HostPart(h.cidr, i) /\ B = n * k
      BY <1>1, HostParts
    <3> QED BY <1>2, <2>1, <3>1
  <2> QED BY <2>2, 1 \in 1..4, 2 \in 1..4, 3 \in 1..4
<1>4. /\ n1 = 1 \/ n2 = base
      /\ n2 = 1 \/ n3 = base
      /\ m < ((n1 * n2) * n3) * base
  BY <1>1, <1>2, <1>3, HostParts
<1>5. PICK x3 \in Nat, x2 \in Nat, x1 \in Nat :
        /\ x3 = m \div base /\ x2 = x3 \div base /\ x1 = x2 \div base
        /\ n3 = base \/ x3 < n3
        /\ n2 = base \/ x2 < n2
        /\ x1 < n1 /\ x1 \div base = 0
  <2> DEFINE y3 == m \div base
             y2 == y3 \div base
             y1 == y2 \div base
  <2>0. QuotientsAre(base, n1, n2, n3, m)
    BY <1>4, QuotientsFit
  <2>1. /\ y1 \in Nat /\ y2 \in Nat /\ y3 \in Nat
        /\ n3 = base \/ y3 < n3
        /\ n2 = base \/ y2 < n2
        /\ y1 < n1 /\ y1 \div base = 0
    BY <2>0, Zenon DEF QuotientsAre
  <2> HIDE DEF y1, y2, y3
  <2>2. y3 = m \div base /\ y2 = y3 \div base /\ y1 = y2 \div base
    BY DEF y1, y2, y3
  <2> QED BY <2>1, <2>2, Zenon
<1>6. x3 = m \div 2^(W * (4 - 3)) /\ x2 = m \div 2^(W * (4 - 2)) /\ x1 = m \div 2^(W * (4 - 1))
  <2>1. 4 - 3 = 1 /\ 4 - 2 = 2 /\ 4 - 1 = 3
    OBVIOUS
  <2> QED BY <1>2, <1>5, <2>1, Quotients
<1>7. /\ a[1] \in Field /\ a[1] % n1 = x1 % n1 /\ x1 = n1 * (x1 \div base) + (x1 % n1)
      /\ Masked(a[1], h.cidr, 1) = Masked(h.ip[1], h.cidr, 1)
  <2>1. HostPart(h.cidr, 1) = B \/ x1 < HostPart(h.cidr, 1)
    BY <1>2, <1>3, <1>5
  <2>2. 1 \in 1..3
    OBVIOUS
  <2> DEFINE n == HostPart(h.cidr, 1)
  <2>3. /\ a[1] \in Field /\ a[1] % n = x1 % n /\ x1 = n * (x1 \div B) + (x1 % n)
        /\ Masked(a[1], h.cidr, 1) = Masked(h.ip[1], h.cidr, 1)
    <3>1. FieldGiven(h, m, 1, x1)
      BY <1>6, <2>1, <2>2, NextField
    <3> QED BY <3>1, Zenon DEF FieldGiven
  <2>4. n = n1 /\ B = base
    BY <1>2, <1>3
  <2> HIDE DEF n, a
  <2> QED BY <1>5, <2>3, <2>4, Zenon
<1>8. /\ a[2] \in Field /\ a[2] % n2 = x2 % n2 /\ x2 = n2 * x1 + (x2 % n2)
      /\ Masked(a[2], h.cidr, 2) = Masked(h.ip[2], h.cidr, 2)
  <2>1. HostPart(h.cidr, 2) = B \/ x2 < HostPart(h.cidr, 2)
    BY <1>2, <1>3, <1>5
  <2>2. 2 \in 1..3
    OBVIOUS
  <2> DEFINE n == HostPart(h.cidr, 2)
  <2>3. /\ a[2] \in Field /\ a[2] % n = x2 % n /\ x2 = n * (x2 \div B) + (x2 % n)
        /\ Masked(a[2], h.cidr, 2) = Masked(h.ip[2], h.cidr, 2)
    <3>1. FieldGiven(h, m, 2, x2)
      BY <1>6, <2>1, <2>2, NextField
    <3> QED BY <3>1, Zenon DEF FieldGiven
  <2>4. n = n2 /\ B = base
    BY <1>2, <1>3
  <2> HIDE DEF n, a
  <2> QED BY <1>5, <2>3, <2>4, Zenon
<1>9. /\ a[3] \in Field /\ a[3] % n3 = x3 % n3 /\ x3 = n3 * x2 + (x3 % n3)
      /\ Masked(a[3], h.cidr, 3) = Masked(h.ip[3], h.cidr, 3)
  <2>1. HostPart(h.cidr, 3) = B \/ x3 < HostPart(h.cidr, 3)
    BY <1>2, <1>3, <1>5
  <2>2. 3 \in 1..3
    OBVIOUS
  <2> DEFINE n == HostPart(h.cidr, 3)
  <2>3. /\ a[3] \in Field /\ a[3] % n = x3 % n /\ x3 = n * (x3 \div B) + (x3 % n)
        /\ Masked(a[3], h.cidr, 3) = Masked(h.ip[3], h.cidr, 3)
    <3>1. FieldGiven(h, m, 3, x3)
      BY <1>6, <2>1, <2>2, NextField
    <3> QED BY <3>1, Zenon DEF FieldGiven
  <2>4. n = n3 /\ B = base
    BY <1>2, <1>3
  <2> HIDE DEF n, a
  <2> QED BY <1>5, <2>3, <2>4, Zenon
<1>10. /\ a[4] \in Field /\ a[4] % B = m % B /\ m = base * x3 + (m % B)
       /\ Masked(a[4], h.cidr, 4) = Masked(h.ip[4], h.cidr, 4)
  <2>1. /\ a[4] \in Field /\ a[4] % B = m % B /\ m = B * (m \div B) + (m % B)
        /\ Masked(a[4], h.cidr, 4) = Masked(h.ip[4], h.cidr, 4)
    BY LastField, Zenon
  <2> HIDE DEF a
  <2> QED BY <1>2, <1>5, <2>1, Zenon
<1>11. \A i \in 1..4 : i = 1 \/ i = 2 \/ i = 3 \/ i = 4
  OBVIOUS
<1>12. a \in Address
  <2>1. a = [i \in 1..4 |-> a[i]]
    BY DEF GetNext
  <2> HIDE DEF a
  <2> QED BY <1>7, <1>8, <1>9, <1>10, <1>11, <2>1 DEF Address
<1>13. SameNetwork(h, a)
  <2> HIDE DEF a
  <2> QED BY <1>7, <1>8, <1>9, <1>10, <1>11 DEF SameNetwork
<1>14. Number(h, a) = m
  <2> HIDE DEF a
  <2>1. PICK p1 \in Nat, p2 \in Nat, p3 \in Nat, p4 \in Nat :
          /\ p1 = x1 % n1 /\ p2 = x2 % n2 /\ p3 = x3 % n3 /\ p4 = m % base
    <3>1. x1 % n1 \in Nat /\ x2 % n2 \in Nat /\ x3 % n3 \in Nat /\ m % base \in Nat
      BY DivisionWithRest
    <3> QED BY <3>1, Zenon
  <2>4. p1 = a[1] % n1 /\ p2 = a[2] % n2 /\ p3 = a[3] % n3 /\ p4 = a[4] % B
    BY <1>2, <1>7, <1>8, <1>9, <1>10, <2>1, Zenon
  <2>5. x1 = n1 * 0 + p1 /\ x2 = n2 * x1 + p2 /\ x3 = n3 * x2 + p3 /\ m = base * x3 + p4
    BY <1>2, <1>5, <1>7, <1>8, <1>9, <1>10, <2>1, Zenon
  <2>2. HostPart(h.cidr, 4) = B
    BY <1>1, HostParts
  <2>3. Number(h, a) = base * (n3 * (n2 * p1 + p2) + p3) + p4
    BY <1>2, <1>3, <2>2, <2>4 DEF Number
  <2> QED BY <2>3, <2>5
<1> QED BY <1>12, <1>13, <1>14

LEMMA CountType ==
  ASSUME NEW c \in 1..3 * W
  PROVE  MCount(c) \in Nat \ {0} /\ MCount(c) >= B /\ B >= 2
<1>1. c \in Nat /\ W \in Nat \ {0} /\ c <= 3 * W
  BY WidthAssumption
<1>2. PICK d \in Nat, e \in Nat : d = 3 * W - c /\ e = W - 1
  <2>1. 3 * W - c \in Nat /\ W - 1 \in Nat
    BY <1>1
  <2> QED BY <2>1, Zenon
<1>3. 4 * W - c = d + W /\ W = 1 + e
  BY <1>1, <1>2
<1>4. 2^d \in Nat \ {0} /\ 2^(d + W) = 2^d * 2^W
  BY <1>1, PowersOfTwo
<1>5. 2^e \in Nat \ {0} /\ 2^(1 + e) = 2^1 * 2^e
  BY PowersOfTwo
<1>6. PICK p \in Nat \ {0}, base \in Nat \ {0} : p = 2^d /\ base = B
  BY <1>4, BaseType
<1>7. MCount(c) = p * base
  BY <1>3, <1>4, <1>6 DEF MCount, B
<1>8. p * base >= base /\ p * base \in Nat \ {0}
  OBVIOUS
<1>9. base >= 2
  <2>1. base = 2^1 * 2^e
    BY <1>3, <1>5, <1>6 DEF B
  <2>2. 2^1 = 2
    OBVIOUS
  <2>3. \A x \in Nat \ {0} : 2 * x >= 2
    OBVIOUS
  <2> QED BY <1>5, <2>1, <2>2, <2>3
<1> QED BY <1>6, <1>7, <1>8, <1>9

LEMMA HostBitsAre ==
  ASSUME NEW h \in WideInterface, NEW a \in Address, NEW i \in 1..4
  PROVE  /\ HostPart(h.cidr, i) \in Nat \ {0}
         /\ a[i] % HostPart(h.cidr, i) \in Nat
         /\ HostBits(h, a)[i] = a[i] % HostPart(h.cidr, i)
         /\ AllOnes(h)[i] = HostPart(h.cidr, i) - 1
<1>1. PICK n \in Nat \ {0} : n = HostPart(h.cidr, i)
  <2>1. h.cidr \in 1..3 * W
    BY DEF WideInterface
  <2> QED BY <2>1, HostParts
<1>2. PICK x \in Nat : x = a[i]
  BY BaseType DEF Address, Field
<1>3. x % n \in Nat
  BY DivisionWithRest
<1>4. x - (x - (x % n)) = x % n
  BY <1>3
<1>5. HostBits(h, a)[i] = x - (x - (x % n))
  BY <1>1, <1>2 DEF HostBits, Masked, HostPart
<1>6. AllOnes(h)[i] = n - 1
  BY <1>1 DEF AllOnes, HostPart
<1> QED BY <1>1, <1>2, <1>3, <1>4, <1>5, <1>6

\* The two reserved addresses of a network are the first and the last it counts.
LEMMA Reserved ==
  ASSUME NEW h \in WideInterface, NEW a \in Address
  PROVE  /\ HostBits(h, a) = [i \in 1..4 |-> 0] => Number(h, a) = 0
         /\ HostBits(h, a) = AllOnes(h) => Number(h, a) = MCount(h.cidr) - 1
<1>1. h.cidr \in 1..3 * W
  BY DEF WideInterface
<1>2. PICK n1 \in Nat \ {0}, n2 \in Nat \ {0}, n3 \in Nat \ {0}, base \in Nat \ {0} :
        /\ n1 = HostPart(h.cidr, 1) /\ n2 = HostPart(h.cidr, 2) /\ n3 = HostPart(h.cidr, 3)
        /\ base = B
  BY BaseType, HostBitsAre, 1 \in 1..4, 2 \in 1..4, 3 \in 1..4
<1>3. PICK p1 \in Nat, p2 \in Nat, p3 \in Nat, p4 \in Nat :
        /\ p1 = a[1] % HostPart(h.cidr, 1) /\ p2 = a[2] % HostPart(h.cidr, 2)
        /\ p3 = a[3] % HostPart(h.cidr, 3) /\ p4 = a[4] % HostPart(h.cidr, 4)
  BY HostBitsAre, 1 \in 1..4, 2 \in 1..4, 3 \in 1..4, 4 \in 1..4
<1>4. HostPart(h.cidr, 4) = base /\ MCount(h.cidr) = ((n1 * n2) * n3) * base
  BY <1>1, <1>2, HostParts
<1>5. Number(h, a) = base * (n3 * (n2 * p1 + p2) + p3) + p4
  BY <1>2, <1>3 DEF Number
<1>6. /\ HostBits(h, a)[1] = p1 /\ HostBits(h, a)[2] = p2
      /\ HostBits(h, a)[3] = p3 /\ HostBits(h, a)[4] = p4
  BY <1>3, HostBitsAre, 1 \in 1..4, 2 \in 1..4, 3 \in 1..4, 4 \in 1..4
<1>7. /\ AllOnes(h)[1] = n1 - 1 /\ AllOnes(h)[2] = n2 - 1
      /\ AllOnes(h)[3] = n3 - 1 /\ AllOnes(h)[4] = base - 1
  BY <1>2, <1>4, HostBitsAre, 1 \in 1..4, 2 \in 1..4, 3 \in 1..4, 4 \in 1..4
<1>8. ASSUME HostBits(h, a) = [i \in 1..4 |-> 0] PROVE Number(h, a) = 0
  <2>1. p1 = 0 /\ p2 = 0 /\ p3 = 0 /\ p4 = 0
    BY <1>6, <1>8
  <2> QED BY <1>5, <2>1
<1>9. ASSUME HostBits(h, a) = AllOnes(h) PROVE Number(h, a) = MCount(h.cidr) - 1
  <2>1. p1 = n1 - 1 /\ p2 = n2 - 1 /\ p3 = n3 - 1 /\ p4 = base - 1
    BY <1>6, <1>7, <1>9, Zenon
  <2>2. n2 * (n1 - 1) + (n2 - 1) = n1 * n2 - 1
    OBVIOUS
  <2>3. PICK q \in Nat : q = n1 * n2
    OBVIOUS
  <2>4. n3 * (q - 1) + (n3 - 1) = q * n3 - 1
    BY <2>3
  <2>5. PICK r \in Nat : r = q * n3
    OBVIOUS
  <2>6. base * (r - 1) + (base - 1) = r * base - 1
    OBVIOUS
  <2> QED BY <1>4, <1>5, <2>1, <2>2, <2>3, <2>4, <2>5, <2>6
<1> QED BY <1>8, <1>9

\* What IPIter gives between the first and the last address can be given to an anchor.
LEMMA NextUsable ==
  ASSUME NEW h \in WideInterface, NEW m \in 1..MCount(h.cidr) - 2
  PROVE  GetNext(h, m) \in Address /\ Usable(h, GetNext(h, m))
<1> DEFINE a == GetNext(h, m)
<1>1. h.cidr \in 1..3 * W
  BY DEF WideInterface
<1>2. MCount(h.cidr) \in Nat
  BY <1>1, CountType
<1>3. m \in Nat /\ m < MCount(h.cidr) /\ m # 0 /\ m # MCount(h.cidr) - 1
  BY <1>2
<1>4. a \in Address /\ SameNetwork(h, a) /\ Number(h, a) = m
  BY <1>3, NextAddress
<1> HIDE DEF a
<1>5. HostBits(h, a) # [i \in 1..4 |-> 0] /\ HostBits(h, a) # AllOnes(h)
  BY <1>3, <1>4, Reserved
<1> QED BY <1>4, <1>5 DEF Usable, a

\* IPIter gives no address twice.
LEMMA NextDistinct ==
  ASSUME NEW h \in WideInterface, NEW m \in Nat, NEW k \in Nat,
         m < MCount(h.cidr), k < MCount(h.cidr), GetNext(h, m) = GetNext(h, k)
  PROVE  m = k
BY NextAddress

LEMMA NextCount ==
  ASSUME NEW h \in WideInterface, NEW k \in Nat, k < MCount(h.cidr)
  PROVE  Cardinality({GetNext(h, m) : m \in 1..k}) = k
<1> DEFINE tried == {GetNext(h, m) : m \in 1..k}
           given == [m \in 1..k |-> GetNext(h, m)]
<1>1. h.cidr \in 1..3 * W
  BY DEF WideInterface
<1>2. MCount(h.cidr) \in Nat
  BY <1>1, CountType
<1>3. given \in Bijection(1..k, tried)
  <2>1. given \in [1..k -> tried]
    OBVIOUS
  <2>2. ASSUME NEW m \in 1..k, NEW n \in 1..k, given[m] = given[n] PROVE m = n
    <3>1. m \in Nat /\ n \in Nat /\ m < MCount(h.cidr) /\ n < MCount(h.cidr)
      BY <1>2
    <3> QED BY <2>2, <3>1, NextDistinct
  <2>3. ASSUME NEW a \in tried PROVE \E m \in 1..k : given[m] = a
    OBVIOUS
  <2> HIDE DEF given, tried
  <2> QED BY <2>1, <2>2, <2>3 DEF Bijection, Injection, Surjection, IsInjective
<1>4. IsFiniteSet(1..k) /\ Cardinality(1..k) = k
  <2>1. IsFiniteSet(1..k) /\ Cardinality(1..k) = IF 1 > k THEN 0 ELSE k - 1 + 1
    BY FS_Interval
  <2>2. (IF 1 > k THEN 0 ELSE k - 1 + 1) = k
    OBVIOUS
  <2> QED BY <2>1, <2>2
<1> HIDE DEF given, tried
<1>5. Cardinality(1..k) = Cardinality(tried)
  BY <1>3, <1>4, FS_Bijection DEF ExistsBijection
<1> QED BY <1>4, <1>5 DEF tried

\* What is collected was given by the iterator, and each count once.
Collected ==
  /\ \A k \in DOMAIN ps : \E m \in 1..mCurrent - 1 : ps[k] = GetNext(host[1], m)
  /\ OffersDistinct

ScanInv ==
  /\ phase \in {"pick", "scan", "done"} /\ ifs \in Seq(WideInterface)
  /\ wanted \in Wanted /\ mCurrent \in Nat \ {0}
  /\ ps \in Seq(Address) /\ Len(ps) <= wanted
  /\ IF host = <<>> THEN phase # "scan" /\ mCurrent = 1 /\ ps = <<>> /\ event = <<>>
     ELSE /\ \E h \in WideInterface : host = <<h>>
          /\ phase # "pick" /\ mCurrent <= MCount(host[1].cidr) - 1
  /\ Collected
  /\ event # <<>> => /\ event = <<ps>> /\ phase = "done"
                     /\ Len(ps) = wanted \/ mCurrent = MCount(host[1].cidr) - 1

LEMMA ScanStarts ==
  ASSUME Interfaces \subseteq Seq(WideInterface), ScanInit
  PROVE  ScanInv
<1>1. <<>> \in Seq(Address) /\ Len(<<>>) = 0 /\ DOMAIN <<>> = {}
  OBVIOUS
<1>2. wanted \in Nat /\ wanted >= 0
  BY WantedAssumption DEF ScanInit
<1> QED BY <1>1, <1>2 DEF ScanInit, ScanInv, Collected, OffersDistinct

LEMMA PingKeeps ==
  ASSUME ScanInv, Ping
  PROVE  ScanInv'
<1>1. PICK h \in WideInterface : host = <<h>> /\ host[1] = h
  <2>1. host # <<>>
    BY DEF ScanInv, Ping
  <2>2. PICK h \in WideInterface : host = <<h>>
    BY <2>1 DEF ScanInv
  <2> QED BY <2>2
<1> DEFINE a == GetNext(h, mCurrent)
<1>2. /\ phase = "scan" /\ Len(ps) # wanted /\ mCurrent < MCount(h.cidr) - 1
      /\ ps' = ps \/ ps' = Append(ps, a)
      /\ mCurrent' = mCurrent + 1
      /\ UNCHANGED <<phase, ifs, wanted, host, event>>
  BY <1>1 DEF Ping, Enough, More
<1>3. MCount(h.cidr) \in Nat
  <2>1. h.cidr \in 1..3 * W
    BY DEF WideInterface
  <2> QED BY <2>1, CountType
<1>4. mCurrent \in Nat \ {0} /\ wanted \in Nat /\ ps \in Seq(Address) /\ Len(ps) <= wanted
  BY WantedAssumption DEF ScanInv
<1>5. mCurrent \in 1..MCount(h.cidr) - 2
  BY <1>2, <1>3, <1>4
<1>6. a \in Address
  BY <1>5, NextUsable
<1>7. ASSUME NEW m \in 1..mCurrent - 1 PROVE GetNext(h, m) # a /\ m \in 1..mCurrent' - 1
  <2>1. m \in Nat /\ m < MCount(h.cidr) /\ mCurrent < MCount(h.cidr) /\ m # mCurrent
    BY <1>3, <1>4, <1>5
  <2> QED BY <1>2, <1>4, <2>1, NextDistinct
<1>8. mCurrent \in 1..mCurrent' - 1 /\ mCurrent' \in Nat \ {0}
      /\ mCurrent' <= MCount(h.cidr) - 1
  BY <1>2, <1>3, <1>4
<1>9. \A k \in DOMAIN ps : \E m \in 1..mCurrent - 1 : ps[k] = GetNext(h, m)
  BY <1>1 DEF ScanInv, Collected
<1> HIDE DEF a
<1>10. ps' \in Seq(Address) /\ Len(ps') <= wanted'
  BY <1>2, <1>4, <1>6
<1>11. CASE ps' = ps
  <2>1. \A k \in DOMAIN ps' :
          \E m \in 1..mCurrent' - 1 : ps'[k] = GetNext(h, m)
    BY <1>7, <1>9, <1>11
  <2>2. OffersDistinct'
    BY <1>11 DEF ScanInv, Collected, OffersDistinct
  <2>3. Collected'
    BY <1>1, <1>2, <2>1, <2>2 DEF Collected
  <2> QED BY <1>1, <1>2, <1>8, <1>10, <2>3 DEF ScanInv
<1>12. CASE ps' = Append(ps, a)
  <2>1. /\ DOMAIN ps' = DOMAIN ps \cup {Len(ps) + 1} /\ ps'[Len(ps) + 1] = a
        /\ \A k \in DOMAIN ps : ps'[k] = ps[k]
    BY <1>4, <1>6, <1>12
  <2>2. \A k \in DOMAIN ps' :
          \E m \in 1..mCurrent' - 1 : ps'[k] = GetNext(h, m)
    <3>1. \A k \in DOMAIN ps :
            \E m \in 1..mCurrent' - 1 : ps'[k] = GetNext(h, m)
      BY <1>7, <1>9, <2>1
    <3>2. \E m \in 1..mCurrent' - 1 : a = GetNext(h, m)
      BY <1>8 DEF a
    <3> QED BY <1>12, <2>1, <3>1, <3>2
  <2>3. OffersDistinct'
    <3>1. \A k \in DOMAIN ps : ps[k] # a
      BY <1>7, <1>9
    <3>2. OffersDistinct
      BY DEF ScanInv, Collected
    <3> QED BY <2>1, <3>1, <3>2 DEF OffersDistinct
  <2>4. Collected'
    BY <1>1, <1>2, <2>2, <2>3 DEF Collected
  <2> QED BY <1>1, <1>2, <1>8, <1>10, <2>4 DEF ScanInv
<1> QED BY <1>2, <1>11, <1>12

LEMMA ScanStep ==
  ASSUME ScanInv, [ScanNext]_scanVars
  PROVE  ScanInv'
<1>1. CASE PickInterface
  <2>1. /\ phase = "pick" /\ ifs # <<>> /\ host' = <<Head(ifs)>> /\ phase' = "scan"
        /\ UNCHANGED <<ifs, wanted, mCurrent, ps, event>>
    BY <1>1 DEF PickInterface
  <2>2. PICK h \in WideInterface : host' = <<h>> /\ host'[1] = h
    <3>1. Head(ifs) \in WideInterface
      BY <2>1 DEF ScanInv
    <3> QED BY <2>1, <3>1
  <2>3. ps = <<>> /\ event = <<>> /\ mCurrent = 1
    BY <2>1 DEF ScanInv
  <2>5. mCurrent' <= MCount(h.cidr) - 1
    <3>1. h.cidr \in 1..3 * W
      BY DEF WideInterface
    <3>2. MCount(h.cidr) \in Nat /\ B \in Nat /\ MCount(h.cidr) >= B /\ B >= 2
      BY <3>1, CountType, BaseType
    <3> QED BY <2>1, <2>3, <3>2
  <2>4. Collected'
    BY <2>1, <2>3 DEF Collected, OffersDistinct
  <2> QED BY <2>1, <2>2, <2>3, <2>4, <2>5 DEF ScanInv
<1>2. CASE SkipInterface
  <2>1. ifs' \in Seq(WideInterface)
    BY <1>2 DEF SkipInterface, ScanInv
  <2> QED BY <1>2, <2>1 DEF SkipInterface, ScanInv, Collected, OffersDistinct
<1>3. CASE NoInterface
  BY <1>3 DEF NoInterface, ScanInv, Collected, OffersDistinct
<1>4. CASE Ping
  BY <1>4, PingKeeps
<1>5. CASE Finish
  <2>1. PICK h \in WideInterface : host = <<h>> /\ host[1] = h
    <3>1. host # <<>>
      BY <1>5 DEF ScanInv, Finish
    <3> QED BY <3>1 DEF ScanInv
  <2>2. MCount(h.cidr) \in Nat
    <3>1. h.cidr \in 1..3 * W
      BY DEF WideInterface
    <3> QED BY <3>1, CountType
  <2>3. Len(ps) = wanted \/ mCurrent = MCount(h.cidr) - 1
    BY <1>5, <2>1, <2>2 DEF Finish, ScanInv, Enough, More
  <2>4. /\ event' = <<ps>> /\ phase' = "done"
        /\ UNCHANGED <<ifs, wanted, host, mCurrent, ps>>
    BY <1>5 DEF Finish
  <2>5. Collected'
    BY <2>4 DEF ScanInv, Collected, OffersDistinct
  <2> QED BY <2>1, <2>3, <2>4, <2>5 DEF ScanInv
<1>6. CASE UNCHANGED scanVars
  BY <1>6 DEF scanVars, ScanInv, Collected, OffersDistinct
<1> QED BY <1>1, <1>2, <1>3, <1>4, <1>5, <1>6 DEF ScanNext

LEMMA ScanGivesRight ==
  ASSUME ScanInv
  PROVE  ScanTypeOK /\ OffersRight
<1>1. ps \in Seq(Address) /\ mCurrent \in Nat \ {0} /\ wanted \in Wanted
  BY DEF ScanInv
<1>2. CASE host = <<>>
  <2>1. ps = <<>> /\ event = <<>> /\ phase # "scan"
    BY <1>2 DEF ScanInv
  <2> QED BY <1>1, <1>2, <2>1 DEF ScanInv, ScanTypeOK, OffersRight, OffersUsable,
                                  OffersDistinct, OffersAll
<1>3. CASE host # <<>>
  <2>1. PICK h \in WideInterface : host = <<h>> /\ host[1] = h
    BY <1>3 DEF ScanInv
  <2>2. MCount(h.cidr) \in Nat /\ mCurrent <= MCount(h.cidr) - 1
    <3>1. h.cidr \in 1..3 * W
      BY DEF WideInterface
    <3> QED BY <1>3, <2>1, <3>1, CountType DEF ScanInv
  <2>3. OffersUsable
    <3> SUFFICES ASSUME NEW k \in DOMAIN ps PROVE Usable(h, ps[k])
      BY <2>1 DEF OffersUsable
    <3>1. PICK m \in 1..mCurrent - 1 : ps[k] = GetNext(h, m)
      BY <2>1 DEF ScanInv, Collected
    <3>2. m \in 1..MCount(h.cidr) - 2
      BY <1>1, <2>2
    <3> QED BY <3>1, <3>2, NextUsable
  <2>4. OffersAll
    <3> SUFFICES ASSUME event # <<>>, Len(event[1]) # wanted
                 PROVE  Cardinality({GetNext(h, m) : m \in 1..mCurrent - 1})
                          = MCount(h.cidr) - 2
      BY <2>1 DEF OffersAll
    <3>1. mCurrent = MCount(h.cidr) - 1
      BY <2>1 DEF ScanInv
    <3>2. mCurrent - 1 \in Nat /\ mCurrent - 1 < MCount(h.cidr)
          /\ mCurrent - 1 = MCount(h.cidr) - 2
      BY <1>1, <2>2, <3>1
    <3> QED BY <3>2, NextCount
  <2>5. ScanTypeOK
    <3>1. Len(event) <= 1
      <4>1. event = <<>> \/ event = <<ps>>
        BY DEF ScanInv
      <4>2. CASE event = <<>>
        BY <4>2
      <4>3. CASE event = <<ps>>
        BY <4>3
      <4> QED BY <4>1, <4>2, <4>3
    <3>2. \A k \in DOMAIN ps : ps[k] \in Address
      BY <1>1
    <3> QED BY <1>1, <2>1, <3>1, <3>2 DEF ScanInv, ScanTypeOK
  <2> QED BY <2>3, <2>4, <2>5 DEF ScanInv, Collected, OffersRight
<1> QED BY <1>2, <1>3

\* ip_scan and IPIter: whatever the host's interfaces, the number of addresses wanted, and
\* those that answer a ping, the addresses offered belong to the network of the interface
\* and are not reserved, no two are the same, and less than were wanted are offered only
\* after all of the network; if every netmask leaves the last field to the
\* hosts.
THEOREM OffersAlwaysRight ==
  (Interfaces \subseteq Seq(WideInterface)) => (ScanSpec => []OffersRight)
<1> SUFFICES ASSUME Interfaces \subseteq Seq(WideInterface)
             PROVE  ScanSpec => []OffersRight
  OBVIOUS
<1>1. ScanInit => ScanInv
  BY ScanStarts
<1>2. ScanInv /\ [ScanNext]_scanVars => ScanInv'
  BY ScanStep
<1>3. ScanInv => OffersRight
  BY ScanGivesRight
<1> QED BY <1>1, <1>2, <1>3, PTL DEF ScanSpec

-----------------------------------------------------------------------------
(***************************************************************************)
(* All inputs together: a step of the composition is one of a part, or     *)
(* leaves it alone, and the parts keep their types.                        *)
(***************************************************************************)

\* The parser with the parameters of the two anchors takes the steps of the parser.
LEMMA TrickyParses == Tricky!Parse => Parse
<1>1. /\ Tricky!SkipByte => SkipByte
      /\ Tricky!Incomplete => Incomplete
      /\ Tricky!Found => Found
  BY DEF Tricky!SkipByte, Tricky!Incomplete, Tricky!Found, SkipByte, Incomplete, Found,
         Tricky!LongEnough, Tricky!FRAME_HEADER_LEN, Tricky!AtStart, Tricky!Whole,
         Tricky!EndsRight, Tricky!HeaderLength, Tricky!STX, Tricky!ETX, Tricky!anchorVars,
         LongEnough, FRAME_HEADER_LEN, AtStart, Whole, EndsRight, HeaderLength, STX, ETX, anchorVars
<1>2. /\ Tricky!Handle => Handle
      /\ Tricky!TooShort => TooShort
      /\ Tricky!Unknown => Unknown
  BY DEF Tricky!Handle, Tricky!TooShort, Tricky!Unknown, Handle, TooShort, Unknown,
         Tricky!Fcode, Tricky!Fits, Tricky!Data, Tricky!AfterFrame, Tricky!FRAME_HEADER_LEN,
         Tricky!Again, Tricky!anchorVars, Fcode, Fits, Data, AfterFrame, FRAME_HEADER_LEN, Again,
         anchorVars
<1> QED BY <1>1, <1>2 DEF Tricky!Parse, Parse

LEMMA MixedParses == Mixed!Parse => Parse
<1>1. /\ Mixed!SkipByte => SkipByte
      /\ Mixed!Incomplete => Incomplete
      /\ Mixed!Found => Found
  BY DEF Mixed!SkipByte, Mixed!Incomplete, Mixed!Found, SkipByte, Incomplete, Found,
         Mixed!LongEnough, Mixed!FRAME_HEADER_LEN, Mixed!AtStart, Mixed!Whole,
         Mixed!EndsRight, Mixed!HeaderLength, Mixed!STX, Mixed!ETX, Mixed!anchorVars,
         LongEnough, FRAME_HEADER_LEN, AtStart, Whole, EndsRight, HeaderLength, STX, ETX, anchorVars
<1>2. /\ Mixed!Handle => Handle
      /\ Mixed!TooShort => TooShort
      /\ Mixed!Unknown => Unknown
  BY DEF Mixed!Handle, Mixed!TooShort, Mixed!Unknown, Handle, TooShort, Unknown,
         Mixed!Fcode, Mixed!Fits, Mixed!Data, Mixed!AfterFrame, Mixed!FRAME_HEADER_LEN,
         Mixed!Again, Mixed!anchorVars, Fcode, Fits, Data, AfterFrame, FRAME_HEADER_LEN, Again,
         anchorVars
<1> QED BY <1>1, <1>2 DEF Mixed!Parse, Parse

LEMMA ParseStep ==
  ASSUME Inv, Parse
  PROVE  Inv'
<1>1. FrameNext
  BY Zenon DEF FrameNext
<1> QED BY <1>1, InvNext

\* An anchor that sends tricky messages.
LEMMA TrickyStep ==
  ASSUME Inv, MCTricky \subseteq Message, Tricky!FrameNext
  PROVE  Inv'
<1>1. ASSUME NEW m \in MCTricky, Tricky!SendMessage(m) PROVE Inv'
  <2> DEFINE f == Tricky!Frame(m)
  <2>1. m \in Message
    OBVIOUS
  <2>2. f \in Bytes
    <3>1. <<3, 2>> \in Bytes
      BY DEF Bytes, Byte
    <3>2. f = <<STX, Len(m) % 256, Len(m) \div 256>> \o m \o <<3, 2>> \o <<ETX>>
      BY DEF Tricky!Frame, Tricky!STX, Tricky!ETX, STX, ETX
    <3> QED BY <2>1, <3>1, <3>2, FrameWith
  <2>3. /\ items < MaxItems /\ items' = items + 1 /\ stream' = stream \o f
        /\ ends' = Append(ends, [msg |-> m, at |-> Len(stream) + Len(f)])
        /\ UNCHANGED <<got, rx, flen, pc, handled>>
    BY <1>1 DEF Tricky!SendMessage
  <2> QED BY <2>1, <2>2, <2>3, SentInFrame
<1>2. ASSUME NEW j \in Junk, Tricky!SendJunk(j) PROVE Inv'
  BY <1>2, SendJunkStep DEF Tricky!SendJunk, SendJunk
<1>3. CASE Tricky!Receive
  <2>1. PICK k \in 1..12 : /\ got + k <= Len(stream) /\ got' = got + k
                           /\ rx' = rx \o SubSeq(stream, got + 1, got + k)
    BY <1>3 DEF Tricky!Receive
  <2>2. UNCHANGED <<stream, ends, items, flen, handled>> /\ pc' \in {"search", "receive"}
    BY <1>3 DEF Tricky!Receive, Tricky!anchorVars
  <2>3. k \in Nat
    OBVIOUS
  <2> QED BY <2>1, <2>2, <2>3, BytesReceived
<1>4. ~Tricky!Close
  BY DEF Tricky!Close
<1>5. CASE Tricky!Parse
  BY <1>5, TrickyParses, ParseStep
<1> QED BY <1>1, <1>2, <1>3, <1>4, <1>5 DEF Tricky!FrameNext

\* One that sends short messages and ones nobody handles, too.
LEMMA MixedStep ==
  ASSUME Inv, MCMixed \subseteq Message, Mixed!FrameNext
  PROVE  Inv'
<1>1. ASSUME NEW m \in MCMixed, Mixed!SendMessage(m) PROVE Inv'
  BY <1>1, SendMessageStep, ZenonT(60)
     DEF Mixed!SendMessage, SendMessage, Mixed!Frame, Frame, Mixed!STX, Mixed!ETX, STX, ETX
<1>2. ASSUME NEW j \in Junk, Mixed!SendJunk(j) PROVE Inv'
  BY <1>2, SendJunkStep DEF Mixed!SendJunk, SendJunk
<1>3. CASE Mixed!Receive
  BY <1>3, ReceiveStep
     DEF Mixed!Receive, Receive, Mixed!LongEnough, Mixed!FRAME_HEADER_LEN, Mixed!anchorVars,
         LongEnough, FRAME_HEADER_LEN, anchorVars
<1>4. CASE Mixed!Close
  <2>1. Close
    BY <1>4 DEF Mixed!Close, Close, Mixed!anchorVars, anchorVars
  <2>2. FrameNext
    BY <2>1, Zenon DEF FrameNext
  <2> QED BY <2>2, InvNext
<1>5. CASE Mixed!Parse
  BY <1>5, MixedParses, ParseStep
<1> QED BY <1>1, <1>2, <1>3, <1>4, <1>5 DEF Mixed!FrameNext

-----------------------------------------------------------------------------
\* The types of a scan, whatever the netmasks.
AnInterface == [ip : Address, cidr : 1..4 * W, loopback : BOOLEAN]

ScanTyped ==
  /\ phase \in {"pick", "scan", "done"} /\ ifs \in Seq(AnInterface)
  /\ wanted \in Wanted /\ mCurrent \in Nat
  /\ ps \in Seq(Address) /\ Len(ps) <= wanted
  /\ host = <<>> \/ \E h \in AnInterface : host = <<h>>
  /\ phase = "scan" => host # <<>>
  /\ event = <<>> \/ (event = <<ps>> /\ phase = "done")

LEMMA ScanTypes == ScanTyped => ScanTypeOK
<1> SUFFICES ASSUME ScanTyped PROVE ScanTypeOK
  OBVIOUS
<1>1. \A k \in DOMAIN ps : ps[k] \in Address
  BY DEF ScanTyped
<1>2. Len(host) <= 1 /\ (phase = "scan" => Len(host) = 1)
  <2>1. CASE host = <<>>
    BY <2>1 DEF ScanTyped
  <2>2. CASE \E h \in AnInterface : host = <<h>>
    BY <2>2
  <2> QED BY <2>1, <2>2 DEF ScanTyped
<1>3. Len(event) <= 1
  <2>1. CASE event = <<>>
    BY <2>1
  <2>2. CASE event = <<ps>>
    BY <2>2
  <2> QED BY <2>1, <2>2 DEF ScanTyped
<1> QED BY <1>1, <1>2, <1>3 DEF ScanTyped, ScanTypeOK

\* What the iterator gives is an address.
LEMMA NextIsAddress ==
  ASSUME NEW h \in AnInterface, NEW m \in Nat
  PROVE  GetNext(h, m) \in Address
<1>1. PICK base \in Nat \ {0} : base = B
  BY BaseType
<1>2. \A x \in Int : x % base \in 0..base - 1
  OBVIOUS
<1>3. \A x \in Int : x % B \in Field
  BY <1>1, <1>2 DEF Field
<1>4. \A x \in Int, n \in Nat \ {0} : x \div n \in Int /\ x - (x % n) \in Int
  OBVIOUS
<1>5. h.ip \in Address /\ h.cidr \in 1..4 * W
  BY DEF AnInterface
<1>6. ASSUME NEW i \in 1..4
      PROVE  m \div 2^(W * (4 - i)) \in Int /\ Masked(h.ip[i], h.cidr, i) \in Int
  <2>1. W * (4 - i) \in Nat
    BY WidthAssumption
  <2>2. 2^(W * (4 - i)) \in Nat \ {0}
    BY <2>1, PowersOfTwo
  <2>3. W - Kept(h.cidr, i) \in Nat
    <3>1. h.cidr - W * (i - 1) \in Int
      BY <1>5, WidthAssumption
    <3> QED BY <3>1, WidthAssumption DEF Kept
  <2>4. 2^(W - Kept(h.cidr, i)) \in Nat \ {0}
    BY <2>3, PowersOfTwo
  <2>5. h.ip[i] \in Int
    BY <1>1, <1>5 DEF Address, Field
  <2> QED BY <1>4, <2>2, <2>4, <2>5, m \in Int DEF Masked
<1>7. ASSUME NEW i \in 1..4
      PROVE  (m \div 2^(W * (4 - i)) + Masked(h.ip[i], h.cidr, i)) % B \in Field
  <2>1. \A x \in Int, y \in Int : x + y \in Int
    OBVIOUS
  <2>2. m \div 2^(W * (4 - i)) + Masked(h.ip[i], h.cidr, i) \in Int
    BY <1>6, <2>1
  <2> QED BY <1>3, <2>2
<1>8. m % B \in Field
  BY <1>3, m \in Int
<1> QED BY <1>7, <1>8 DEF GetNext, Address

LEMMA ScanTypedInit == ScanInit => ScanTyped
<1> SUFFICES ASSUME ScanInit PROVE ScanTyped
  OBVIOUS
<1>1. ifs \in Seq(AnInterface) /\ wanted \in Wanted
  BY InterfaceAssumption DEF ScanInit, AnInterface
<1>2. Len(<<>>) <= wanted
  BY WantedAssumption DEF ScanInit
<1> QED BY <1>1, <1>2 DEF ScanInit, ScanTyped

LEMMA ScanTypedNext ==
  ASSUME ScanTyped, [ScanNext]_scanVars
  PROVE  ScanTyped'
<1>1. CASE PickInterface
  <2>1. Head(ifs) \in AnInterface
    BY <1>1 DEF PickInterface, ScanTyped
  <2>2. (\E h \in AnInterface : host' = <<h>>) /\ host' # <<>>
    BY <1>1, <2>1 DEF PickInterface
  <2> QED BY <1>1, <2>2 DEF PickInterface, ScanTyped
<1>2. CASE SkipInterface
  <2>1. ifs' \in Seq(AnInterface)
    BY <1>2 DEF SkipInterface, ScanTyped
  <2> QED BY <1>2, <2>1 DEF SkipInterface, ScanTyped
<1>3. CASE NoInterface
  BY <1>3 DEF NoInterface, ScanTyped
<1>4. CASE Ping
  <2>1. PICK h \in AnInterface : host = <<h>> /\ host[1] = h
    BY <1>4 DEF Ping, ScanTyped
  <2>2. GetNext(h, mCurrent) \in Address
    BY NextIsAddress DEF ScanTyped
  <2>3. /\ Len(ps) # wanted /\ mCurrent' = mCurrent + 1
        /\ ps' = ps \/ ps' = Append(ps, GetNext(h, mCurrent))
        /\ UNCHANGED <<phase, ifs, wanted, host, event>> /\ phase = "scan"
    BY <1>4, <2>1 DEF Ping, Enough
  <2>4. ps' \in Seq(Address) /\ Len(ps') <= wanted
    <3>1. wanted \in Nat /\ ps \in Seq(Address) /\ Len(ps) <= wanted
      BY WantedAssumption DEF ScanTyped
    <3> QED BY <2>2, <2>3, <3>1
  <2>5. event = <<>>
    BY <2>3 DEF ScanTyped
  <2> QED BY <2>3, <2>4, <2>5 DEF ScanTyped
<1>5. CASE Finish
  BY <1>5 DEF Finish, ScanTyped
<1>6. CASE UNCHANGED scanVars
  BY <1>6 DEF scanVars, ScanTyped
<1> QED BY <1>1, <1>2, <1>3, <1>4, <1>5, <1>6 DEF ScanNext

-----------------------------------------------------------------------------
\* What StubTypes leaves out: the tries, the daemon and the database.
AnAnchor == [id : Service \cup {NullRef}, service : Service, own : BOOLEAN]

DiscTyped ==
  /\ query.tries \in 0..(MaxTries - 1) /\ daemon \in {"up", "hung", "down"}
  /\ ancs \subseteq AnAnchor /\ faults \in Faults

LEMMA DiscTypedInit == DiscInit => DiscTyped
<1>1. NoQuery.tries = 0
  BY DEF NoQuery
<1> QED BY <1>1, RefAssumption DEF DiscInit, StubInit, DiscTyped

\* The callback of the last query stores the anchor it was told of.
LEMMA ReplyStores ==
  ASSUME StubInv, DiscTyped, AddrInfoReply
  PROVE  ancs' \subseteq AnAnchor
<1>1. stack # <<>> /\ Top.pc = "callback" /\ AddAnchor(Top.msg)
  BY DEF AddrInfoReply, Reply, At
<1>2. Top.msg.service \in Service
  BY <1>1, ReplyIs
<1>3. PICK s \in Service : s = Top.msg.service
  BY <1>2
<1>4. Id(s) \in Service \cup {NullRef}
  BY DEF Id
<1>5. ASSUME NEW b \in BOOLEAN
      PROVE  [id |-> Id(s), service |-> s, own |-> b] \in AnAnchor
  BY <1>4, <1>5 DEF AnAnchor
<1>6. (Top.msg.answer # "negative") \in BOOLEAN
  OBVIOUS
<1>7. \/ ancs' = ancs
      \/ ancs' = ancs \cup {[id |-> Id(s), service |-> s, own |-> Top.msg.answer # "negative"]}
  BY <1>1, <1>3 DEF AddAnchor
<1> QED BY <1>5, <1>6, <1>7 DEF DiscTyped

LEMMA DiscTypedNext ==
  ASSUME StubInv, DiscTyped, [DiscNext]_discVars
  PROVE  DiscTyped'
<1>1. PICK q \in QueryT : q = query
  BY StubParts, StubTyped
<1>2. q.tries \in 0..(MaxTries - 1) /\ MaxTries \in Nat \ {0}
  BY <1>1, RefAssumption DEF DiscTyped
<1>3. ASSUME UNCHANGED <<query, daemon, ancs, faults>> PROVE DiscTyped'
  BY <1>3 DEF DiscTyped
<1>4. ASSUME query'.tries \in 0..(MaxTries - 1), UNCHANGED <<daemon, ancs, faults>>
      PROVE  DiscTyped'
  BY <1>4 DEF DiscTyped
<1>5. ASSUME NEW o, NEW arg, Start(o, arg), UNCHANGED <<daemon, ancs, faults>> PROVE DiscTyped'
  <2>1. query'.tries = 0
    BY <1>5 DEF Start
  <2> QED BY <1>2, <1>4, <1>5, <2>1
<1>6. ASSUME query' = NoQuery, UNCHANGED <<daemon, ancs, faults>> PROVE DiscTyped'
  <2>1. query'.tries = 0
    BY <1>6 DEF NoQuery
  <2> QED BY <1>2, <1>4, <1>6, <2>1
<1>7. ASSUME RunBrowse \/ BrowseReply \/ ResolveReply PROVE DiscTyped'
  BY <1>5, <1>7 DEF RunBrowse, BrowseReply, ResolveReply
<1>8. ASSUME RunBrowsed \/ ProcessNested PROVE DiscTyped'
  BY <1>6, <1>8 DEF RunBrowsed, ProcessNested
<1>9. ASSUME \/ HandleEvents \/ HandleFailure \/ RunStop \/ BrowseReplyRemove
             \/ BrowseReplyReturns \/ ResolveReplyReturns \/ NoCallback
      PROVE  DiscTyped'
  BY <1>3, <1>9 DEF HandleEvents, HandleFailure, ReadFails, RunStop, BrowseReplyRemove,
     BrowseReplyReturns, ResolveReplyReturns, ReturnDeallocating, NoCallback
<1>10. ASSUME AddrInfoReply PROVE DiscTyped'
  <2>1. UNCHANGED <<query, daemon, faults>>
    BY <1>10 DEF AddrInfoReply, ReturnDeallocating
  <2>2. ancs' \subseteq AnAnchor
    BY <1>10, ReplyStores
  <2> QED BY <2>1, <2>2 DEF DiscTyped
<1>11. ASSUME ProcessResult, UNCHANGED <<ancs, faults>> PROVE DiscTyped'
  BY <1>3, <1>11 DEF ProcessResult, ReadReply, AfterCallback
<1>12. ASSUME StartOperation, UNCHANGED <<ancs, faults>> PROVE DiscTyped'
  <2>1. UNCHANGED daemon
    BY <1>12 DEF StartOperation, ConnectNoMemory, Connect, ConnectRefused, Delivered, DeliverFails
  <2>2. ASSUME ~ConnectRefused PROVE query'.tries = q.tries
    <3>1. \/ query' = [q EXCEPT !.pc = "returned"]
          \/ \E r \in Ref : query' = [q EXCEPT !.pc = "deliver", !.ref = r]
          \/ query' = [q EXCEPT !.pc = "returned", !.ref = NullRef]
      <4>1. ASSUME Connect PROVE \E r \in Ref : query' = [q EXCEPT !.pc = "deliver", !.ref = r]
        <5>1. PICK r \in Ref : ~ref[r].live /\ r = CHOOSE x \in Ref : ~ref[x].live
          BY <4>1 DEF Connect
        <5> QED BY <1>1, <4>1, <5>1 DEF Connect
      <4> QED BY <1>1, <1>12, <2>2, <4>1
              DEF StartOperation, ConnectNoMemory, Delivered, DeliverFails
    <3> QED BY <3>1 DEF QueryT
  <2>3. ASSUME ConnectRefused PROVE query'.tries \in 0..(MaxTries - 1)
    <3>1. query' = IF q.tries + 1 < MaxTries THEN [q EXCEPT !.tries = q.tries + 1]
                   ELSE [q EXCEPT !.pc = "returned"]
      BY <1>1, <2>3 DEF ConnectRefused
    <3>2. CASE q.tries + 1 < MaxTries
      <4>1. query'.tries = q.tries + 1
        BY <3>1, <3>2 DEF QueryT
      <4>2. \A n \in 0..(MaxTries - 1) : n + 1 < MaxTries => n + 1 \in 0..(MaxTries - 1)
        BY <1>2
      <4> QED BY <1>2, <3>2, <4>1, <4>2
    <3>3. CASE ~(q.tries + 1 < MaxTries)
      <4>1. query'.tries = q.tries
        BY <3>1, <3>3 DEF QueryT
      <4> QED BY <1>2, <4>1
    <3> QED BY <3>2, <3>3
  <2> QED BY <1>2, <1>4, <1>12, <2>1, <2>2, <2>3
<1>13. ASSUME DiscoveryStep PROVE DiscTyped'
  BY <1>7, <1>8, <1>9, <1>10, <1>11, <1>12, <1>13 DEF DiscoveryStep
<1>14. ASSUME DaemonStep \/ (\E r \in Ref, s \in Service : DaemonDenies(r, s)) PROVE DiscTyped'
  BY <1>3, <1>14 DEF DaemonStep, DaemonAccepts, DaemonBrowses, DaemonAnswers, DaemonDenies
<1>15. ASSUME DaemonDies \/ DaemonStarts \/ DaemonHangs PROVE DiscTyped'
  BY <1>15 DEF DaemonDies, DaemonStarts, DaemonHangs, DiscTyped
<1>16. ASSUME \E s \in Service : Appear(s) \/ Vanish(s) PROVE DiscTyped'
  BY <1>3, <1>16 DEF Appear, Vanish, stubVars
<1>17. ASSUME UNCHANGED discVars PROVE DiscTyped'
  BY <1>3, <1>17 DEF discVars, stubVars
<1> QED BY <1>13, <1>14, <1>15, <1>16, <1>17 DEF DiscNext

LEMMA DiscTypes == StubInv /\ DiscTyped => DiscTypeOK
<1> SUFFICES ASSUME StubInv, DiscTyped PROVE DiscTypeOK
  OBVIOUS
<1>1. StubTypes
  BY StubParts
<1>2. \A c \in ToSet(stack) : /\ c.ref \in Ref /\ c.more \in BOOLEAN
                              /\ c.pc \in {"read", "callback", "waiting", "after"}
  BY <1>1, CallFields, StubTyped DEF ToSet
<1>3. /\ query.pc \in {"none", "connect", "deliver", "returned"}
      /\ query.op \in Op /\ query.ref \in Ref \cup {NullRef}
  BY <1>1, StubTyped DEF QueryT
<1>4. ref \in [Ref -> [live : BOOLEAN, op : Op, arg : Service \cup {NullRef}, moreptr : Nat]]
  BY <1>1, StubTyped DEF RefT
<1>5. StubTypeOK
  BY <1>2, <1>3, <1>4 DEF DiscTyped, StubTypeOK
<1> QED BY <1>1, <1>5, StubTyped DEF DiscTypeOK, DiscTyped, AnAnchor

-----------------------------------------------------------------------------
\* The shared connection: the number of calls is limited.
SharedCounted == SharedInv /\ made \in 0..SharedCalls

LEMMA CallsCounted ==
  ASSUME made \in 0..SharedCalls, [SharedNext]_sharedVars
  PROVE  made' \in 0..SharedCalls
<1>1. ASSUME Calling PROVE made' \in 0..SharedCalls
  BY <1>1, SharedAssumption DEF Calling
<1>2. ASSUME ApplicationCall PROVE made' \in 0..SharedCalls
  BY <1>1, <1>2 DEF ApplicationCall, DNSServiceCreateConnection, DNSServiceResolve,
     DNSServiceQueryRecord, DNSServiceGetAddrInfo, DNSServiceBrowse, DNSServiceEnumerateDomains,
     DNSServiceNATPortMappingCreate, DNSServiceRegister, Request, DNSServiceRegisterRecord,
     DNSServiceAddRecord, DNSServiceUpdateRecord, DNSServiceRemoveRecord, DNSServiceGetProperty,
     DNSServiceGetPID, DNSServiceSetDefaultDomainForUser, DNSServiceReconfirmRecord, Ask,
     DeallocateSubordinate, DeallocatePrimary
<1>3. ASSUME StubStep PROVE made' = made
  BY <1>3 DEF StubStep, Answered, GivesUp, AcceptFails, Return, DNSServiceProcessResult,
     CallbackReturns, AfterReply, SharedReadFails
<1>4. ASSUME DaemonWorks \/ DaemonReplies \/ DaemonEnds PROVE made' = made
  BY <1>4 DEF DaemonWorks, Serve, AnswerAsked, DaemonReplies, DaemonEnds
<1>5. ASSUME UNCHANGED sharedVars PROVE made' = made
  BY <1>5 DEF sharedVars
<1> QED BY <1>2, <1>3, <1>4, <1>5 DEF SharedNext

LEMMA SharedTypesHold == SharedCounted => SharedTypeOK
<1> SUFFICES ASSUME SharedCounted PROVE SharedTypeOK
  OBVIOUS
<1>1. SharedTypes /\ Loop
  BY BooksParts DEF SharedCounted, SharedInv
<1>2. next \in Seq(Sub) /\ IsInjective(next)
  <2>1. next \in Seq(Sub) /\ DOMAIN next = 1..Len(next)
    BY <1>1, SharedTyped
  <2> QED BY <1>1, <2>1 DEF SharedTypes, IsInjective
<1>3. pending.of \in Sub \cup {Primary, Nobody} /\ pending.record \in Rec \cup {Nobody}
  BY <1>1, SharedTyped DEF CallRec
<1> QED BY <1>1, <1>2, <1>3, SharedTyped
        DEF SharedCounted, SharedTypeOK, Loop, OpRec, RecRec

-----------------------------------------------------------------------------
\* Each part is in a state it may be in, whatever the behaviour is about.
InputInv == Inv /\ ScanTyped /\ StubInv /\ DiscTyped /\ SharedCounted

LEMMA InputInvInit == MCInit => InputInv
<1> SUFFICES ASSUME MCInit PROVE InputInv
  OBVIOUS
<1>1. FrameInit /\ ScanInit /\ DiscInit /\ SharedInit
  BY DEF MCInit
<1>2. made \in 0..SharedCalls
  BY <1>1, SharedAssumption DEF SharedInit
<1>3. Inv /\ ScanTyped /\ StubInv /\ DiscTyped /\ SharedInv
  BY <1>1, InvInit, ScanTypedInit, StubStarts, DiscTypedInit, SharedInvInit, SharedAssumption
<1> QED BY <1>2, <1>3 DEF InputInv, SharedCounted

\* A step of the composition is one of a part, or leaves it alone.
LEMMA InputInvNext ==
  ASSUME MCMessages \subseteq Message, InputInv, [MCNext]_vars
  PROVE  InputInv'
<1>1. MCTricky \subseteq Message /\ MCMixed \subseteq Message
  BY DEF MCMessages
<1>2. Inv'
  <2>1. CASE UNCHANGED frameVars
    BY <2>1, InvNext DEF InputInv
  <2>2. CASE Tricky!FrameNext \/ Mixed!FrameNext
    BY <1>1, <2>2, TrickyStep, MixedStep DEF InputInv
  <2> QED BY <2>1, <2>2 DEF MCNext, vars, AScan, ADiscovery, AShared
<1>3. ScanTyped'
  <2>1. [ScanNext]_scanVars
    BY DEF MCNext, vars, Wire, ADiscovery, AShared
  <2> QED BY <2>1, ScanTypedNext DEF InputInv
<1>4. StubInv' /\ DiscTyped'
  <2>1. [DiscNext]_discVars
    BY DEF MCNext, vars, Wire, AScan, AShared
  <2> QED BY <2>1, DiscoveryKeeps, DiscTypedNext DEF InputInv
<1>5. SharedCounted'
  <2>1. [SharedNext]_sharedVars
    BY DEF MCNext, vars, Wire, AScan, ADiscovery
  <2>2. SharedInv'
    BY <2>1, SharedInvNext DEF InputInv, SharedCounted
  <2> QED BY <2>1, <2>2, CallsCounted DEF InputInv, SharedCounted
<1> QED BY <1>2, <1>3, <1>4, <1>5 DEF InputInv

\* Whatever comes in, the frames of an anchor, the answers to pings, the answers of the
\* DNS-SD daemon to nested or to shared queries, every variable keeps its type.
THEOREM InputsKeepTheirTypes ==
  ASSUME MCMessages \subseteq Message PROVE MCSpec => []InputTypeOK
<1>1. MCInit => InputInv
  BY InputInvInit
<1>2. InputInv /\ [MCNext]_vars => InputInv'
  BY InputInvNext
<1>3. InputInv => InputTypeOK
  BY ScanTypes, DiscTypes, SharedTypesHold DEF InputInv, Inv, InputTypeOK
<1> QED BY <1>1, <1>2, <1>3, PTL DEF MCSpec
=============================================================================
