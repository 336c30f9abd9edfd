----------------------------- MODULE FrameParser -----------------------------
(***************************************************************************)
(* HandlerConnection::Run: the bytes an anchor sends arrive in pieces of   *)
(* any size and are cut into frames,                                       *)
(*                                                                         *)
(*    STX  LENlsb  LENmsb  DATA (LEN bytes)  CRC  CRC  ETX                 *)
(*                                                                         *)
(* whose DATA goes to the handler of its first byte, the function code.    *)
(* The checksum is computed and ignored, so any two bytes stand for it.    *)
(* Both handlers return the length they are given, so the branch for a     *)
(* handler that returns 0 is never taken.                                  *)
(***************************************************************************)
EXTENDS Naturals, Sequences, FiniteSets

CONSTANTS
  Message,   \* the DATA of the frames an anchor may send, sequences of bytes
  Junk,      \* what else may be on the wire between two frames
  MinLength, \* handlers: the least length of DATA, by function code
  Crc,       \* the two bytes that stand for a checksum
  BufLen,    \* DEFAULT_BUFLEN, the most one recv returns
  MaxItems,  \* bounds the frames and the pieces of junk sent
  MayClose   \* whether the connection may end

Byte == 0..255
Bytes == Seq(Byte)

ASSUME MessageAssumption == /\ Message \subseteq Bytes /\ Junk \subseteq Bytes
                            /\ \A m \in Message : Len(m) <= 65535
ASSUME CrcAssumption == Crc \in Bytes /\ Len(Crc) = 2
ASSUME BoundAssumption == /\ BufLen \in Nat \ {0} /\ MaxItems \in Nat
                          /\ MayClose \in BOOLEAN
ASSUME HandlerAssumption == /\ DOMAIN MinLength \subseteq Byte
                            /\ \A f \in DOMAIN MinLength : MinLength[f] \in Nat \ {0}

VARIABLES
  stream,   \* all bytes the anchor has sent
  ends,     \* the messages it has sent, with the place of each one's last byte
  items,    \* how many frames and pieces of junk it has sent
  got,      \* how many bytes of stream ReceiveData has returned
  rx,       \* rxBytes; length is its length
  flen,     \* the length read from the last STX looked at
  pc,       \* where Run is
  handled   \* the messages given to a handler

anchorVars == <<stream, ends, items>>
frameVars == <<stream, ends, items, got, rx, flen, pc, handled>>

STX == 2
ETX == 3
FRAME_HEADER_LEN == 6

Frame(m) == <<STX, Len(m) % 256, Len(m) \div 256>> \o m \o Crc \o <<ETX>>

FrameInit ==
  /\ stream = <<>> /\ ends = <<>> /\ items = 0 /\ got = 0
  /\ rx = <<>> /\ flen = 0 /\ pc = "receive" /\ handled = <<>>

-----------------------------------------------------------------------------
(* The anchor. *)

SendMessage(m) ==
  /\ items < MaxItems /\ items' = items + 1
  /\ stream' = stream \o Frame(m)
  /\ ends' = Append(ends, [msg |-> m, at |-> Len(stream) + Len(Frame(m))])
  /\ UNCHANGED <<got, rx, flen, pc, handled>>

SendJunk(j) ==
  /\ items < MaxItems /\ items' = items + 1
  /\ stream' = stream \o j
  /\ UNCHANGED <<ends, got, rx, flen, pc, handled>>

-----------------------------------------------------------------------------
(* HandlerConnection::Run. *)

LongEnough(b) == Len(b) > FRAME_HEADER_LEN

\* ReceiveData returns some of the bytes that are there.
Receive ==
  /\ pc = "receive"
  /\ \E k \in 1..BufLen :
       /\ got + k <= Len(stream)
       /\ got' = got + k
       /\ rx' = rx \o SubSeq(stream, got + 1, got + k)
  /\ pc' = IF LongEnough(rx') THEN "search" ELSE "receive"
  /\ UNCHANGED <<anchorVars, flen, handled>>

\* The select or the recv fails, or the peer has closed the connection.
Close == /\ MayClose /\ pc = "receive" /\ pc' = "closed"
         /\ UNCHANGED <<anchorVars, got, rx, flen, handled>>

AtStart == rx[1] = STX
HeaderLength == rx[2] + 256 * rx[3]

Whole == HeaderLength + FRAME_HEADER_LEN <= Len(rx)

\* Mutant: any frame that is long enough will do.
EndsRightMutant == TRUE

EndsRight == rx[HeaderLength + FRAME_HEADER_LEN] = ETX

\* The first byte is no start of a frame: it is dropped.
SkipByte ==
  /\ pc = "search" /\ LongEnough(rx)
  /\ \/ ~AtStart /\ UNCHANGED flen
     \/ AtStart /\ Whole /\ ~EndsRight /\ flen' = HeaderLength
  /\ rx' = Tail(rx)
  /\ UNCHANGED <<anchorVars, got, pc, handled>>

\* What is there may be the beginning of a frame, or too short to tell.
Incomplete ==
  /\ pc = "search"
  /\ \/ ~LongEnough(rx) /\ UNCHANGED flen
     \/ LongEnough(rx) /\ AtStart /\ ~Whole /\ flen' = HeaderLength
  /\ pc' = "receive"
  /\ UNCHANGED <<anchorVars, got, rx, handled>>

Found ==
  /\ pc = "search" /\ LongEnough(rx) /\ AtStart /\ Whole /\ EndsRight
  /\ flen' = HeaderLength /\ pc' = "dispatch"
  /\ UNCHANGED <<anchorVars, got, rx, handled>>

Data == SubSeq(rx, 4, 3 + flen)
Fcode == rx[4]

\* Mutant: the header is left in the buffer.
AfterFrameMutant == SubSeq(rx, flen + 1, Len(rx))

AfterFrame == SubSeq(rx, flen + FRAME_HEADER_LEN + 1, Len(rx))

\* Mutant: the whole buffer is measured.
FitsMutant == Len(rx) >= MinLength[Fcode]

Fits == flen >= MinLength[Fcode]

Again(b) == IF b # <<>> THEN "search" ELSE "receive"

Handle ==
  /\ pc = "dispatch" /\ Fcode \in DOMAIN MinLength /\ Fits
  /\ handled' = Append(handled, Data)
  /\ rx' = AfterFrame
  /\ pc' = Again(rx')
  /\ UNCHANGED <<anchorVars, got, flen>>

\* A known function code with too little data: nothing is taken off the buffer.
TooShort ==
  /\ pc = "dispatch" /\ Fcode \in DOMAIN MinLength /\ ~Fits
  /\ pc' = "receive"
  /\ UNCHANGED <<anchorVars, got, rx, flen, handled>>

\* All that has been received goes with a frame nobody handles.
Unknown ==
  /\ pc = "dispatch" /\ Fcode \notin DOMAIN MinLength
  /\ rx' = <<>>
  /\ pc' = "receive"
  /\ UNCHANGED <<anchorVars, got, flen, handled>>

Parse == SkipByte \/ Incomplete \/ Found \/ Handle \/ TooShort \/ Unknown

FrameNext ==
  \/ \E m \in Message : SendMessage(m)
  \/ \E j \in Junk : SendJunk(j)
  \/ Receive \/ Close \/ Parse

FrameSpec == FrameInit /\ [][FrameNext]_frameVars

\* The thread runs whenever it can.
FrameFairSpec == FrameSpec /\ WF_frameVars(Receive) /\ WF_frameVars(Parse)

-----------------------------------------------------------------------------
(* Properties. *)

FrameTypeOK ==
  /\ stream \in Bytes /\ rx \in Bytes
  /\ ends \in Seq([msg : Message, at : Nat])
  /\ items \in 0..MaxItems /\ got \in 0..Len(stream) /\ flen \in Nat
  /\ pc \in {"receive", "search", "dispatch", "closed"}
  /\ handled \in Seq(Bytes)

Sent == [i \in DOMAIN ends |-> ends[i].msg]

Known(m) == m # <<>> /\ m[1] \in DOMAIN MinLength /\ Len(m) >= MinLength[m[1]]

\* Whenever the thread waits for more bytes, every message that has arrived
\* completely has been handled: none is held back until others follow it, none is
\* swallowed by junk before it.  (Unless one came that a handler does not take.)
PromptlyHandled ==
  (pc = "receive" /\ \A i \in DOMAIN ends : Known(Sent[i])) =>
    Len(handled) = Cardinality({i \in DOMAIN ends : ends[i].at <= got})

\* With unknown function codes and short frames about, messages may get lost, but
\* what is handled was sent, in that order and no more often: the parser finds
\* back to the start of a frame after it has cleared the buffer in the middle of
\* one (as long as no data looks like the start of a frame).
HandledWereSent ==
  \E at \in [DOMAIN handled -> DOMAIN ends] :
     /\ \A i \in DOMAIN handled : handled[i] = ends[at[i]].msg
     /\ \A i, j \in DOMAIN handled : i < j => at[i] < at[j]

\* The handlers cast what they get to a structure without looking at its length:
\* no handler is given less data than it reads, nor data of another function code.
HandledFits ==
  \A i \in DOMAIN handled :
     /\ handled[i] # <<>> /\ handled[i][1] \in DOMAIN MinLength
     /\ Len(handled[i]) >= MinLength[handled[i][1]]

\* Frames are handled as soon as they are there, and nothing else is.
FramesHandled == PromptlyHandled /\ HandledWereSent

\* The loop over the buffer ends for every content it may have: when finitely much has been
\* sent the thread waits for more in the end.
ParseEnds == <>[](pc \in {"receive", "closed"})
=============================================================================
