----------------------------- MODULE RFIDReader -----------------------------
(***************************************************************************)
(* Reading a tag from the serial port: RFIDReader::readTag, and its copy   *)
(* rfidReadTag in the v2 door.  The RFID module sends a frame              *)
(*     Start | Data | CR LF | End                                          *)
(* for a tag, as many copies as it likes.  The receive interrupt puts each *)
(* byte into a buffer, or drops it when the buffer is full, while readTag  *)
(* takes bytes out; readTag is called when the sketch's loop gets round to *)
(* it, which an exchange with the server delays by seconds.                *)
(*                                                                         *)
(* A byte is its number in the stream that the module sends: byte n is the *)
(* byte n % FrameSize of frame n \div FrameSize.  CR and LF are treated    *)
(* alike and are one byte here.                                            *)
(***************************************************************************)
EXTENDS Integers, SequencesExt

CONSTANTS Tags,
          Zeros,       \* the tag whose data is 000000000000: a stray read
          DataSize,    \* data and checksum, 12 characters; tagString holds one more
          BufferSize,  \* of the serial port: 63
          MaxLate,     \* bytes that may arrive during one call: a byte takes
                       \* 1 ms at 9600 baud, a call takes about as long
          MaxFrames    \* bound on the frames sent

FrameSize == DataSize + 3

ASSUME ConstantsAssumption ==
  /\ DataSize \in Nat /\ DataSize >= 2
  /\ BufferSize \in Nat
  /\ MaxLate \in Nat
  /\ MaxFrames \in Nat

VARIABLES
  frames,     \* the tags of the frames the module has begun to send
  sent,       \* how many bytes it has sent
  late,       \* of them, those sent since readTag was called
  rx,         \* the receive buffer
  pc,         \* where readTag is, or "idle"
  reading, tagFetched,
  tagString   \* its first index bytes

module == <<frames, sent, late>>
vars == <<module, rx, pc, reading, tagFetched, tagString>>
local == <<reading, tagFetched, tagString>>

Frame(b)  == b \div FrameSize
Offset(b) == b % FrameSize
Tag(b)    == frames[Frame(b) + 1]

Start(b) == Offset(b) = 0              \* 2
CrLf(b)  == Offset(b) = DataSize + 1   \* 13, 10
End(b)   == Offset(b) = DataSize + 2   \* 3

Data(f) == [k \in 1..DataSize |-> f * FrameSize + k]

Init == /\ frames = <<>> /\ sent = 0 /\ late = 0
        /\ rx = <<>>
        /\ pc = "idle"
        /\ reading = FALSE /\ tagFetched = FALSE /\ tagString = <<>>

-----------------------------------------------------------------------------

\* The next byte arrives; the first of a frame settles which tag it is.
Receive ==
  /\ pc = "idle" \/ late < MaxLate
  /\ late' = IF pc = "idle" THEN 0 ELSE late + 1
  /\ IF sent % FrameSize = 0
     THEN Len(frames) < MaxFrames /\ \E t \in Tags : frames' = Append(frames, t)
     ELSE UNCHANGED frames
  /\ sent' = sent + 1
  /\ rx' = IF Len(rx) < BufferSize THEN Append(rx, sent) ELSE rx
  /\ UNCHANGED <<pc, local>>

\* readTag is called and clears its variables.
readTag_KeepsTag ==
  /\ pc = "idle"
  /\ pc' = "read"
  /\ reading' = FALSE /\ tagFetched' = FALSE /\ late' = 0
  /\ UNCHANGED <<frames, sent, rx, tagString>>

readTag ==
  /\ pc = "idle"
  /\ pc' = "read"
  /\ reading' = FALSE /\ tagFetched' = FALSE /\ tagString' = <<>> /\ late' = 0
  /\ UNCHANGED <<frames, sent, rx>>

\* "Have we reached the full tag length": the end of a frame, once there is data.
FullTag_AnyLength(r, tag) == ~r
FullTag(r, tag) == ~r /\ Len(tag) > 1

ReadByte ==
  /\ pc = "read"
  /\ rx # <<>>
  /\ LET b == Head(rx) IN
       /\ reading' = (Start(b) \/ (reading /\ ~End(b)))
       /\ tagString' = IF reading' /\ ~Start(b) /\ ~CrLf(b)
                       THEN Append(tagString, b) ELSE tagString
  /\ rx' = Tail(rx)
  /\ pc' = IF FullTag(reading', tagString') THEN "filter" ELSE "read"
  /\ UNCHANGED <<module, tagFetched>>

NothingLeft ==
  /\ pc = "read"
  /\ rx = <<>>
  /\ pc' = "filter"
  /\ UNCHANGED <<module, rx, local>>

\* Between Start and End there was data: a tag, unless it is all zeros.  The
\* return for that leaves tagString and the buffer as they are.
AllZeros == /\ Len(tagString) = DataSize
            /\ \A k \in 1..DataSize : Tag(tagString[k]) = Zeros

Filter ==
  /\ pc = "filter"
  /\ LET whole == ~reading /\ tagString # <<>> IN
       /\ tagFetched' = (whole /\ ~AllZeros)
       /\ pc' = IF whole /\ AllZeros THEN "idle" ELSE "flush"
  /\ UNCHANGED <<module, rx, reading, tagString>>

\* "clear the buffer of any remaining codes"
FlushByte ==
  /\ pc = "flush"
  /\ rx # <<>>
  /\ rx' = Tail(rx)
  /\ UNCHANGED <<module, pc, local>>

Return ==
  /\ pc = "flush"
  /\ rx = <<>>
  /\ pc' = "idle"
  /\ UNCHANGED <<module, rx, local>>

Loop == readTag \/ ReadByte \/ NothingLeft \/ Filter \/ FlushByte \/ Return

Next == Receive \/ Loop

Spec == Init /\ [][Next]_vars

\* The sketch calls readTag in every pass of its loop.
FairSpec == Spec /\ WF_vars(Loop)

-----------------------------------------------------------------------------

\* The terminating zero goes to tagString[index]: the data fits with it.
TypeOK ==
  /\ frames \in Seq(Tags)
  /\ sent \in Nat /\ late \in 0..MaxLate
  /\ rx \in Seq(0..sent-1) /\ Len(rx) <= BufferSize
  /\ pc \in {"idle", "read", "filter", "flush"}
  /\ reading \in BOOLEAN /\ tagFetched \in BOOLEAN
  /\ tagString \in Seq(0..sent-1) /\ Len(tagString) <= DataSize

\* RFIDReader.cpp 44-45: the loop reads one code.  What readTag returns as a tag is
\* the data of one frame, all of it and nothing else, although calls come in
\* the middle of frames, bytes arrive while the buffer is read and flushed, and
\* others are dropped from a full buffer.
WholeTag == tagFetched => \E f \in 0..Len(frames)-1 : tagString = Data(f)

Waiting(f) == \A n \in f*FrameSize..(f+1)*FrameSize-1 : Contains(rx, n)

\* A tag that was held to the reader while the loop was elsewhere is not lost
\* with what else is in the buffer: a complete frame gets some tag read.
Heard == \A f \in 0..MaxFrames-1 : Waiting(f) ~> pc = "flush" /\ tagFetched
=============================================================================
