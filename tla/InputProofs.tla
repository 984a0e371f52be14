----------------------------- MODULE InputProofs -----------------------------
(***************************************************************************)
(* What the door makes of the bytes it gets one at a time: a tag of those   *)
(* of its reader, a text of those of its server's replies.                  *)
(*                                                                         *)
(* What readTag returns is one frame, for every length of the data, every   *)
(* number of bytes that arrive during a call and every buffer that holds    *)
(* two frames but one byte, as long as no frame is all zeros.               *)
(*                                                                         *)
(* An exchange gives its socket back and what it collected is the beginning *)
(* of the server's body, for every well-formed reply and however it is cut  *)
(* up, late or broken off.  The invariant says where fetchResponse is in    *)
(* the reply: after n bytes its variables are what the first n bytes make   *)
(* of them, and the bytes after those are in the buffer, in the socket or   *)
(* on the wire, in this order.                                             *)
(***************************************************************************)
EXTENDS RFIDReader, Exchange, SequenceTheorems, WellFoundedInduction, TLAPS

\* However a full buffer begins, it holds a complete frame.
Roomy == BufferSize >= 2 * FrameSize - 1

NoStray == Zeros \notin Tags

\* n is the next byte to take, first the first one there was when readTag was
\* called.  Of the BufferSize bytes from first on none is missing; the
\* buffer can only have dropped later ones.
Contiguous(n, first) ==
  /\ first <= n /\ n <= sent
  /\ \A k \in 1..Len(rx) : n + k <= first + BufferSize => rx[k] = n + k - 1
  /\ n + Len(rx) < first + BufferSize => sent = n + Len(rx)

\* How many characters the first d bytes of a frame give.
Got(d) == IF d <= 1 THEN 0 ELSE IF d <= DataSize + 1 THEN d - 1 ELSE DataSize

\* Frame m is the first to begin at or after first; readTag has its bytes up to n.
Parsed(n, first, m) ==
  /\ first <= m * FrameSize /\ m * FrameSize < first + FrameSize
  /\ n < m * FrameSize + FrameSize
  /\ reading <=> n > m * FrameSize
  /\ Len(tagString) = Got(n - m * FrameSize)
  /\ \A k \in 1..Len(tagString) : tagString[k] = m * FrameSize + k

FramesSent == /\ (Len(frames) - 1) * FrameSize < sent
              /\ sent <= Len(frames) * FrameSize

OneFrame == \E f \in 0..Len(frames)-1 : tagString = Data(f)

Stage ==
  /\ pc = "idle" => \E first \in 0..sent : Contiguous(first, first)
  /\ pc = "read" => /\ ~tagFetched
                    /\ \E n, first \in 0..sent, m \in 0..Len(frames) :
                         Contiguous(n, first) /\ Parsed(n, first, m)
  /\ pc = "filter" => ~tagFetched /\ (reading \/ tagString = <<>> \/ OneFrame)

IInv == TypeOK /\ FramesSent /\ Stage /\ WholeTag

-----------------------------------------------------------------------------

LEMMA FrameSizeFacts == FrameSize \in Nat /\ FrameSize >= 5 /\ FrameSize = DataSize + 3
BY ConstantsAssumption DEF FrameSize

\* Frames do not overlap.
LEMMA FramesApart ==
  ASSUME NEW F \in Nat, NEW a \in Int, NEW b \in Int, a < b
  PROVE  a * F + F <= b * F
<1>1. PICK d \in Nat : b = a + 1 + d
  <2>1. b - a - 1 \in Nat /\ b = a + 1 + (b - a - 1)
    OBVIOUS
  <2>2. QED
    BY <2>1
<1>2. b * F = a * F + F + d * F
  BY <1>1
<1>3. d * F \in Nat
  OBVIOUS
<1>4. QED
  BY <1>2, <1>3

\* Byte o of frame m has offset o.
LEMMA ByteOfFrame ==
  ASSUME NEW m \in Nat, NEW o \in 0..FrameSize-1
  PROVE  Offset(m * FrameSize + o) = o /\ Frame(m * FrameSize + o) = m
<1> DEFINE F == FrameSize
           x == m * F + o
           q == x \div F
           r == x % F
<1>1. F \in Nat /\ F >= 5
  BY FrameSizeFacts
<1> HIDE DEF F
<1>2. x \in Nat
  BY <1>1
<1>3. q \in Int /\ r \in 0..F-1 /\ x = q * F + r
  <2> HIDE DEF x
  <2>1. QED
    BY <1>1, <1>2
<1> HIDE DEF q, r
<1>4. ~(q < m)
  BY <1>1, <1>2, <1>3, FramesApart DEF F
<1>5. ~(m < q)
  BY <1>1, <1>2, <1>3, FramesApart DEF F
<1>6. q = m
  BY <1>3, <1>4, <1>5
<1>7. r = o
  BY <1>1, <1>3, <1>6
<1>8. QED
  BY <1>6, <1>7 DEF q, r, F, Offset, Frame

\* Some frame begins within FrameSize bytes.
LEMMA NextFrame ==
  ASSUME NEW first \in Nat
  PROVE  \E m \in Nat : first <= m * FrameSize /\ m * FrameSize < first + FrameSize
<1> DEFINE F == FrameSize
           x == first + F - 1
           q == x \div F
           r == x % F
<1>1. F \in Nat /\ F >= 5
  BY FrameSizeFacts
<1> HIDE DEF F
<1>2. x \in Nat
  BY <1>1
<1>3. q \in Int /\ r \in 0..F-1 /\ x = q * F + r
  <2> HIDE DEF x
  <2>1. QED
    BY <1>1, <1>2
<1>4. first <= q * F /\ q * F < first + F
  <2> HIDE DEF q, r
  <2>1. QED
    BY <1>1, <1>3
<1>5. q >= 0
  <2> HIDE DEF q, r, x
  <2>1. SUFFICES ASSUME q < 0 PROVE FALSE
    BY <1>3
  <2>2. q * F + F <= 0 * F
    BY <1>1, <1>3, <2>1, FramesApart
  <2>3. QED
    BY <1>1, <1>2, <1>3, <1>4, <2>2
<1>6. QED
  BY <1>3, <1>4, <1>5 DEF F

\* Bytes that were received belong to frames that were begun.
LEMMA FrameBegun ==
  ASSUME FramesSent, Len(frames) \in Nat, NEW m \in Nat, m * FrameSize < sent, sent \in Nat
  PROVE  m \in 0..Len(frames)-1
<1>1. FrameSize \in Nat
  BY FrameSizeFacts
<1>2. ~(Len(frames) <= m)
  <2>1. Len(frames) = m => sent <= m * FrameSize
    BY DEF FramesSent
  <2>2. Len(frames) < m => sent + FrameSize <= m * FrameSize
    <3>1. Len(frames) < m => Len(frames) * FrameSize + FrameSize <= m * FrameSize
      BY <1>1, FramesApart
    <3> DEFINE x == Len(frames) * FrameSize
               y == m * FrameSize
    <3>2. x \in Nat /\ y \in Nat /\ sent <= x
      BY <1>1 DEF FramesSent
    <3> HIDE DEF x, y
    <3>3. QED
      BY <1>1, <3>1, <3>2 DEF x, y
  <2>3. QED
    BY <1>1, <2>1, <2>2
<1>3. QED
  BY <1>2

\* Of the frames begun, or the next one, one is the first that a call can read.
LEMMA FirstFrame ==
  ASSUME TypeOK, FramesSent, NEW first \in 0..sent
  PROVE  \E m \in 0..Len(frames) :
           first <= m * FrameSize /\ m * FrameSize < first + FrameSize
<1>1. FrameSize \in Nat /\ FrameSize >= 5 /\ sent \in Nat /\ Len(frames) \in Nat
  BY FrameSizeFacts DEF TypeOK
<1>2. PICK m \in Nat : first <= m * FrameSize /\ m * FrameSize < first + FrameSize
  <2>1. first \in Nat
    BY <1>1
  <2>2. QED
    BY <2>1, NextFrame
<1>3. m <= Len(frames)
  <2>1. SUFFICES ASSUME Len(frames) < m PROVE FALSE
    BY <1>1
  <2>2. Len(frames) * FrameSize + FrameSize <= m * FrameSize
    BY <1>1, <2>1, FramesApart
  <2> DEFINE x == Len(frames) * FrameSize
             y == m * FrameSize
  <2>3. x \in Nat /\ y \in Nat /\ sent <= x /\ y < first + FrameSize /\ x + FrameSize <= y
    BY <1>1, <1>2, <2>2 DEF FramesSent
  <2> HIDE DEF x, y
  <2>4. QED
    BY <1>1, <2>3
<1>4. QED
  BY <1>1, <1>2, <1>3

-----------------------------------------------------------------------------

\* A byte that arrives is appended behind what is contiguous, or dropped.
LEMMA ReceiveContiguous ==
  ASSUME TypeOK, Receive, NEW n \in 0..sent, NEW first \in 0..sent, Contiguous(n, first)
  PROVE  Contiguous(n, first)'
<1>1. sent \in Nat /\ sent' = sent + 1 /\ BufferSize \in Nat /\ rx \in Seq(0..sent-1)
  BY ConstantsAssumption DEF Receive, TypeOK
<1>2. CASE Len(rx) < BufferSize
  <2>1. rx' = Append(rx, sent)
    BY <1>2 DEF Receive
  <2>2. /\ Len(rx') = Len(rx) + 1
        /\ \A k \in 1..Len(rx) : rx'[k] = rx[k]
        /\ rx'[Len(rx) + 1] = sent
    BY <1>1, <2>1, AppendProperties
  <2>3. QED
    BY <1>1, <2>2 DEF Contiguous
<1>3. CASE ~(Len(rx) < BufferSize)
  BY <1>1, <1>3 DEF Receive, Contiguous
<1>4. QED
  BY <1>2, <1>3

LEMMA ReceiveFrames ==
  ASSUME TypeOK, FramesSent, Receive
  PROVE  /\ FramesSent'
         /\ frames' \in Seq(Tags)
         /\ Len(frames') >= Len(frames)
         /\ \A f \in 1..Len(frames) : frames'[f] = frames[f]
<1> DEFINE F == FrameSize
           c == Len(frames)
<1>1. F \in Nat /\ F >= 5 /\ sent \in Nat /\ c \in Nat /\ frames \in Seq(Tags)
  BY FrameSizeFacts DEF TypeOK
<1>2. sent' = sent + 1
  BY DEF Receive
<1>3. c * F % F = 0
  <2>1. Offset(c * FrameSize + 0) = 0
    BY <1>1, ByteOfFrame
  <2>2. QED
    BY <1>1, <2>1 DEF Offset
<1>4. CASE sent % F = 0
  <2>1. PICK t \in Tags : frames' = Append(frames, t)
    BY <1>4 DEF Receive
  <2>2. /\ frames' \in Seq(Tags) /\ Len(frames') = c + 1
        /\ \A f \in 1..c : frames'[f] = frames[f]
    BY <1>1, <2>1, AppendProperties
  <2>3. sent = c * F
    <3> DEFINE q == sent \div F
    <3>1. q \in Int /\ sent = q * F
      <4> HIDE DEF F
      <4>1. QED
        BY <1>1, <1>4
    <3> HIDE DEF q
    <3> DEFINE x == c * F
               y == q * F
    <3>2. x \in Int /\ y \in Int /\ x - F < y /\ y <= x
      BY <1>1, <3>1 DEF FramesSent
    <3>3. ~(q < c)
      <4>1. q < c => y + F <= x
        BY <1>1, <3>1, FramesApart
      <4> HIDE DEF x, y
      <4>2. QED
        BY <1>1, <3>2, <4>1
    <3>4. ~(c < q)
      <4>1. c < q => x + F <= y
        BY <1>1, <3>1, FramesApart
      <4> HIDE DEF x, y
      <4>2. QED
        BY <1>1, <3>2, <4>1
    <3>5. QED
      BY <1>1, <3>1, <3>3, <3>4
  <2>4. (c + 1) * F = c * F + F
    BY <1>1
  <2>5. FramesSent'
    BY <1>1, <1>2, <2>2, <2>3, <2>4 DEF FramesSent, FrameSize
  <2>6. QED
    BY <1>1, <2>2, <2>5
<1>5. CASE sent % F # 0
  <2>1. frames' = frames
    BY <1>5 DEF Receive
  <2>2. sent # c * F
    BY <1>3, <1>5
  <2>3. sent + 1 <= c * F
    <3> DEFINE x == c * F
    <3>1. x \in Int /\ sent <= x /\ sent # x
      BY <1>1, <2>2 DEF FramesSent
    <3> HIDE DEF x
    <3>2. QED
      BY <1>1, <3>1 DEF x
  <2>4. FramesSent'
    BY <1>1, <1>2, <2>1, <2>3 DEF FramesSent, FrameSize
  <2>5. QED
    BY <1>1, <2>1, <2>4
<1>6. QED
  BY <1>4, <1>5

\* What is said of frames and bytes stays true when more arrive.
LEMMA ReceiveTypeOK ==
  ASSUME TypeOK, FramesSent, Receive
  PROVE  TypeOK'
<1>1. sent \in Nat /\ sent' = sent + 1 /\ frames' \in Seq(Tags)
  BY ReceiveFrames DEF Receive, TypeOK
<1>2. \A u \in Seq(0..sent-1) : u \in Seq(0..sent'-1)
  <2>1. 0..sent-1 \subseteq 0..sent'-1
    BY <1>1
  <2>2. QED
    BY <2>1, SeqMonotonic
<1>3. rx' \in Seq(0..sent'-1) /\ Len(rx') <= BufferSize
  <2>1. rx \in Seq(0..sent'-1) /\ Len(rx) <= BufferSize /\ BufferSize \in Nat
    BY <1>2, ConstantsAssumption DEF TypeOK
  <2>2. CASE Len(rx) < BufferSize
    <3>1. rx' = Append(rx, sent) /\ sent \in 0..sent'-1
      BY <1>1, <2>2 DEF Receive
    <3>2. rx' \in Seq(0..sent'-1) /\ Len(rx') = Len(rx) + 1
      BY <2>1, <3>1, AppendProperties
    <3>3. QED
      BY <2>1, <2>2, <3>2
  <2>3. CASE ~(Len(rx) < BufferSize)
    BY <2>1, <2>3 DEF Receive
  <2>4. QED
    BY <2>2, <2>3
<1>4. late' \in 0..MaxLate
  BY ConstantsAssumption DEF Receive, TypeOK
<1>5. pc' = pc /\ reading' = reading /\ tagFetched' = tagFetched /\ tagString' = tagString
  BY DEF Receive, local
<1>6. QED
  BY <1>1, <1>2, <1>3, <1>4, <1>5 DEF TypeOK

LEMMA ReceiveInv ==
  ASSUME IInv, Receive
  PROVE  IInv'
<1>1. TypeOK /\ FramesSent
  BY DEF IInv
<1>2. TypeOK' /\ FramesSent' /\ Len(frames') >= Len(frames)
  BY <1>1, ReceiveTypeOK, ReceiveFrames
<1>3. /\ sent \in Nat /\ sent' = sent + 1 /\ Len(frames) \in Nat /\ Len(frames') \in Nat
      /\ pc' = pc /\ reading' = reading /\ tagFetched' = tagFetched /\ tagString' = tagString
  BY <1>1, <1>2 DEF TypeOK, Receive, local
<1>4. \A n \in 0..sent : n \in 0..sent'
  BY <1>3
<1>5. \A m \in 0..Len(frames) : m \in 0..Len(frames')
  BY <1>2, <1>3
<1>6. OneFrame => OneFrame'
  BY <1>2, <1>3 DEF OneFrame, Data, FrameSize
<1>7. WholeTag'
  BY <1>3, <1>6 DEF IInv, WholeTag, OneFrame
<1>8. \A n, first \in 0..sent : Contiguous(n, first) => Contiguous(n, first)'
  BY <1>1, ReceiveContiguous
<1>9. \A n, first \in 0..sent, m \in 0..Len(frames) :
        Parsed(n, first, m) => Parsed(n, first, m)'
  BY <1>3 DEF Parsed, Got, FrameSize
<1>10. Stage'
  <2>1. ASSUME pc = "idle" PROVE \E first \in 0..sent' : Contiguous(first, first)'
    BY <1>4, <1>8, <2>1 DEF IInv, Stage
  <2>2. ASSUME pc = "read"
        PROVE  \E n, first \in 0..sent', m \in 0..Len(frames') :
                 Contiguous(n, first)' /\ Parsed(n, first, m)'
    <3>1. PICK n \in 0..sent, first \in 0..sent, m \in 0..Len(frames) :
                 Contiguous(n, first) /\ Parsed(n, first, m)
      BY <2>2 DEF IInv, Stage
    <3>2. QED
      BY <1>4, <1>5, <1>8, <1>9, <3>1
  <2>3. QED
    BY <1>3, <1>6, <2>1, <2>2 DEF IInv, Stage
<1>11. QED
  BY <1>2, <1>7, <1>10 DEF IInv

LEMMA ReadTagInv ==
  ASSUME IInv, readTag
  PROVE  IInv'
<1> USE DEF readTag
<1>1. TypeOK'
  <2>1. late' \in 0..MaxLate /\ 0 <= DataSize
    BY ConstantsAssumption
  <2>2. tagString' \in Seq(0..sent'-1) /\ Len(tagString') = 0
    OBVIOUS
  <2>3. QED
    BY <2>1, <2>2 DEF IInv, TypeOK
<1>2. FramesSent' /\ WholeTag'
  BY DEF IInv, FramesSent, WholeTag, FrameSize
<1>3. PICK first \in 0..sent : Contiguous(first, first)
  BY DEF IInv, Stage
<1>4. Contiguous(first, first)'
  BY <1>3 DEF Contiguous
<1>5. \E m \in 0..Len(frames) : Parsed(first, first, m)'
  <2>1. /\ FrameSize \in Nat /\ FrameSize >= 5 /\ sent \in Nat /\ Len(frames) \in Nat
        /\ first \in Nat
    BY FrameSizeFacts DEF IInv, TypeOK
  <2>2. PICK m \in 0..Len(frames) :
          first <= m * FrameSize /\ m * FrameSize < first + FrameSize
    BY <2>1, FirstFrame DEF IInv
  <2> DEFINE y == m * FrameSize
  <2>3. y \in Nat /\ first <= y /\ y < first + FrameSize
    BY <2>1, <2>2
  <2> HIDE DEF y
  <2>4. Got(first - y) = 0 /\ Len(tagString') = 0 /\ first < y + FrameSize /\ ~(first > y)
    BY <2>1, <2>3 DEF Got
  <2>5. reading' <=> first > y
    BY <2>4, <2>1, <2>3
  <2>6. \A k \in 1..Len(tagString') : tagString'[k] = y + k
    BY <2>4
  <2>7. Parsed(first, first, m)'
    BY <2>1, <2>3, <2>4, <2>5, <2>6 DEF Parsed, y, FrameSize, Got
  <2>8. QED
    BY <2>2, <2>7
<1>6. QED
  BY <1>1, <1>2, <1>3, <1>4, <1>5 DEF IInv, Stage

-----------------------------------------------------------------------------

\* Taking a byte keeps the rest contiguous.
LEMMA TailContiguous ==
  ASSUME TypeOK, rx # <<>>, rx' = Tail(rx), sent' = sent, Roomy,
         NEW n \in 0..sent, NEW first \in 0..sent, Contiguous(n, first),
         n < first + BufferSize
  PROVE  /\ Head(rx) = n /\ n < sent /\ n + 1 \in 0..sent
         /\ Contiguous(n + 1, first)'
<1>1. /\ sent \in Nat /\ BufferSize \in Nat /\ rx \in Seq(0..sent-1)
      /\ Len(rx) \in Nat /\ Len(rx) >= 1
  <2>1. sent \in Nat /\ BufferSize \in Nat /\ rx \in Seq(0..sent-1)
    BY ConstantsAssumption DEF TypeOK
  <2>2. QED
    BY <2>1
<1>2. Head(rx) = rx[1] /\ rx[1] \in 0..sent-1
  BY <1>1
<1>3. rx[1] = n
  BY <1>1 DEF Contiguous
<1>4. Len(rx') = Len(rx) - 1 /\ \A k \in 1..Len(rx') : rx'[k] = rx[k + 1]
  BY <1>1
<1>5. Contiguous(n + 1, first)'
  <2>1. first <= n + 1 /\ n + 1 <= sent
    BY <1>1, <1>2, <1>3 DEF Contiguous
  <2>2. ASSUME NEW k \in 1..Len(rx'), n + 1 + k <= first + BufferSize
        PROVE  rx'[k] = n + 1 + k - 1
    <3>1. k + 1 \in 1..Len(rx) /\ n + (k + 1) <= first + BufferSize
      BY <1>1, <1>4, <2>2
    <3>2. rx[k + 1] = n + (k + 1) - 1
      BY <3>1 DEF Contiguous
    <3>3. QED
      BY <1>4, <2>2, <3>2
  <2>3. n + 1 + Len(rx') < first + BufferSize => sent = n + 1 + Len(rx')
    BY <1>1, <1>4 DEF Contiguous
  <2>4. QED
    BY <2>1, <2>2, <2>3 DEF Contiguous
<1>6. QED
  BY <1>1, <1>2, <1>3, <1>5

\* What a byte does to reading and tagString, by where in its frame it is.
LEMMA ByteOfOther ==
  ASSUME TypeOK, ReadByte, NEW m \in Nat, NEW n \in Nat, Head(rx) = n,
         n < m * FrameSize, m * FrameSize < n + FrameSize, reading = FALSE
  PROVE  reading' = FALSE /\ tagString' = tagString
<1> DEFINE F == FrameSize
<1>1. F \in Nat /\ F >= 5
  BY FrameSizeFacts
<1>2. m >= 1
  BY <1>1
<1> DEFINE o == n - (m - 1) * F
<1>3. (m - 1) * F = m * F - F /\ (m - 1) * F \in Nat
  BY <1>1, <1>2
<1>4. o \in 1..F-1
  <2> DEFINE y == m * F
             z == (m - 1) * F
  <2>1. y \in Nat /\ z = y - F /\ n < y /\ y < n + F
    BY <1>1, <1>3
  <2> HIDE DEF y, z
  <2>2. n - z \in 1..F-1
    BY <1>1, <2>1
  <2>3. QED
    BY <2>2 DEF z
<1>5. n = (m - 1) * F + o
  BY <1>1, <1>3
<1>6. Offset(n) = o
  <2> HIDE DEF o
  <2>1. m - 1 \in Nat /\ o \in 0..FrameSize-1
    BY <1>2, <1>4
  <2>2. QED
    BY <1>5, <2>1, ByteOfFrame
<1>7. ~Start(n)
  BY <1>4, <1>6 DEF Start
<1>8. QED
  BY <1>7 DEF ReadByte

LEMMA ByteOfFirst ==
  ASSUME TypeOK, ReadByte, NEW m \in Nat, NEW o \in 0..FrameSize-1,
         Head(rx) = m * FrameSize + o
  PROVE  /\ reading' = (o = 0 \/ (reading /\ o # DataSize + 2))
         /\ tagString' = IF reading' /\ o # 0 /\ o # DataSize + 1
                         THEN Append(tagString, Head(rx)) ELSE tagString
<1>1. Offset(Head(rx)) = o
  BY ByteOfFrame
<1>2. QED
  BY <1>1 DEF ReadByte, Start, End, CrLf

\* A byte of the frame that is read.
LEMMA ByteParsed ==
  ASSUME TypeOK, ReadByte, NEW m \in Nat, NEW o \in 0..FrameSize-1, NEW first \in Nat,
         NEW n \in Nat, Head(rx) = n, n = m * FrameSize + o, Parsed(n, first, m)
  PROVE  /\ tagString' \in Seq(0..sent-1)
         /\ reading' = (o # DataSize + 2)
         /\ Len(tagString') = Got(o + 1)
         /\ \A k \in 1..Len(tagString') : tagString'[k] = m * FrameSize + k
<1> DEFINE y == m * FrameSize
           L == DataSize
<1>1. L \in Nat /\ L >= 2 /\ FrameSize = L + 3 /\ y \in Nat
  BY FrameSizeFacts, ConstantsAssumption
<1>2. /\ Head(rx) = n /\ n = y + o /\ (reading <=> n > y) /\ Len(tagString) = Got(n - y)
      /\ \A k \in 1..Len(tagString) : tagString[k] = y + k
  BY DEF Parsed
<1>3. tagString \in Seq(0..sent-1) /\ Head(rx) \in 0..sent-1
  <2>1. tagString \in Seq(0..sent-1) /\ rx \in Seq(0..sent-1) /\ rx # <<>>
    BY DEF TypeOK, ReadByte
  <2>2. Head(rx) \in 0..sent-1
    BY <2>1, HeadTailProperties
  <2>3. QED
    BY <2>1, <2>2
<1>4. /\ reading' = (o = 0 \/ (reading /\ o # L + 2))
      /\ tagString' = IF reading' /\ o # 0 /\ o # L + 1
                      THEN Append(tagString, Head(rx)) ELSE tagString
  BY ByteOfFirst
<1> HIDE DEF y
<1>5. (reading <=> o # 0) /\ Len(tagString) = Got(o)
  <2>1. n - y = o /\ (n > y <=> o # 0)
    BY <1>1, <1>2
  <2>2. QED
    BY <1>2, <2>1
<1>6. reading' = (o # L + 2)
  BY <1>1, <1>4, <1>5
<1>7. CASE o \in 1..L
  <2>1. tagString' = Append(tagString, y + o)
    <3>1. o # 0 /\ o # L + 1 /\ o # L + 2 /\ Head(rx) = y + o
      BY <1>1, <1>2, <1>7
    <3>2. reading' = TRUE
      BY <1>6, <3>1, Zenon
    <3>3. QED
      BY <1>4, <3>1, <3>2
  <2>2. Got(o) = o - 1 /\ Got(o + 1) = o
    BY <1>1, <1>7 DEF Got
  <2>3. /\ tagString' \in Seq(0..sent-1) /\ Len(tagString') = Len(tagString) + 1
        /\ \A k \in 1..Len(tagString) : tagString'[k] = tagString[k]
        /\ tagString'[Len(tagString) + 1] = y + o
    BY <1>2, <1>3, <2>1, AppendProperties
  <2>4. \A k \in 1..Len(tagString') : tagString'[k] = y + k
    <3>1. Len(tagString) = o - 1 /\ Len(tagString') = o /\ tagString'[o] = y + o
      <4>1. Len(tagString) = o - 1 /\ o - 1 + 1 = o
        BY <1>5, <1>7, <2>2
      <4>2. QED
        BY <2>3, <4>1
    <3>2. \A k \in 1..o : k \in 1..o-1 \/ k = o
      BY <1>1, <1>7
    <3>3. QED
      BY <1>2, <2>3, <3>1, <3>2
  <2>5. Len(tagString') = Got(o + 1)
    BY <1>5, <1>7, <2>2, <2>3
  <2>6. QED
    BY <1>6, <2>3, <2>4, <2>5 DEF y
<1>8. CASE o \notin 1..L
  <2>1. o = 0 \/ o = L + 1 \/ o = L + 2
    BY <1>1, <1>8
  <2>2. tagString' = tagString
    BY <1>4, <1>6, <2>1
  <2>3. Got(o + 1) = Got(o)
    BY <1>1, <2>1 DEF Got
  <2>4. QED
    BY <1>2, <1>3, <1>5, <1>6, <2>2, <2>3 DEF y
<1>9. QED
  BY <1>7, <1>8

LEMMA ReadByteInv ==
  ASSUME Roomy, IInv, ReadByte
  PROVE  IInv'
<1> DEFINE L == DataSize
<1>1. /\ TypeOK /\ FramesSent /\ pc = "read" /\ ~tagFetched /\ rx # <<>> /\ rx' = Tail(rx)
      /\ frames' = frames /\ sent' = sent /\ late' = late /\ tagFetched' = tagFetched
  BY DEF IInv, Stage, ReadByte, module
<1>2. PICK n \in 0..sent, first \in 0..sent, m \in 0..Len(frames) :
        Contiguous(n, first) /\ Parsed(n, first, m)
  BY <1>1 DEF IInv, Stage
<1>3. /\ FrameSize \in Nat /\ FrameSize >= 5 /\ FrameSize = L + 3 /\ L \in Nat /\ L >= 2
      /\ sent \in Nat /\ Len(frames) \in Nat /\ n \in Nat /\ first \in Nat /\ m \in Nat
      /\ BufferSize \in Nat
  BY <1>1, FrameSizeFacts, ConstantsAssumption DEF TypeOK
<1> DEFINE y == m * FrameSize
<1>4. /\ y \in Nat /\ first <= y /\ y < first + FrameSize /\ n < y + FrameSize
      /\ first <= n /\ n < first + BufferSize
  <2>1. y \in Nat /\ first <= y /\ y < first + FrameSize /\ n < y + FrameSize /\ first <= n
    BY <1>2, <1>3 DEF Parsed, Contiguous
  <2> HIDE DEF y
  <2>2. n < first + BufferSize
    BY <1>3, <2>1 DEF Roomy
  <2>3. QED
    BY <2>1, <2>2
<1>5. Head(rx) = n /\ n < sent /\ n + 1 \in 0..sent /\ Contiguous(n + 1, first)'
  BY <1>1, <1>2, <1>4, TailContiguous
<1>6. rx' \in Seq(0..sent-1) /\ Len(rx') <= BufferSize
  <2>1. rx \in Seq(0..sent-1) /\ Len(rx) <= BufferSize
    BY <1>1 DEF TypeOK
  <2>2. QED
    BY <1>1, <1>3, <2>1
<1>7. FramesSent'
  BY <1>1 DEF FramesSent, FrameSize
<1>8. WholeTag'
  BY <1>1 DEF WholeTag
<1>9. SUFFICES /\ tagString' \in Seq(0..sent-1) /\ Len(tagString') <= L
               /\ reading' \in BOOLEAN
               /\ \/ pc' = "read" /\ Parsed(n + 1, first, m)'
                  \/ pc' = "filter" /\ OneFrame'
  <2>1. SUFFICES TypeOK' /\ Stage'
    BY <1>7, <1>8 DEF IInv
  <2>2. TypeOK'
    <3>1. pc' \in {"read", "filter"}
      BY <1>9
    <3>2. QED
      BY <1>1, <1>6, <1>9, <3>1 DEF TypeOK
  <2>3. Stage'
    BY <1>1, <1>5, <1>9 DEF Stage
  <2>4. QED
    BY <2>2, <2>3
<1>10. CASE n < y
  <2>1. reading = FALSE /\ Len(tagString) = 0
    <3>1. (reading <=> n > y) /\ Len(tagString) = Got(n - y) /\ reading \in BOOLEAN
      BY <1>1, <1>2 DEF Parsed, TypeOK
    <3> HIDE DEF y
    <3>2. ~(n > y) /\ Got(n - y) = 0
      BY <1>3, <1>4, <1>10 DEF Got
    <3>3. QED
      BY <3>1, <3>2
  <2>2. y < n + FrameSize
    <3> HIDE DEF y
    <3>1. QED
      BY <1>3, <1>4
  <2>3. reading' = FALSE /\ tagString' = tagString
    BY <1>1, <1>3, <1>5, <1>10, <2>1, <2>2, ByteOfOther
  <2>4. pc' = "read"
    BY <2>1, <2>3 DEF ReadByte, FullTag
  <2>5. Parsed(n + 1, first, m)'
    <3> HIDE DEF y
    <3>1. Got(n + 1 - y) = 0 /\ ~(n + 1 > y) /\ n + 1 < y + FrameSize
      BY <1>3, <1>4, <1>10 DEF Got
    <3>2. /\ reading' <=> n + 1 > y
          /\ Len(tagString') = Got(n + 1 - y)
          /\ \A k \in 1..Len(tagString') : tagString'[k] = y + k
      BY <2>1, <2>3, <3>1
    <3>3. QED
      BY <1>4, <3>1, <3>2 DEF Parsed, y, FrameSize, Got
  <2>6. QED
    BY <1>1, <1>3, <2>1, <2>3, <2>4, <2>5 DEF TypeOK
<1>11. CASE ~(n < y)
  <2> DEFINE o == n - y
  <2>1. o \in 0..FrameSize-1 /\ n = y + o /\ o \in Nat
    <3> HIDE DEF y
    <3>1. QED
      BY <1>3, <1>4, <1>11
  <2> HIDE DEF o
  <2>2. /\ tagString' \in Seq(0..sent-1) /\ reading' = (o # L + 2)
        /\ Len(tagString') = Got(o + 1)
        /\ \A k \in 1..Len(tagString') : tagString'[k] = y + k
    BY <1>1, <1>2, <1>3, <1>5, <2>1, ByteParsed
  <2>3. Got(o + 1) <= L
    BY <1>3, <2>1 DEF Got
  <2>4. CASE o = L + 2
    <3>1. Len(tagString') = L /\ reading' = FALSE
      <4>1. Got(o + 1) = L
        BY <1>3, <2>4 DEF Got
      <4>2. reading' = FALSE
        BY <2>2, <2>4, Zenon
      <4>3. QED
        BY <2>2, <4>1, <4>2
    <3>2. pc' = "filter"
      BY <1>3, <3>1 DEF ReadByte, FullTag
    <3>3. m \in 0..Len(frames)-1
      <4>1. m * FrameSize < sent
        <5>1. y < sent
          <6> HIDE DEF y
          <6>1. QED
            BY <1>3, <1>4, <1>5, <1>11
        <5>2. QED
          BY <5>1
      <4>2. QED
        BY <1>1, <1>3, <4>1, FrameBegun
    <3>4. tagString' = Data(m)
      <4>1. Data(m) = [k \in 1..L |-> y + k]
        BY DEF Data
      <4>2. DOMAIN tagString' = 1..L /\ tagString' = [k \in DOMAIN tagString' |-> tagString'[k]]
        BY <2>2, <3>1
      <4>3. QED
        BY <2>2, <3>1, <4>1, <4>2
    <3>5. OneFrame'
      BY <1>1, <3>3, <3>4 DEF OneFrame, Data, FrameSize
    <3>6. QED
      BY <2>2, <2>3, <3>1, <3>2, <3>5
  <2>5. CASE o # L + 2
    <3>1. reading' = TRUE
      BY <2>2, <2>5
    <3>2. pc' = "read"
      BY <3>1 DEF ReadByte, FullTag
    <3>3. n + 1 - y = o + 1 /\ n + 1 > y /\ n + 1 < y + FrameSize
      <4> HIDE DEF y
      <4>1. QED
        BY <1>3, <1>4, <2>1, <2>5
    <3>4. Parsed(n + 1, first, m)'
      <4>1. /\ reading' <=> n + 1 > y
            /\ Len(tagString') = Got(n + 1 - y)
        BY <2>2, <3>1, <3>3
      <4>2. QED
        BY <1>4, <2>2, <3>3, <4>1 DEF Parsed, FrameSize, Got
    <3>5. QED
      BY <2>2, <2>3, <3>1, <3>2, <3>4
  <2>6. QED
    BY <2>4, <2>5
<1>12. QED
  BY <1>10, <1>11

LEMMA NothingLeftInv ==
  ASSUME IInv, NothingLeft
  PROVE  IInv'
<1>1. /\ TypeOK /\ pc = "read" /\ ~tagFetched /\ pc' = "filter"
      /\ UNCHANGED <<frames, sent, late, rx, reading, tagFetched, tagString>>
  BY DEF IInv, Stage, NothingLeft, module, local
<1>2. PICK n \in 0..sent, first \in 0..sent, m \in 0..Len(frames) : Parsed(n, first, m)
  BY <1>1 DEF IInv, Stage
<1>3. reading \/ tagString = <<>>
  <2>1. SUFFICES ASSUME ~reading PROVE tagString = <<>>
    OBVIOUS
  <2> DEFINE y == m * FrameSize
  <2>2. y \in Int /\ n \in Int /\ ~(n > y) /\ Len(tagString) = Got(n - y)
    BY <1>1, <1>2, <2>1, FrameSizeFacts DEF Parsed, TypeOK
  <2> HIDE DEF y
  <2>3. Len(tagString) = 0
    BY <2>2 DEF Got
  <2>4. QED
    BY <1>1, <2>3, EmptySeq DEF TypeOK
<1>4. TypeOK' /\ FramesSent' /\ WholeTag'
  BY <1>1 DEF IInv, TypeOK, FramesSent, WholeTag, FrameSize
<1>5. Stage'
  BY <1>1, <1>3 DEF Stage
<1>6. QED
  BY <1>4, <1>5 DEF IInv

LEMMA FilterInv ==
  ASSUME NoStray, IInv, Filter
  PROVE  IInv'
<1>1. /\ TypeOK /\ pc = "filter" /\ (reading \/ tagString = <<>> \/ OneFrame)
      /\ UNCHANGED <<frames, sent, late, rx, reading, tagString>>
  BY DEF IInv, Stage, Filter, module
<1>2. OneFrame => ~AllZeros
  <2>1. SUFFICES ASSUME OneFrame, AllZeros PROVE FALSE
    OBVIOUS
  <2>2. PICK f \in 0..Len(frames)-1 : tagString = Data(f)
    BY <2>1 DEF OneFrame
  <2>3. /\ DataSize \in Nat /\ DataSize >= 2 /\ FrameSize = DataSize + 3
        /\ frames \in Seq(Tags) /\ Len(frames) \in Nat
    BY <1>1, ConstantsAssumption DEF TypeOK, FrameSize
  <2>4. 1 \in 1..DataSize /\ 1 \in 0..FrameSize-1 /\ f \in Nat /\ f + 1 \in 1..Len(frames)
    BY <2>3
  <2>5. tagString[1] = f * FrameSize + 1
    BY <2>2, <2>4 DEF Data
  <2>6. Frame(tagString[1]) = f
    BY <2>4, <2>5, ByteOfFrame
  <2>7. frames[f + 1] = Zeros
    BY <2>1, <2>4, <2>6 DEF AllZeros, Tag
  <2>8. frames[f + 1] \in Tags
    BY <2>3, <2>4
  <2>9. QED
    BY <2>7, <2>8 DEF NoStray
<1>3. (~reading /\ tagString # <<>>) => OneFrame /\ ~AllZeros
  BY <1>1, <1>2
<1>4. pc' = "flush" /\ tagFetched' \in BOOLEAN /\ (tagFetched' => OneFrame)
  BY <1>3 DEF Filter
<1>5. TypeOK'
  BY <1>1, <1>4 DEF TypeOK
<1>6. FramesSent' /\ Stage'
  BY <1>1, <1>4 DEF IInv, FramesSent, Stage, FrameSize
<1>7. WholeTag'
  BY <1>1, <1>4 DEF WholeTag, OneFrame, Data, FrameSize
<1>8. QED
  BY <1>5, <1>6, <1>7 DEF IInv

LEMMA FlushByteInv ==
  ASSUME IInv, FlushByte
  PROVE  IInv'
<1>1. /\ TypeOK /\ pc = "flush" /\ rx # <<>> /\ rx' = Tail(rx)
      /\ UNCHANGED <<frames, sent, late, pc, reading, tagFetched, tagString>>
  BY DEF IInv, FlushByte, module, local
<1>2. rx' \in Seq(0..sent-1) /\ Len(rx') <= BufferSize
  <2>1. rx \in Seq(0..sent-1) /\ Len(rx) <= BufferSize /\ BufferSize \in Nat
    BY <1>1, ConstantsAssumption DEF TypeOK
  <2>2. QED
    BY <1>1, <2>1
<1>3. TypeOK'
  BY <1>1, <1>2 DEF TypeOK
<1>4. FramesSent' /\ Stage' /\ WholeTag'
  BY <1>1 DEF IInv, FramesSent, Stage, WholeTag, Data, FrameSize
<1>5. QED
  BY <1>3, <1>4 DEF IInv

LEMMA ReturnInv ==
  ASSUME IInv, Return
  PROVE  IInv'
<1>1. /\ TypeOK /\ rx = <<>> /\ pc' = "idle"
      /\ UNCHANGED <<frames, sent, late, rx, reading, tagFetched, tagString>>
  BY DEF IInv, Return, module, local
<1>2. TypeOK' /\ FramesSent' /\ WholeTag'
  BY <1>1 DEF IInv, TypeOK, FramesSent, WholeTag, Data, FrameSize
<1>3. sent \in 0..sent /\ Contiguous(sent, sent)
  BY <1>1 DEF TypeOK, Contiguous
<1>4. Stage'
  BY <1>1, <1>3 DEF Stage, Contiguous
<1>5. QED
  BY <1>2, <1>4 DEF IInv

LEMMA StutterInv ==
  ASSUME IInv, UNCHANGED vars
  PROVE  IInv'
<1>1. UNCHANGED <<frames, sent, late, rx, pc, reading, tagFetched, tagString>>
  BY DEF vars, module
<1>2. TypeOK' /\ FramesSent' /\ WholeTag'
  BY <1>1 DEF IInv, TypeOK, FramesSent, WholeTag, Data, FrameSize
<1>3. Stage'
  BY <1>1 DEF IInv, Stage, Contiguous, Parsed, Got, OneFrame, Data, FrameSize
<1>4. QED
  BY <1>2, <1>3 DEF IInv

LEMMA InitInv ==
  ASSUME Init
  PROVE  IInv
<1>1. /\ frames = <<>> /\ sent = 0 /\ late = 0 /\ rx = <<>> /\ pc = "idle"
      /\ reading = FALSE /\ tagFetched = FALSE /\ tagString = <<>>
  BY DEF Init
<1>2. TypeOK
  <2>1. frames \in Seq(Tags) /\ rx \in Seq(0..sent-1) /\ tagString \in Seq(0..sent-1)
    BY <1>1
  <2>2. Len(rx) = 0 /\ Len(tagString) = 0 /\ late \in 0..MaxLate /\ BufferSize >= 0 /\ DataSize >= 0
    BY <1>1, ConstantsAssumption
  <2>3. QED
    BY <1>1, <2>1, <2>2 DEF TypeOK
<1>3. FramesSent
  <2>1. FrameSize \in Nat /\ FrameSize >= 5 /\ Len(frames) = 0
    BY <1>1, FrameSizeFacts
  <2>2. QED
    BY <1>1, <2>1 DEF FramesSent
<1>4. Stage
  <2>1. 0 \in 0..sent /\ Contiguous(0, 0)
    BY <1>1 DEF Contiguous
  <2>2. QED
    BY <1>1, <2>1 DEF Stage
<1>5. QED
  BY <1>1, <1>2, <1>3, <1>4 DEF IInv, WholeTag

-----------------------------------------------------------------------------

\* Wherever readTag is in the stream of bytes, what it has parsed is the
\* beginning of the first frame that began after it was called, and of the
\* bytes that frame needs the buffer has dropped none.
THEOREM Invariant ==
  ASSUME Roomy, NoStray
  PROVE  Spec => []IInv
<1>1. Init => IInv
  BY InitInv
<1>2. IInv /\ [Next]_vars => IInv'
  <2>1. SUFFICES ASSUME IInv, [Next]_vars PROVE IInv'
    OBVIOUS
  <2>2. CASE Receive
    BY <2>1, <2>2, ReceiveInv
  <2>3. CASE readTag
    BY <2>1, <2>3, ReadTagInv
  <2>4. CASE ReadByte
    BY <2>1, <2>4, ReadByteInv
  <2>5. CASE NothingLeft
    BY <2>1, <2>5, NothingLeftInv
  <2>6. CASE Filter
    BY <2>1, <2>6, FilterInv
  <2>7. CASE FlushByte
    BY <2>1, <2>7, FlushByteInv
  <2>8. CASE Return
    BY <2>1, <2>8, ReturnInv
  <2>9. CASE UNCHANGED vars
    BY <2>1, <2>9, StutterInv
  <2>10. QED
    BY <2>1, <2>2, <2>3, <2>4, <2>5, <2>6, <2>7, <2>8, <2>9 DEF Next, Loop
<1>3. QED
  BY <1>1, <1>2, PTL DEF Spec

\* readTag's variables keep their types: the data and its terminating zero fit
\* in tagString, whatever is held to the reader during an exchange.
THEOREM TypeCorrect ==
  ASSUME Roomy, NoStray
  PROVE  Spec => []TypeOK
<1>1. IInv => TypeOK
  BY DEF IInv
<1>2. QED
  BY <1>1, Invariant, PTL

\* What readTag returns as a tag is the data of one frame, all of it.
THEOREM WholeTagTheorem ==
  ASSUME Roomy, NoStray
  PROVE  Spec => []WholeTag
<1>1. IInv => WholeTag
  BY DEF IInv
<1>2. QED
  BY <1>1, Invariant, PTL

---------------------------------------------------------------------------
---------------------------------------------------------------------------
(* The exchange.                                                           *)
(* Where there is no connection, and where there is one.                   *)
Held ==
    /\ place \in {"idle", "lookup", "connect", "decode"} => client = NoClient
    /\ place \in {"send", "await"} => client.socket # "none"

(* As long as the server did not get the request, nothing was read.        *)
Untouched ==
    /\ server = NoServer /\ parser = Fresh /\ httpResponse = <<>>
    /\ client.rx = <<>>
    /\ client.socket # "none" => conn[client.socket].data = <<>>

Before == {"lookup", "connect", "connected", "send"}

Quiet ==
    /\ place \in Before => asked = 0
    /\ asked = 0 /\ place \in Before \cup {"await"} => Untouched
    /\ asked = 0 /\ place = "fetch" /\ client.socket # "none" => Untouched

Answered == asked # 0 => asked = 1 /\ server.reply \in Responses

(* u is what t has after its first n.                                      *)
Follows(u, t, n) ==
    /\ n + Len(u) <= Len(t)
    /\ \A i \in 1..Len(u) : u[i] = t[n + i]

OK200 == <<"2", "0", "0">>

(* The variables of fetchResponse after n bytes of the reply r: the status, *)
(* the header, and what was collected of the body.                          *)
Codes(n) == IF n <= 2 THEN 0 ELSE IF n >= 5 THEN 3 ELSE n - 2

StatusAt(r, n, p) ==
    /\ p.statusLine <=> n >= 2
    /\ Len(p.code) = Codes(n)
    /\ \A i \in 1..Len(p.code) : p.code[i] = r.status[i]

HeaderAt(r, n, p, text) ==
    /\ p.httpBody <=> n >= Len(Heading(r))
    /\ n <= Len(Heading(r)) =>
          /\ p.lastCharacterEOL <=> LineEmpty(Heading(r), n)
          /\ p.receiving /\ text = <<>>

BodyAt(r, n, p, text) ==
    n >= Len(Heading(r)) =>
        IF p.receiving
        THEN /\ p.lastCharacterEOL <=> n = Len(Heading(r))
             /\ text = SubSeq(r.body, 1, n - Len(Heading(r)))
        ELSE \E k \in 0..Len(r.body) : text = SubSeq(r.body, 1, k)

At(r, n, p, text) ==
    /\ StatusAt(r, n, p) /\ HeaderAt(r, n, p, text) /\ BodyAt(r, n, p, text)
    /\ n >= 5 => r.status = OK200

(* What is in the buffer, in the socket and on the wire, in this order.     *)
Unread(buffer, data, wire, t, n) ==
    /\ Follows(buffer, t, n)
    /\ Follows(data, t, n + Len(buffer))
    /\ Follows(wire, t, n + Len(buffer) + Len(data))

Reading ==
    asked = 1 /\ place \in {"await", "fetch"} /\ client.socket # "none" =>
        \E n \in 0..Len(Text(server.reply)) :
            /\ At(server.reply, n, parser, httpResponse)
            /\ Unread(client.rx, conn[client.socket].data, server.wire,
                      Text(server.reply), n)

Beginning(text, body) ==
    \E k \in 0..Len(body) :
        text = SubSeq(body, 1, k) \/ text = Append(SubSeq(body, 1, k), "NUL")

Collected ==
    httpResponse # <<>> =>
        server.reply.status = OK200 /\ Beginning(httpResponse, server.reply.body)

ExchangeInv ==
    ExchangeType /\ NoSocketLeft /\ Held /\ Quiet /\ Answered /\ Reading /\ Collected

---------------------------------------------------------------------------
LEMMA Marks ==
    /\ "H" \in Characters /\ " " \in Characters /\ "NL" \in Characters
    /\ "CR" \in Characters /\ "NUL" \in Characters /\ "none" \notin Sockets
  BY ExchangeAssumption

LEMMA ReplyType ==
    ASSUME NEW r \in Responses
    PROVE  /\ r.status \in Seq(Characters) /\ r.header \in Seq(Characters)
           /\ r.body \in Seq(Characters) /\ WellFormed(r)
           /\ Len(r.status) = 3 /\ Len(r.header) \in Nat /\ Len(r.body) \in Nat
  <1>1. r \in [status : Seq(Characters), header : Seq(Characters), body : Seq(Characters)]
    BY ExchangeAssumption
  <1>2. WellFormed(r)
    BY ExchangeAssumption
  <1>3. r.status \in Seq(Characters) /\ r.header \in Seq(Characters) /\ r.body \in Seq(Characters)
    BY <1>1
  <1>4. Len(r.status) = 3
    BY <1>2 DEF WellFormed
  <1>5. Len(r.header) \in Nat /\ Len(r.body) \in Nat
    BY <1>3, LenProperties
  <1> QED
    BY <1>2, <1>3, <1>4, <1>5

\* What the bytes of a reply are, by their place.
LEMMA Concat ==
    ASSUME NEW s \in Seq(Characters), NEW t \in Seq(Characters)
    PROVE  /\ s \o t \in Seq(Characters) /\ Len(s \o t) = Len(s) + Len(t)
           /\ \A i \in 1..Len(s) : (s \o t)[i] = s[i]
           /\ \A i \in 1..Len(t) : (s \o t)[Len(s) + i] = t[i]
  OBVIOUS

Joins(u, s, t) == u = s \o t

LEMMA ConcatIs ==
    ASSUME NEW s \in Seq(Characters), NEW t \in Seq(Characters), NEW u, Joins(u, s, t),
           NEW m \in Nat, NEW n \in Nat, Len(s) = m, Len(t) = n
    PROVE  /\ u \in Seq(Characters) /\ Len(u) = m + n
           /\ \A i \in 1..m : u[i] = s[i]
           /\ \A i \in 1..n : u[m + i] = t[i]
  BY Concat, Zenon DEF Joins

LEMMA AnswerStart ==
    ASSUME NEW c \in Characters, NEW d \in Characters, NEW e \in Characters
    PROVE  /\ <<c, d>> \in Seq(Characters) /\ Len(<<c, d>>) = 2
           /\ <<c, d>>[1] = c /\ <<c, d>>[2] = d
           /\ <<e>> \in Seq(Characters) /\ Len(<<e>>) = 1 /\ <<e>>[1] = e
  OBVIOUS

LEMMA HeadingBytes ==
    ASSUME NEW r \in Responses
    PROVE  /\ Heading(r) \in Seq(Characters) /\ Len(Heading(r)) = 7 + Len(r.header)
           /\ Heading(r)[1] = "H" /\ Heading(r)[2] = " "
           /\ \A i \in 1..3 : Heading(r)[2 + i] = r.status[i]
  <1> DEFINE n == Len(r.header)
             a == <<"H", " ">>
             e == <<"NL">>
             b == a \o r.status
             c == b \o e
             d == c \o r.header
             h == d \o e
             one == 1
             two == 2
             three == 3
             five == 5
             six == 6
  <1>1. a[1] = "H" /\ a[2] = " "
    BY Marks, AnswerStart
  <1>2. /\ a \in Seq(Characters) /\ Len(a) = two
        /\ e \in Seq(Characters) /\ Len(e) = one
    BY Marks, AnswerStart
  <1>3. r.status \in Seq(Characters) /\ r.header \in Seq(Characters)
        /\ Len(r.status) = three /\ Len(r.header) = n /\ n \in Nat
    BY ReplyType
  <1>4. Joins(b, a, r.status) /\ Joins(c, b, e) /\ Joins(d, c, r.header) /\ Joins(h, d, e)
    BY DEF Joins
  <1>5. Heading(r) = h
    BY DEF Heading
  <1>6. /\ one \in Nat /\ two \in Nat /\ three \in Nat /\ five \in Nat /\ six \in Nat
        /\ six + n \in Nat /\ 7 + n \in Nat
        /\ five = two + three /\ six = five + one /\ 7 + n = (six + n) + one
    BY <1>3
  <1>7. one = 1 /\ two = 2 /\ three = 3 /\ five = 5 /\ six = 6
    OBVIOUS
  <1> HIDE DEF n, a, e, b, c, d, h, one, two, three, five, six
  <1>8. /\ b \in Seq(Characters) /\ Len(b) = two + three
        /\ \A i \in 1..two : b[i] = a[i]
        /\ \A i \in 1..three : b[two + i] = r.status[i]
    BY <1>2, <1>3, <1>4, <1>6, ConcatIs
  <1>9. c \in Seq(Characters) /\ Len(c) = five + one /\ \A i \in 1..five : c[i] = b[i]
    <2>1. Len(b) = five
      BY <1>6, <1>8, Zenon
    <2> QED
      BY <1>2, <1>4, <1>6, <1>8, <2>1, ConcatIs
  <1>10. d \in Seq(Characters) /\ Len(d) = six + n /\ \A i \in 1..six : d[i] = c[i]
    <2>1. Len(c) = six
      BY <1>6, <1>9, Zenon
    <2> QED
      BY <1>3, <1>4, <1>6, <1>9, <2>1, ConcatIs
  <1>11. /\ h \in Seq(Characters) /\ Len(h) = (six + n) + one
         /\ \A i \in 1..(six + n) : h[i] = d[i]
    BY <1>2, <1>4, <1>6, <1>10, ConcatIs
  <1>12. \A i \in 1..five : i \in 1..six /\ i \in 1..(six + n)
    BY <1>3, <1>7
  <1>13. \A i \in 1..five : h[i] = b[i]
    BY <1>9, <1>10, <1>11, <1>12, Zenon
  <1>14. /\ 1 \in 1..two /\ 1 \in 1..five /\ 2 \in 1..two /\ 2 \in 1..five
         /\ \A i \in 1..3 : i \in 1..three /\ two + i = 2 + i /\ two + i \in 1..five
    BY <1>7
  <1>15. h[1] = a[1] /\ h[2] = a[2]
    <2>1. h[1] = b[1] /\ h[2] = b[2]
      BY <1>13, <1>14
    <2>2. b[1] = a[1] /\ b[2] = a[2]
      BY <1>8, <1>14
    <2> QED
      BY <2>1, <2>2
  <1>16. \A i \in 1..3 : h[2 + i] = r.status[i]
    BY <1>8, <1>13, <1>14, Zenon
  <1> QED
    BY <1>1, <1>5, <1>6, <1>11, <1>15, <1>16, Zenon DEF n

LEMMA TextBytes ==
    ASSUME NEW r \in Responses
    PROVE  /\ Text(r) \in Seq(Characters)
           /\ Len(Text(r)) = Len(Heading(r)) + Len(r.body)
           /\ Len(Heading(r)) \in Nat /\ Len(Heading(r)) >= 7 /\ Len(r.body) \in Nat
           /\ \A i \in 1..Len(Heading(r)) : Text(r)[i] = Heading(r)[i]
           /\ \A i \in 1..Len(r.body) : Text(r)[Len(Heading(r)) + i] = r.body[i]
           /\ Text(r)[1] = "H" /\ Text(r)[2] = " "
           /\ \A i \in 1..3 : Text(r)[2 + i] = r.status[i]
  <1> DEFINE h == Heading(r)
             m == Len(h)
             t == Text(r)
             n == Len(r.body)
  <1>1. h \in Seq(Characters) /\ m = 7 + Len(r.header)
    BY HeadingBytes
  <1>2. h[1] = "H" /\ h[2] = " " /\ \A i \in 1..3 : h[2 + i] = r.status[i]
    BY HeadingBytes
  <1>3. r.body \in Seq(Characters) /\ n \in Nat /\ Len(r.header) \in Nat
    BY ReplyType
  <1>4. Joins(t, h, r.body) /\ Len(h) = m /\ Len(r.body) = n
    BY DEF Text, Joins
  <1> HIDE DEF h, m, n, t
  <1>5. /\ t \in Seq(Characters) /\ Len(t) = m + n
        /\ \A i \in 1..m : t[i] = h[i]
        /\ \A i \in 1..n : t[m + i] = r.body[i]
    <2>1. m \in Nat /\ n \in Nat /\ h \in Seq(Characters) /\ r.body \in Seq(Characters)
      BY <1>1, <1>3
    <2>2. Joins(t, h, r.body) /\ Len(h) = m /\ Len(r.body) = n
      BY <1>4
    <2> HIDE <1>1, <1>2, <1>3, <1>4
    <2> QED
      BY <2>1, <2>2, ConcatIs, SMTT(30)
  <1>6. /\ m \in Nat /\ m >= 7
        /\ 1 \in 1..m /\ 2 \in 1..m /\ \A i \in 1..3 : 2 + i \in 1..m
    BY <1>1, <1>3
  <1>7. t[1] = "H" /\ t[2] = " "
    BY <1>2, <1>5, <1>6, Zenon
  <1>8. \A i \in 1..3 : t[2 + i] = r.status[i]
    BY <1>2, <1>5, <1>6, Zenon
  <1> QED
    BY <1>3, <1>5, <1>6, <1>7, <1>8, Zenon DEF h, m, n, t

\* "On an empty line" one byte further.
LEMMA LineEmptyStart == ASSUME NEW t PROVE LineEmpty(t, 0)
  BY DEF LineEmpty

LEMMA LineEmptyStep ==
    ASSUME NEW t, NEW n \in Nat
    PROVE  LineEmpty(t, n + 1) <=> t[n + 1] = "NL" \/ (t[n + 1] = "CR" /\ LineEmpty(t, n))
  <1>1. ASSUME LineEmpty(t, n + 1), t[n + 1] # "NL"
        PROVE  t[n + 1] = "CR" /\ LineEmpty(t, n)
    <2>1. PICK i \in 0..(n + 1) :
              (i = 0 \/ t[i] = "NL") /\ \A j \in (i + 1)..(n + 1) : t[j] = "CR"
      BY <1>1 DEF LineEmpty
    <2>2. i \in 0..n
      BY <1>1, <2>1
    <2>3. n + 1 \in (i + 1)..(n + 1) /\ \A j \in (i + 1)..n : j \in (i + 1)..(n + 1)
      BY <2>2
    <2> QED
      BY <2>1, <2>2, <2>3 DEF LineEmpty
  <1>2. ASSUME t[n + 1] = "NL" PROVE LineEmpty(t, n + 1)
    <2>1. n + 1 \in 0..(n + 1) /\ \A j \in ((n + 1) + 1)..(n + 1) : FALSE
      OBVIOUS
    <2> QED
      BY <1>2, <2>1 DEF LineEmpty
  <1>3. ASSUME t[n + 1] = "CR", LineEmpty(t, n) PROVE LineEmpty(t, n + 1)
    <2>1. PICK i \in 0..n : (i = 0 \/ t[i] = "NL") /\ \A j \in (i + 1)..n : t[j] = "CR"
      BY <1>3 DEF LineEmpty
    <2>2. i \in 0..(n + 1) /\ \A j \in (i + 1)..(n + 1) : t[j] = "CR"
      BY <1>3, <2>1
    <2> QED
      BY <2>1, <2>2 DEF LineEmpty
  <1> QED
    BY <1>1, <1>2, <1>3

---------------------------------------------------------------------------
(* What is unread.                                                         *)
LEMMA FollowsAll == ASSUME NEW t \in Seq(Characters) PROVE Follows(t, t, 0)
  BY DEF Follows

LEMMA FollowsNone ==
    ASSUME NEW u \in Seq(Characters), u = <<>>, NEW t \in Seq(Characters),
           NEW n \in Nat, n <= Len(t)
    PROVE  Len(u) = 0 /\ Follows(u, t, n)
  BY DEF Follows

LEMMA FollowsHead ==
    ASSUME NEW u \in Seq(Characters), u # <<>>, NEW t \in Seq(Characters), NEW n \in Nat,
           Follows(u, t, n)
    PROVE  /\ n + 1 <= Len(t) /\ Head(u) = t[n + 1]
           /\ Tail(u) \in Seq(Characters) /\ Len(Tail(u)) = Len(u) - 1 /\ Len(u) >= 1
           /\ Follows(Tail(u), t, n + 1)
  <1>1. /\ Len(u) \in Nat /\ Len(u) >= 1 /\ Head(u) = u[1]
        /\ Tail(u) \in Seq(Characters) /\ Len(Tail(u)) = Len(u) - 1
        /\ \A i \in 1..Len(Tail(u)) : Tail(u)[i] = u[i + 1]
    OBVIOUS
  <1>2. \A i \in 1..(Len(u) - 1) : i + 1 \in 1..Len(u) /\ n + (i + 1) = (n + 1) + i
    BY <1>1
  <1>3. \A i \in 1..Len(Tail(u)) : Tail(u)[i] = t[(n + 1) + i]
    BY <1>1, <1>2 DEF Follows
  <1> QED
    BY <1>1, <1>3 DEF Follows

LEMMA FollowsAppend ==
    ASSUME NEW d \in Seq(Characters), NEW c \in Characters, NEW t \in Seq(Characters),
           NEW n \in Nat, Follows(d, t, n), n + Len(d) + 1 <= Len(t),
           c = t[n + Len(d) + 1]
    PROVE  Len(Append(d, c)) = Len(d) + 1 /\ Follows(Append(d, c), t, n)
  BY DEF Follows
---------------------------------------------------------------------------
(* One more byte of the reply.                                             *)
ParserType ==
    [lastCharacterEOL : BOOLEAN, httpBody : BOOLEAN, statusLine : BOOLEAN,
     code : Seq(Characters), receiving : BOOLEAN]

LEMMA StepFields ==
    ASSUME NEW p \in ParserType, NEW c \in Characters
    PROVE  /\ Step(p, c).lastCharacterEOL <=>
                  (c = "NL" \/ (c = "CR" /\ p.lastCharacterEOL))
           /\ Step(p, c).httpBody <=> (p.httpBody \/ (c = "NL" /\ p.lastCharacterEOL))
           /\ Step(p, c).statusLine <=> (p.statusLine \/ c = " ")
           /\ Step(p, c).receiving <=> (p.receiving /\ ~(c = "NL" /\ p.httpBody))
  BY DEF Step, ParserType, BodyStarts

LEMMA CodeStep ==
    ASSUME NEW p \in ParserType, NEW c \in Characters, Len(p.code) <= 3
    PROVE  /\ Step(p, c).code \in Seq(Characters)
           /\ Len(Step(p, c).code) <= 3
           /\ IF (p.statusLine \/ c = " ") /\ Len(p.code) < 3 /\ c # " "
              THEN /\ Len(Step(p, c).code) = Len(p.code) + 1
                   /\ Step(p, c).code[Len(p.code) + 1] = c
                   /\ \A i \in 1..Len(p.code) : Step(p, c).code[i] = p.code[i]
              ELSE Step(p, c).code = p.code
  <1>1. Step(p, c).code = StatusCode(p, c)
    BY DEF Step
  <1>2. p.code \in Seq(Characters)
    BY DEF ParserType
  <1> DEFINE s == p.code
             a == Append(s, c)
  <1>3. /\ a \in Seq(Characters) /\ Len(a) = Len(s) + 1 /\ a[Len(s) + 1] = c
        /\ \A i \in 1..Len(s) : a[i] = s[i]
    BY <1>2
  <1>4. Len(s) \in Nat /\ (Len(s) < 3 => Len(s) + 1 <= 3)
    BY <1>2
  <1>5. CASE (p.statusLine \/ c = " ") /\ Len(s) < 3 /\ c # " "
    <2>1. StatusCode(p, c) = a
      BY <1>5 DEF StatusCode
    <2> HIDE DEF s, a
    <2>2. Len(a) <= 3
      BY <1>3, <1>4, <1>5, Zenon
    <2> QED
      BY <1>1, <1>3, <1>5, <2>1, <2>2, Zenon DEF s
  <1>6. CASE ~((p.statusLine \/ c = " ") /\ Len(s) < 3 /\ c # " ")
    <2>1. StatusCode(p, c) = s
      BY <1>6 DEF StatusCode
    <2> QED
      BY <1>1, <1>2, <1>6, <2>1, Zenon
  <1> QED
    BY <1>5, <1>6

LEMMA StepType ==
    ASSUME NEW p \in ParserType, NEW c \in Characters, Len(p.code) <= 3
    PROVE  Step(p, c) \in ParserType
  <1>1. Step(p, c).code \in Seq(Characters)
    BY CodeStep
  <1>2. StatusCode(p, c) \in Seq(Characters)
    BY <1>1 DEF Step
  <1> QED
    BY <1>2 DEF Step, ParserType, BodyStarts

LEMMA StatusStep ==
    ASSUME NEW r \in Responses, NEW n \in Nat, NEW p \in ParserType, NEW c \in Characters,
           n + 1 <= Len(Text(r)), c = Text(r)[n + 1],
           StatusAt(r, n, p), n >= 5 => r.status = OK200, ~OtherStatus(Step(p, c))
    PROVE  StatusAt(r, n + 1, Step(p, c)) /\ (n + 1 >= 5 => r.status = OK200)
  <1> DEFINE q == Step(p, c)
             s == p.code
             d == q.code
  <1>1. /\ p.statusLine \in BOOLEAN /\ s \in Seq(Characters) /\ Len(s) \in Nat
        /\ p.statusLine <=> n >= 2
        /\ Len(s) = Codes(n) /\ Len(s) <= 3
        /\ \A i \in 1..Len(s) : s[i] = r.status[i]
    <2>1. p.statusLine \in BOOLEAN /\ s \in Seq(Characters) /\ Len(s) \in Nat
      BY DEF ParserType
    <2>2. Codes(n) <= 3
      BY DEF Codes
    <2> QED
      BY <2>1, <2>2, Zenon DEF StatusAt
  <1>2. q.statusLine <=> (p.statusLine \/ c = " ")
    BY StepFields, Zenon
  <1>3. IF (p.statusLine \/ c = " ") /\ Len(s) < 3 /\ c # " "
        THEN /\ Len(d) = Len(s) + 1 /\ d[Len(s) + 1] = c
             /\ \A i \in 1..Len(s) : d[i] = s[i]
        ELSE d = s
    BY <1>1, CodeStep
  <1>4. /\ n = 0 => c = "H"
        /\ n = 1 => c = " "
        /\ n \in 2..4 => c = r.status[n - 1] /\ c # " "
    <2>1. /\ Text(r)[1] = "H" /\ Text(r)[2] = " "
          /\ \A i \in 1..3 : Text(r)[2 + i] = r.status[i]
      BY TextBytes
    <2>2. \A i \in 1..3 : r.status[i] # " "
      BY ReplyType DEF WellFormed
    <2>3. /\ n \in 2..4 => n - 1 \in 1..3 /\ 2 + (n - 1) = n + 1
          /\ n = 0 => n + 1 = 1
          /\ n = 1 => n + 1 = 2
      OBVIOUS
    <2>4. n \in 2..4 => Text(r)[n + 1] = r.status[n - 1] /\ r.status[n - 1] # " "
      BY <2>1, <2>2, <2>3
    <2> QED
      BY <2>1, <2>3, <2>4, Zenon
  <1>5. q.statusLine <=> n + 1 >= 2
    <2>1. CASE n = 0
      <3>1. ~(n >= 2) /\ ~(n + 1 >= 2)
        BY <2>1
      <3> QED
        BY <1>1, <1>2, <1>4, <2>1, <3>1, Zenon
    <2>2. CASE n = 1
      <3>1. n + 1 >= 2
        BY <2>2
      <3> QED
        BY <1>2, <1>4, <2>2, <3>1, Zenon
    <2>3. CASE n >= 2
      <3>1. n + 1 >= 2
        BY <2>3
      <3> QED
        BY <1>1, <1>2, <2>3, <3>1, Zenon
    <2> QED
      BY <2>1, <2>2, <2>3
  <1> HIDE DEF q, s, d
  <1>6. Len(d) = Codes(n + 1) /\ \A i \in 1..Len(d) : d[i] = r.status[i]
    <2>1. CASE n <= 1
      <3>1. n = 0 \/ n = 1
        BY <2>1
      <3>2. d = s
        <4>1. CASE n = 0
          <5>1. ~(n >= 2)
            BY <4>1
          <5> QED
            BY <1>1, <1>3, <1>4, <4>1, <5>1, Zenon
        <4>2. CASE n = 1
          BY <1>3, <1>4, <4>2, Zenon
        <4> QED
          BY <3>1, <4>1, <4>2
      <3>3. Codes(n) = 0 /\ Codes(n + 1) = 0
        BY <2>1 DEF Codes
      <3> QED
        BY <1>1, <3>2, <3>3
    <2>2. CASE n \in 2..4
      <3>1. Codes(n) = n - 2 /\ Codes(n + 1) = n - 1
        BY <2>2 DEF Codes
      <3>2. /\ Len(d) = Len(s) + 1 /\ d[Len(s) + 1] = c
            /\ \A i \in 1..Len(s) : d[i] = s[i]
        <4>1. n >= 2 /\ Len(s) < 3
          BY <1>1, <2>2, <3>1
        <4> QED
          BY <1>1, <1>3, <1>4, <2>2, <4>1, Zenon
      <3>3. Len(s) + 1 = n - 1 /\ Len(d) = n - 1
        BY <1>1, <2>2, <3>1, <3>2
      <3>4. d[n - 1] = r.status[n - 1]
        BY <1>4, <2>2, <3>2, <3>3
      <3>5. ASSUME NEW i \in 1..Len(d) PROVE d[i] = r.status[i]
        <4>1. i \in 1..Len(s) \/ i = n - 1
          BY <1>1, <3>3
        <4> QED
          BY <1>1, <3>2, <3>4, <4>1
      <3> QED
        BY <3>1, <3>3, <3>5
    <2>3. CASE n >= 5
      <3>1. Codes(n) = 3 /\ Codes(n + 1) = 3
        BY <2>3 DEF Codes
      <3>2. d = s
        BY <1>1, <1>3, <3>1
      <3> QED
        BY <1>1, <3>1, <3>2
    <2> QED
      BY <2>1, <2>2, <2>3
  <1>7. ASSUME n = 4 PROVE r.status = OK200
    <2>1. Len(d) = 3
      BY <1>6, <1>7 DEF Codes
    <2>2. d = OK200
      BY <2>1 DEF OtherStatus, OK200, q, d
    <2>3. r.status \in Seq(Characters) /\ Len(r.status) = 3
      BY ReplyType
    <2>4. OK200[1] = d[1] /\ OK200[2] = d[2] /\ OK200[3] = d[3]
      BY <2>2
    <2>5. d[1] = r.status[1] /\ d[2] = r.status[2] /\ d[3] = r.status[3]
      <3>1. 1 \in 1..3 /\ 2 \in 1..3 /\ 3 \in 1..3
        OBVIOUS
      <3> QED
        BY <1>6, <2>1, <3>1, Zenon
    <2>6. r.status = <<r.status[1], r.status[2], r.status[3]>>
      BY <2>3
    <2>7. OK200 = <<OK200[1], OK200[2], OK200[3]>>
      BY DEF OK200
    <2> QED
      BY <2>4, <2>5, <2>6, <2>7, Zenon
  <1>8. n + 1 >= 5 => r.status = OK200
    BY <1>7
  <1> QED
    BY <1>5, <1>6, <1>8 DEF StatusAt, q, d

LEMMA HeaderStep ==
    ASSUME NEW r \in Responses, NEW n \in Nat, NEW p \in ParserType, NEW c \in Characters,
           NEW text, n + 1 <= Len(Text(r)), c = Text(r)[n + 1],
           HeaderAt(r, n, p, text)
    PROVE  HeaderAt(r, n + 1, Step(p, c),
                    IF Collects(Step(p, c)) THEN Append(text, c) ELSE text)
  <1> DEFINE q == Step(p, c)
             h == Len(Heading(r))
             text2 == IF Collects(q) THEN Append(text, c) ELSE text
  <1>1. /\ q.lastCharacterEOL <=> (c = "NL" \/ (c = "CR" /\ p.lastCharacterEOL))
        /\ q.httpBody <=> (p.httpBody \/ (c = "NL" /\ p.lastCharacterEOL))
        /\ q.receiving <=> (p.receiving /\ ~(c = "NL" /\ p.httpBody))
    <2>1. q.lastCharacterEOL <=> (c = "NL" \/ (c = "CR" /\ p.lastCharacterEOL))
      BY DEF Step, BodyStarts
    <2>2. q.httpBody <=> (p.httpBody \/ (c = "NL" /\ p.lastCharacterEOL))
      BY DEF Step, BodyStarts
    <2>3. q.receiving <=> (p.receiving /\ ~(c = "NL" /\ p.httpBody))
      BY DEF Step, BodyStarts
    <2> QED
      BY <2>1, <2>2, <2>3
  <1>2. h \in Nat
    BY TextBytes
  <1>3. CASE n >= h
    <2>1. q.httpBody
      BY <1>1, <1>3 DEF HeaderAt
    <2> HIDE DEF q, h, text2
    <2>2. (n + 1 >= h) /\ ~(n + 1 <= h)
      BY <1>2, <1>3
    <2>3. HeaderAt(r, n + 1, q, text2)
      BY <2>1, <2>2 DEF HeaderAt, h
    <2> QED
      BY <2>3 DEF q, text2
  <1>4. CASE n < h
    <2>1. /\ ~p.httpBody /\ (p.lastCharacterEOL <=> LineEmpty(Heading(r), n))
          /\ p.receiving /\ text = <<>>
      BY <1>2, <1>4 DEF HeaderAt
    <2>2. n + 1 \in 1..h /\ (n + 1) - 1 = n
      BY <1>2, <1>4
    <2>3. c = Heading(r)[n + 1]
      BY <2>2, TextBytes
    <2>4. (c = "NL" /\ LineEmpty(Heading(r), n)) <=> n + 1 = h
      <3>1. \A m \in 1..h :
                Heading(r)[m] = "NL" /\ LineEmpty(Heading(r), m - 1) <=> m = h
        BY ReplyType DEF WellFormed
      <3> QED
        BY <2>2, <2>3, <3>1
    <2>5. q.lastCharacterEOL <=> LineEmpty(Heading(r), n + 1)
      BY <1>1, <2>1, <2>3, LineEmptyStep
    <2>6. (q.httpBody <=> n + 1 = h) /\ q.receiving
      BY <1>1, <2>1, <2>4
    <2>7. ~Collects(q)
      BY <1>1, <2>4, <2>6 DEF Collects
    <2>8. text2 = <<>>
      BY <2>1, <2>7
    <2> HIDE DEF q, h, text2
    <2>9. q.httpBody <=> n + 1 >= h
      BY <1>2, <1>4, <2>6
    <2>10. HeaderAt(r, n + 1, q, text2)
      BY <2>5, <2>6, <2>8, <2>9 DEF HeaderAt, h
    <2> QED
      BY <2>10 DEF q, text2
  <1> QED
    BY <1>2, <1>3, <1>4

LEMMA SubSeqAppend ==
    ASSUME NEW s \in Seq(Characters), NEW k \in Nat, k + 1 <= Len(s)
    PROVE  Append(SubSeq(s, 1, k), s[k + 1]) = SubSeq(s, 1, k + 1)
  OBVIOUS

LEMMA SubSeqNone ==
    ASSUME NEW s \in Seq(Characters), NEW k, k = 0 PROVE SubSeq(s, 1, k) = <<>>
  OBVIOUS

LEMMA BodyStep ==
    ASSUME NEW r \in Responses, NEW n \in Nat, NEW p \in ParserType, NEW c \in Characters,
           NEW text, n + 1 <= Len(Text(r)), c = Text(r)[n + 1],
           HeaderAt(r, n, p, text), BodyAt(r, n, p, text)
    PROVE  BodyAt(r, n + 1, Step(p, c),
                  IF Collects(Step(p, c)) THEN Append(text, c) ELSE text)
  <1> DEFINE q == Step(p, c)
             h == Len(Heading(r))
             b == Len(r.body)
             text2 == IF Collects(q) THEN Append(text, c) ELSE text
  <1>1. /\ q.lastCharacterEOL <=> (c = "NL" \/ (c = "CR" /\ p.lastCharacterEOL))
        /\ q.httpBody <=> (p.httpBody \/ (c = "NL" /\ p.lastCharacterEOL))
        /\ q.receiving <=> (p.receiving /\ ~(c = "NL" /\ p.httpBody))
    <2>1. q.lastCharacterEOL <=> (c = "NL" \/ (c = "CR" /\ p.lastCharacterEOL))
      BY DEF Step, BodyStarts
    <2>2. q.httpBody <=> (p.httpBody \/ (c = "NL" /\ p.lastCharacterEOL))
      BY DEF Step, BodyStarts
    <2>3. q.receiving <=> (p.receiving /\ ~(c = "NL" /\ p.httpBody))
      BY DEF Step, BodyStarts
    <2> QED
      BY <2>1, <2>2, <2>3
  <1>2. /\ h \in Nat /\ b \in Nat /\ Len(Text(r)) = h + b /\ r.body \in Seq(Characters)
        /\ \A i \in 1..b : Text(r)[h + i] = r.body[i]
    BY TextBytes, ReplyType
  <1>3. CASE n + 1 < h
    BY <1>2, <1>3 DEF BodyAt
  <1>4. CASE n + 1 = h
    <2>1. HeaderAt(r, n + 1, q, text2)
      BY HeaderStep
    <2>2. q.receiving /\ text2 = <<>> /\ (q.lastCharacterEOL <=> LineEmpty(Heading(r), h))
      BY <1>2, <1>4, <2>1 DEF HeaderAt
    <2>3. LineEmpty(Heading(r), h)
      <3>1. h \in 1..h
        BY <1>4
      <3>2. Heading(r)[h] = "NL"
        BY <3>1, ReplyType DEF WellFormed
      <3> QED
        BY <1>4, <3>2, LineEmptyStep
    <2>4. text2 = SubSeq(r.body, 1, (n + 1) - h)
      <3>1. (n + 1) - h = 0
        BY <1>2, <1>4
      <3> QED
        BY <1>2, <2>2, <3>1, SubSeqNone, Zenon
    <2> HIDE DEF q, text2
    <2>5. BodyAt(r, n + 1, q, text2)
      BY <1>4, <2>2, <2>3, <2>4 DEF BodyAt
    <2> QED
      BY <2>5 DEF q, text2
  <1>5. CASE n >= h
    <2> DEFINE k == n - h
    <2>1. k \in Nat /\ k + 1 <= b /\ n + 1 = h + (k + 1) /\ k + 1 \in 1..b /\ k \in 0..b
      BY <1>2, <1>5
    <2>2. c = r.body[k + 1]
      BY <1>2, <2>1
    <2>3. p.httpBody /\ q.httpBody
      BY <1>1, <1>5 DEF HeaderAt
    <2>4. CASE ~p.receiving
      <3>1. ~q.receiving /\ text2 = text
        BY <1>1, <2>4 DEF Collects
      <3>2. \E m \in 0..b : text = SubSeq(r.body, 1, m)
        BY <1>5, <2>4 DEF BodyAt
      <3> HIDE DEF q, text2
      <3>3. BodyAt(r, n + 1, q, text2)
        BY <3>1, <3>2 DEF BodyAt
      <3> QED
        BY <3>3 DEF q, text2
    <2>5. CASE p.receiving /\ c = "NL"
      <3>1. ~q.receiving /\ text2 = text
        BY <1>1, <2>3, <2>5 DEF Collects
      <3>2. text = SubSeq(r.body, 1, k)
        BY <1>5, <2>5 DEF BodyAt
      <3> HIDE DEF q, text2, k
      <3>3. BodyAt(r, n + 1, q, text2)
        BY <2>1, <3>1, <3>2 DEF BodyAt
      <3> QED
        BY <3>3 DEF q, text2
    <2>6. CASE p.receiving /\ c # "NL"
      <3>1. text = SubSeq(r.body, 1, k) /\ (p.lastCharacterEOL <=> n = h)
        BY <1>5, <2>6 DEF BodyAt
      <3>2. ~q.lastCharacterEOL
        <4>1. CASE n = h
          <5>1. r.body # <<>> /\ Head(r.body) = r.body[1] /\ k + 1 = 1
            BY <1>2, <2>1, <4>1
          <5>2. c # "CR"
            BY <2>2, <5>1, ReplyType DEF WellFormed
          <5> QED
            BY <1>1, <2>6, <5>2
        <4>2. CASE n # h
          BY <1>1, <2>6, <3>1, <4>2
        <4> QED
          BY <4>1, <4>2
      <3>3. q.receiving /\ text2 = Append(text, c)
        BY <1>1, <2>3, <2>6, <3>2 DEF Collects
      <3>4. Append(text, c) = SubSeq(r.body, 1, k + 1)
        BY <1>2, <2>1, <2>2, <3>1, SubSeqAppend
      <3>5. (n + 1) - h = k + 1 /\ n + 1 # h
        BY <1>2, <2>1
      <3>6. text2 = SubSeq(r.body, 1, (n + 1) - h)
        BY <3>3, <3>4, <3>5
      <3> HIDE DEF q, text2, k
      <3>7. BodyAt(r, n + 1, q, text2)
        BY <3>2, <3>3, <3>5, <3>6 DEF BodyAt
      <3> QED
        BY <3>7 DEF q, text2
    <2> QED
      BY <2>4, <2>5, <2>6
  <1> QED
    BY <1>2, <1>3, <1>4, <1>5
---------------------------------------------------------------------------
(* What is collected, and what decodeResponse sees of it.                  *)
LEMMA Smaller ==
    ASSUME NEW x \in Nat, NEW y \in Nat PROVE <<y, x>> \in OpToRel(<, Nat) <=> y < x
  <1> DEFINE s == <<y, x>>
  <1>1. s[1] = y /\ s[2] = x /\ s \in Nat \X Nat
    OBVIOUS
  <1> HIDE DEF s
  <1>2. s \in OpToRel(<, Nat) <=> s[1] < s[2]
    BY <1>1, Zenon DEF OpToRel
  <1> QED
    BY <1>1, <1>2, Zenon DEF s

LEMMA SmallestIn ==
    ASSUME NEW S \in SUBSET Nat, S # {}
    PROVE  Min(S) \in S /\ \A y \in S : Min(S) <= y
  <1>1. \E x \in S : \A y \in S : ~(<<y, x>> \in OpToRel(<, Nat))
    BY NatLessThanWellFounded, WFMin, Zenon
  <1>2. \E x \in S : \A y \in S : ~(y < x)
    BY <1>1, Smaller, Zenon
  <1>3. \E x \in S : \A y \in S : x <= y
    BY <1>2
  <1> QED
    BY <1>3, Zenon DEF Min

\* Where the text is cut: at its end or at a NUL.
LEMMA CutAt ==
    ASSUME NEW t \in Seq(Characters)
    PROVE  \E m \in 0..Len(t) :
              /\ Cut(t) = SubSeq(t, 1, m)
              /\ \A i \in 1..Len(t) : t[i] = "NUL" => m < i
  <1> DEFINE n == Len(t)
             S == {i \in 1..n : t[i] = "NUL"} \cup {n + 1}
             e == Min(S)
  <1>1. n \in Nat
    OBVIOUS
  <1>2. e \in S /\ \A y \in S : e <= y
    <2>1. S \in SUBSET Nat /\ S # {}
      BY <1>1
    <2> HIDE DEF S
    <2> QED
      BY <2>1, SmallestIn
  <1>3. Cut(t) = SubSeq(t, 1, e - 1)
    BY DEF Cut
  <1> HIDE DEF n, e
  <1>4. e - 1 \in 0..n /\ \A i \in 1..n : t[i] = "NUL" => e - 1 < i
    BY <1>1, <1>2
  <1> QED
    BY <1>3, <1>4, Zenon DEF n

LEMMA SubSeqIs ==
    ASSUME NEW s \in Seq(Characters), NEW k \in Nat, k <= Len(s)
    PROVE  /\ SubSeq(s, 1, k) \in Seq(Characters) /\ Len(SubSeq(s, 1, k)) = k
           /\ \A i \in 1..k : SubSeq(s, 1, k)[i] = s[i]
  OBVIOUS

LEMMA AppendIs ==
    ASSUME NEW s \in Seq(Characters), NEW c \in Characters
    PROVE  /\ Append(s, c) \in Seq(Characters) /\ Len(Append(s, c)) = Len(s) + 1
           /\ Append(s, c)[Len(s) + 1] = c
           /\ \A i \in 1..Len(s) : Append(s, c)[i] = s[i]
  OBVIOUS

LEMMA SameStart ==
    ASSUME NEW s \in Seq(Characters), NEW t \in Seq(Characters), NEW m \in Nat,
           m <= Len(s), m <= Len(t), \A i \in 1..m : s[i] = t[i]
    PROVE  SubSeq(s, 1, m) = SubSeq(t, 1, m)
  OBVIOUS

LEMMA CutIsPrefix ==
    ASSUME NEW body \in Seq(Characters), NEW text \in Seq(Characters),
           Beginning(text, body)
    PROVE  IsPrefix(Cut(text), body)
  <1>1. PICK k \in 0..Len(body) :
            text = SubSeq(body, 1, k) \/ text = Append(SubSeq(body, 1, k), "NUL")
    BY DEF Beginning
  <1>2. PICK m \in 0..Len(text) :
            /\ Cut(text) = SubSeq(text, 1, m)
            /\ \A i \in 1..Len(text) : text[i] = "NUL" => m < i
    BY CutAt
  <1> DEFINE b == SubSeq(body, 1, k)
  <1>3. /\ b \in Seq(Characters) /\ Len(b) = k /\ k \in Nat /\ k <= Len(body)
        /\ \A i \in 1..k : b[i] = body[i]
    BY <1>1, SubSeqIs
  <1> HIDE DEF b
  <1>4. m \in Nat /\ m <= k /\ \A i \in 1..m : text[i] = body[i]
    <2>1. CASE text = b
      BY <1>2, <1>3, <2>1
    <2>2. CASE text = Append(b, "NUL")
      <3>1. /\ Len(text) = k + 1 /\ text[k + 1] = "NUL"
            /\ \A i \in 1..k : text[i] = b[i]
        BY <1>3, <2>2, Marks, AppendIs, Zenon
      <3>2. k + 1 \in 1..Len(text)
        BY <1>3, <3>1
      <3>3. m < k + 1
        BY <1>2, <3>1, <3>2
      <3>4. m \in Nat /\ m <= k /\ \A i \in 1..m : i \in 1..k
        BY <1>2, <1>3, <3>3
      <3> QED
        BY <1>3, <3>1, <3>4
    <2> QED
      BY <1>1, <2>1, <2>2 DEF b
  <1>5. m <= Len(text) /\ m <= Len(body)
    BY <1>2, <1>3, <1>4
  <1>6. Cut(text) = SubSeq(body, 1, m) /\ Len(Cut(text)) = m
    BY <1>2, <1>4, <1>5, SameStart, SubSeqIs
  <1>7. SubSeq(Cut(text), 1, m) = SubSeq(body, 1, m)
    BY <1>4, <1>5, <1>6
  <1> QED
    BY <1>5, <1>6, <1>7 DEF IsPrefix

\* What was collected after n bytes is the beginning of the body.
LEMMA AtBeginning ==
    ASSUME NEW r \in Responses, NEW n \in 0..Len(Text(r)), NEW p, NEW text,
           At(r, n, p, text)
    PROVE  text # <<>> => r.status = OK200 /\ Beginning(text, r.body)
  <1> DEFINE h == Len(Heading(r))
             b == Len(r.body)
  <1>1. h \in Nat /\ h >= 7 /\ b \in Nat /\ Len(Text(r)) = h + b /\ n \in Nat
    <2>1. h \in Nat /\ h >= 7 /\ b \in Nat /\ Len(Text(r)) = h + b
      BY TextBytes
    <2> QED
      BY <2>1
  <1>2. ASSUME text # <<>> PROVE n >= h /\ r.status = OK200
    BY <1>1, <1>2 DEF At, HeaderAt
  <1>3. ASSUME text # <<>> PROVE \E k \in 0..b : text = SubSeq(r.body, 1, k)
    <2>1. n >= h /\ n - h \in 0..b
      BY <1>1, <1>2, <1>3
    <2>2. BodyAt(r, n, p, text)
      BY DEF At
    <2>3. CASE p.receiving
      BY <2>1, <2>2, <2>3 DEF BodyAt
    <2>4. CASE ~p.receiving
      BY <2>1, <2>2, <2>4 DEF BodyAt
    <2> QED
      BY <2>3, <2>4
  <1> QED
    BY <1>2, <1>3 DEF Beginning

\* The NUL of a connection that is gone ends what was collected before it.
LEMMA NulBeginning ==
    ASSUME NEW r \in Responses, NEW n \in 0..Len(Text(r)), NEW p \in ParserType, NEW text,
           At(r, n, p, text), Collects(Step(p, "NUL"))
    PROVE  r.status = OK200 /\ Beginning(Append(text, "NUL"), r.body)
  <1> DEFINE h == Len(Heading(r))
             b == Len(r.body)
             q == Step(p, "NUL")
  <1>1. h \in Nat /\ h >= 7 /\ b \in Nat /\ Len(Text(r)) = h + b /\ n \in Nat
    <2>1. h \in Nat /\ h >= 7 /\ b \in Nat /\ Len(Text(r)) = h + b
      BY TextBytes
    <2> QED
      BY <2>1
  <1>2. p.httpBody /\ p.receiving
    BY DEF Collects, Step, BodyStarts, ParserType
  <1>3. n >= h
    BY <1>2 DEF At, HeaderAt
  <1>4. r.status = OK200
    BY <1>1, <1>3 DEF At
  <1>5. text = SubSeq(r.body, 1, n - h)
    BY <1>2, <1>3 DEF At, BodyAt
  <1>6. n - h \in 0..b
    BY <1>1, <1>3
  <1> QED
    BY <1>4, <1>5, <1>6 DEF Beginning
---------------------------------------------------------------------------
(* Bytes on their way.                                                     *)
LEMMA UnreadSent ==
    ASSUME NEW buffer \in Seq(Characters), buffer = <<>>, NEW data \in Seq(Characters), data = <<>>,
           NEW t \in Seq(Characters)
    PROVE  Unread(buffer, data, t, t, 0)
  <1>1. Len(buffer) = 0 /\ Len(data) = 0 /\ Len(t) \in Nat
    OBVIOUS
  <1>2. Follows(buffer, t, 0) /\ Follows(data, t, 0)
    BY <1>1 DEF Follows
  <1>3. 0 + Len(buffer) = 0 /\ 0 + Len(buffer) + Len(data) = 0
    BY <1>1
  <1> QED
    BY <1>2, <1>3, FollowsAll DEF Unread

LEMMA UnreadCut ==
    ASSUME NEW buffer \in Seq(Characters), NEW data \in Seq(Characters),
           NEW wire \in Seq(Characters), NEW t \in Seq(Characters), NEW n \in Nat,
           Unread(buffer, data, wire, t, n), NEW none \in Seq(Characters), none = <<>>
    PROVE  Unread(buffer, data, none, t, n)
  <1> DEFINE k == n + Len(buffer) + Len(data)
  <1>1. k \in Nat /\ k <= Len(t)
    BY DEF Unread, Follows
  <1> HIDE DEF k
  <1>2. Follows(none, t, k)
    BY <1>1, FollowsNone
  <1> QED
    BY <1>2 DEF Unread, k

LEMMA UnreadArrives ==
    ASSUME NEW buffer \in Seq(Characters), NEW data \in Seq(Characters),
           NEW wire \in Seq(Characters), NEW t \in Seq(Characters), NEW n \in Nat,
           Unread(buffer, data, wire, t, n), wire # <<>>
    PROVE  Unread(buffer, Append(data, Head(wire)), Tail(wire), t, n)
  <1> DEFINE k == n + Len(buffer)
             m == k + Len(data)
             c == Head(wire)
             d == Append(data, c)
  <1>1. k \in Nat /\ m \in Nat /\ Len(data) \in Nat /\ c \in Characters
    OBVIOUS
  <1>2. Follows(buffer, t, n) /\ Follows(data, t, k) /\ Follows(wire, t, m)
    BY DEF Unread
  <1> HIDE DEF k, c
  <1>3. m + 1 <= Len(t) /\ c = t[m + 1] /\ Follows(Tail(wire), t, m + 1)
    BY <1>1, <1>2, FollowsHead DEF c
  <1>4. Len(d) = Len(data) + 1 /\ Follows(d, t, k)
    BY <1>1, <1>2, <1>3, FollowsAppend
  <1>5. k + Len(d) = m + 1
    BY <1>1, <1>4
  <1> HIDE DEF m, d
  <1>6. Follows(Tail(wire), t, k + Len(d))
    BY <1>3, <1>5
  <1> QED
    BY <1>2, <1>4, <1>6 DEF Unread, k, c, d

LEMMA UnreadBuffer ==
    ASSUME NEW buffer \in Seq(Characters), NEW data \in Seq(Characters),
           NEW wire \in Seq(Characters), NEW t \in Seq(Characters), NEW n \in Nat,
           Unread(buffer, data, wire, t, n), buffer # <<>>
    PROVE  /\ n + 1 <= Len(t) /\ Head(buffer) = t[n + 1]
           /\ Unread(Tail(buffer), data, wire, t, n + 1)
  <1> DEFINE x == Tail(buffer)
  <1>1. Follows(buffer, t, n)
    BY DEF Unread
  <1>2. /\ n + 1 <= Len(t) /\ Head(buffer) = t[n + 1] /\ Len(x) = Len(buffer) - 1
        /\ Follows(x, t, n + 1)
    BY <1>1, FollowsHead
  <1>3. Len(buffer) \in Nat /\ Len(data) \in Nat
    OBVIOUS
  <1> HIDE DEF x
  <1>4. (n + 1) + Len(x) = n + Len(buffer) /\ (n + 1) + Len(x) + Len(data) = n + Len(buffer) + Len(data)
    BY <1>2, <1>3
  <1>5. Unread(x, data, wire, t, n + 1)
    BY <1>2, <1>4 DEF Unread
  <1> QED
    BY <1>2, <1>5 DEF x

LEMMA UnreadSocket ==
    ASSUME NEW buffer \in Seq(Characters), NEW data \in Seq(Characters),
           NEW wire \in Seq(Characters), NEW t \in Seq(Characters), NEW n \in Nat,
           Unread(buffer, data, wire, t, n), buffer = <<>>, data # <<>>
    PROVE  /\ n + 1 <= Len(t) /\ Head(data) = t[n + 1]
           /\ Unread(Tail(data), buffer, wire, t, n + 1)
  <1> DEFINE x == Tail(data)
  <1>1. Len(buffer) = 0 /\ Len(data) \in Nat
    OBVIOUS
  <1>2. Follows(data, t, n) /\ Follows(wire, t, n + Len(data))
    <2>1. n + Len(buffer) = n
      BY <1>1
    <2> QED
      BY <2>1 DEF Unread
  <1>3. /\ n + 1 <= Len(t) /\ Head(data) = t[n + 1] /\ Len(x) = Len(data) - 1
        /\ Follows(x, t, n + 1)
    BY <1>2, FollowsHead
  <1> HIDE DEF x
  <1>4. (n + 1) + Len(x) = n + Len(data) /\ (n + 1) + Len(x) + Len(buffer) = n + Len(data)
    BY <1>1, <1>3
  <1>5. n + Len(data) \in Nat /\ n + Len(data) <= Len(t)
    BY <1>1, <1>2 DEF Follows
  <1>6. Follows(buffer, t, n + Len(data))
    BY <1>5, FollowsNone
  <1>7. Unread(x, buffer, wire, t, n + 1)
    BY <1>2, <1>3, <1>4, <1>6 DEF Unread
  <1> QED
    BY <1>3, <1>7 DEF x

LEMMA AtStart ==
    ASSUME NEW r \in Responses, NEW text, text = <<>> PROVE At(r, 0, Fresh, text)
  <1>1. Len(Heading(r)) \in Nat /\ Len(Heading(r)) >= 7
    BY TextBytes
  <1>2. /\ ~Fresh.statusLine /\ ~Fresh.httpBody /\ Fresh.lastCharacterEOL /\ Fresh.receiving
        /\ Fresh.code = <<>>
    BY DEF Fresh
  <1>3. Len(Fresh.code) = 0
    BY <1>2
  <1>4. StatusAt(r, 0, Fresh)
    BY <1>2, <1>3 DEF StatusAt, Codes
  <1>5. HeaderAt(r, 0, Fresh, text)
    BY <1>1, <1>2, LineEmptyStart DEF HeaderAt
  <1>6. BodyAt(r, 0, Fresh, text)
    BY <1>1 DEF BodyAt
  <1> QED
    BY <1>4, <1>5, <1>6 DEF At

---------------------------------------------------------------------------
(* What the steps do to the types.                                         *)
LEMMA FreshType ==
    /\ Fresh \in ParserType /\ Len(Fresh.code) <= 3
    /\ NoServer \in [reply : Responses \cup {NoServer.reply}, wire : Seq(Characters)]
    /\ NoServer.wire = <<>>
    /\ NoClient \in [socket : Sockets \cup {"none"}, rx : Seq(Characters)]
    /\ NoClient.socket = "none" /\ NoClient.rx = <<>>
    /\ Idle \in [state : {"free", "open", "left"}, data : Seq(Characters)]
    /\ Idle.state = "free"
  <1>1. <<>> \in Seq(Characters) /\ Len(<<>>) = 0
    OBVIOUS
  <1>2. NoServer.reply \in Responses \cup {NoServer.reply} /\ NoServer.wire = <<>>
    BY DEF NoServer
  <1>3. NoServer = [reply |-> NoServer.reply, wire |-> NoServer.wire]
    BY DEF NoServer
  <1>4. NoServer \in [reply : Responses \cup {NoServer.reply}, wire : Seq(Characters)]
    BY <1>1, <1>2, <1>3
  <1>5. Fresh \in ParserType /\ Len(Fresh.code) <= 3
    BY <1>1 DEF Fresh, ParserType
  <1> QED
    BY <1>1, <1>2, <1>4, <1>5 DEF NoClient, Idle

Clients == [socket : Sockets \cup {"none"}, rx : Seq(Characters)]
Connection == [state : {"free", "open", "left"}, data : Seq(Characters)]

LEMMA Closed ==
    ASSUME ExchangeType, NoSocketLeft, close
    PROVE  /\ client' = NoClient /\ client' \in Clients
           /\ conn' \in [Sockets -> Connection] /\ NoSocketLeft'
  <1>1. client' = NoClient /\ client' \in Clients
    BY FreshType DEF close, Clients
  <1>2. conn' = [s \in Sockets |-> IF s = client.socket THEN Idle ELSE conn[s]]
    BY DEF close, closesocket
  <1>3. \A s \in Sockets : conn[s] \in Connection
    BY DEF ExchangeType, Connection
  <1>4. conn' \in [Sockets -> Connection]
    BY <1>2, <1>3, FreshType DEF Connection
  <1>5. \A s \in Sockets : conn'[s].state = "free"
    BY <1>2, FreshType DEF NoSocketLeft
  <1> QED
    BY <1>1, <1>4, <1>5 DEF NoSocketLeft

LEMMA TakeType ==
    ASSUME ExchangeType, NEW c \in Characters, Take(c)
    PROVE  /\ parser' \in ParserType /\ Len(parser'.code) <= 3
           /\ httpResponse' \in Seq(Characters) /\ place' \in {"close", "fetch"}
  <1>1. parser \in ParserType /\ Len(parser.code) <= 3 /\ httpResponse \in Seq(Characters)
    BY DEF ExchangeType, ParserType
  <1>2. parser' = Step(parser, c)
    BY DEF Take
  <1>3. parser' \in ParserType /\ Len(parser'.code) <= 3
    BY <1>1, <1>2, StepType, CodeStep
  <1>4. httpResponse' \in {httpResponse, Append(httpResponse, c)}
    BY DEF Take
  <1>5. httpResponse' \in Seq(Characters)
    BY <1>1, <1>4, AppendIs
  <1>6. place' \in {"close", "fetch"}
    BY DEF Take
  <1> QED
    BY <1>3, <1>5, <1>6
---------------------------------------------------------------------------
(* The steps.                                                              *)
LEMMA InvFields ==
    ASSUME ExchangeInv
    PROVE  /\ request \in Requests /\ target \in BOOLEAN
           /\ client \in Clients /\ client.rx \in Seq(Characters)
           /\ client.socket \in Sockets \cup {"none"}
           /\ closed_sockets \subseteq Sockets
           /\ conn \in [Sockets -> Connection]
           /\ \A s \in Sockets : conn[s].data \in Seq(Characters)
           /\ server.wire \in Seq(Characters)
           /\ server \in [reply : Responses \cup {NoServer.reply}, wire : Seq(Characters)]
           /\ asked \in Nat
           /\ parser \in ParserType /\ Len(parser.code) <= 3
           /\ httpResponse \in Seq(Characters)
           /\ mishaps \in 0..Mishaps /\ Mishaps \in Nat
  <1>1. ExchangeType
    BY DEF ExchangeInv
  <1>2. client \in Clients /\ conn \in [Sockets -> Connection]
    BY <1>1 DEF ExchangeType, Clients, Connection
  <1>3. \A s \in Sockets : conn[s].data \in Seq(Characters)
    BY <1>2 DEF Connection
  <1>4. client.rx \in Seq(Characters) /\ client.socket \in Sockets \cup {"none"}
    BY <1>2 DEF Clients
  <1>5. server.wire \in Seq(Characters)
    BY <1>1 DEF ExchangeType
  <1>6. Mishaps \in Nat
    BY ExchangeAssumption
  <1> QED
    BY <1>1, <1>2, <1>3, <1>4, <1>5, <1>6 DEF ExchangeType, ParserType

LEMMA MishapBound == ASSUME mishaps \in 0..Mishaps, Mishap PROVE mishaps' \in 0..Mishaps
  <1>1. Mishaps \in Nat
    BY ExchangeAssumption
  <1> QED
    BY <1>1 DEF Mishap

\* Where nothing of the reply changed.
LEMMA CollectedKept ==
    ASSUME Collected, UNCHANGED httpResponse, server'.reply = server.reply
    PROVE  Collected'
  BY DEF Collected

LEMMA CollectedNone == ASSUME httpResponse' = <<>> PROVE Collected'
  BY DEF Collected

LEMMA QuietBefore == ASSUME Quiet, place \in Before PROVE asked = 0 /\ Untouched
  <1>1. asked = 0
    BY DEF Quiet
  <1>2. place \in Before \cup {"await"}
    OBVIOUS
  <1> QED
    BY <1>1, <1>2, Zenon DEF Quiet

LEMMA BeginStep == ASSUME ExchangeInv, BeginExchange PROVE ExchangeInv'
  <1>1. /\ place = "idle" /\ place' = "lookup" /\ request' \in Requests
        /\ parser' = Fresh /\ httpResponse' = <<>> /\ server' = NoServer /\ asked' = 0
        /\ UNCHANGED <<target, client, closed_sockets, conn, mishaps>>
    BY DEF BeginExchange, Go
  <1>2. client = NoClient /\ NoSocketLeft
    BY <1>1 DEF ExchangeInv, Held
  <1>3. ExchangeType'
    BY <1>1, InvFields, FreshType DEF ExchangeType, ExchangeInv, ParserType
  <1>4. NoSocketLeft' /\ Held'
    BY <1>1, <1>2 DEF NoSocketLeft, Held
  <1>5. Quiet' /\ Answered' /\ Reading' /\ Collected'
    BY <1>1, <1>2, FreshType DEF Quiet, Untouched, Before, Answered, Reading, Collected
  <1> QED
    BY <1>3, <1>4, <1>5 DEF ExchangeInv

LEMMA LookupStep == ASSUME ExchangeInv, lookupIp PROVE ExchangeInv'
  <1>1. /\ place = "lookup" /\ place' \in {"connect", "idle"} /\ target' \in {TRUE, target}
        /\ Mishap \/ UNCHANGED mishaps
        /\ UNCHANGED <<request, client, closed_sockets, conn, server, asked, parser,
                       httpResponse>>
    BY DEF lookupIp, Go
  <1>2. ExchangeType'
    BY <1>1, InvFields, MishapBound DEF ExchangeType, ExchangeInv
  <1>3. NoSocketLeft' /\ Held'
    BY <1>1 DEF ExchangeInv, NoSocketLeft, Held
  <1>4. Quiet' /\ Answered'
    BY <1>1 DEF ExchangeInv, Quiet, Untouched, Before, Answered
  <1>5. Reading' /\ Collected'
    BY <1>1 DEF ExchangeInv, Reading, Collected
  <1> QED
    BY <1>2, <1>3, <1>4, <1>5 DEF ExchangeInv

LEMMA ConnectStep == ASSUME ExchangeInv, Connect PROVE ExchangeInv'
  <1>1. /\ place = "connect" /\ place' = "connected" /\ connectTCP
        /\ UNCHANGED <<request, target, closed_sockets, server, asked, parser, httpResponse>>
    BY DEF Connect, Go
  <1>2. /\ asked = 0 /\ server = NoServer /\ parser = Fresh /\ httpResponse = <<>>
        /\ client = NoClient /\ \A s \in Sockets : conn[s].state = "free"
    <2>1. Quiet /\ place \in Before
      BY <1>1 DEF ExchangeInv, Before
    <2>2. asked = 0 /\ Untouched
      BY <2>1, QuietBefore
    <2>3. client = NoClient /\ NoSocketLeft
      BY <1>1 DEF ExchangeInv, Held
    <2> QED
      BY <2>2, <2>3, FreshType, Marks DEF Untouched, NoSocketLeft
  <1>3. /\ client' \in Clients /\ conn' \in [Sockets -> Connection]
        /\ mishaps' \in 0..Mishaps /\ client'.rx = <<>>
        /\ client'.socket # "none" => conn'[client'.socket].data = <<>>
        /\ \A s \in Sockets : conn'[s].state # "free" => s = client'.socket
    <2>1. CASE \E s \in Sockets :
                  /\ conn' = [conn EXCEPT ![s] = [state |-> "open", data |-> <<>>]]
                  /\ client' = [socket |-> s, rx |-> <<>>]
                  /\ UNCHANGED mishaps
      <3>1. PICK s \in Sockets :
                  /\ conn' = [conn EXCEPT ![s] = [state |-> "open", data |-> <<>>]]
                  /\ client' = [socket |-> s, rx |-> <<>>]
                  /\ UNCHANGED mishaps
        BY <2>1
      <3> DEFINE new == [state |-> "open", data |-> <<>>]
      <3>2. new \in Connection /\ new.data = <<>>
        BY DEF Connection
      <3>3. conn' = [conn EXCEPT ![s] = new]
        BY <3>1
      <3> HIDE DEF new
      <3>4. conn' \in [Sockets -> Connection] /\ conn'[s] = new
            /\ \A u \in Sockets : u # s => conn'[u] = conn[u]
        BY <3>2, <3>3, InvFields
      <3>5. client' \in Clients /\ client'.socket = s /\ client'.rx = <<>>
        BY <3>1 DEF Clients
      <3> QED
        BY <1>2, <3>1, <3>2, <3>4, <3>5, InvFields
    <2>2. CASE Mishap /\ client' = NoClient /\ UNCHANGED conn
      BY <1>2, <2>2, InvFields, FreshType, MishapBound DEF Clients
    <2> QED
      BY <1>1, <2>1, <2>2 DEF connectTCP
  <1>4. ExchangeType'
    BY <1>1, <1>3, InvFields DEF ExchangeType, Clients, Connection, ParserType
  <1>5. NoSocketLeft' /\ Held'
    BY <1>1, <1>3 DEF NoSocketLeft, Held
  <1>6. Quiet' /\ Answered' /\ Reading' /\ Collected'
    BY <1>1, <1>2, <1>3 DEF Quiet, Untouched, Before, Answered, Reading, Collected
  <1> QED
    BY <1>4, <1>5, <1>6 DEF ExchangeInv

\* connected(): a socket that is seen closed is closed.
LEMMA SeenClosedStep ==
    ASSUME ExchangeInv, close, closed_sockets' = closed_sockets \ {client.socket}
    PROVE  /\ client' = NoClient /\ client' \in Clients
           /\ conn' \in [Sockets -> Connection] /\ NoSocketLeft'
           /\ closed_sockets' \subseteq Sockets
  BY Closed, InvFields DEF ExchangeInv

LEMMA ConnectLoopStep == ASSUME ExchangeInv, ConnectLoop PROVE ExchangeInv'
  <1>1. /\ place = "connected"
        /\ UNCHANGED <<request, target, server, asked, parser, httpResponse>>
    BY DEF ConnectLoop, Go
  <1>2. asked = 0 /\ Untouched /\ NoSocketLeft
    <2>1. Quiet /\ NoSocketLeft /\ place \in Before
      BY <1>1 DEF ExchangeInv, Before
    <2> QED
      BY <2>1, QuietBefore
  <1>3. \/ close /\ closed_sockets' = closed_sockets \ {client.socket}
        \/ UNCHANGED <<client, conn, closed_sockets>>
    BY DEF ConnectLoop
  <1>4. /\ client' \in Clients /\ conn' \in [Sockets -> Connection] /\ NoSocketLeft'
        /\ closed_sockets' \subseteq Sockets /\ client'.rx = <<>>
        /\ client'.socket # "none" => conn'[client'.socket].data = <<>>
    <2>1. CASE close /\ closed_sockets' = closed_sockets \ {client.socket}
      BY <2>1, SeenClosedStep, FreshType
    <2>2. CASE UNCHANGED <<client, conn, closed_sockets>>
      BY <1>2, <2>2, InvFields DEF Untouched, NoSocketLeft
    <2> QED
      BY <1>3, <2>1, <2>2
  <1>5. /\ place' \in {"send", "connect", "idle"} /\ (Mishap \/ UNCHANGED mishaps)
        /\ IF client'.socket # "none" THEN place' = "send" ELSE place' \in {"connect", "idle"}
    BY DEF ConnectLoop
  <1>6. client'.socket = "none" => client' = NoClient
    BY <1>4 DEF Clients, NoClient
  <1>7. ExchangeType'
    <2>1. mishaps' \in 0..Mishaps
      BY <1>5, InvFields, MishapBound
    <2> QED
      BY <1>1, <1>4, <1>5, <2>1, InvFields DEF ExchangeType, Clients, Connection, ParserType
  <1>8. Held'
    BY <1>5, <1>6 DEF Held
  <1>9. Quiet' /\ Answered' /\ Reading' /\ Collected'
    BY <1>1, <1>2, <1>4, <1>5 DEF Quiet, Untouched, Before, Answered, Reading, Collected
  <1> QED
    BY <1>4, <1>7, <1>8, <1>9 DEF ExchangeInv

LEMMA SendStep == ASSUME ExchangeInv, Send PROVE ExchangeInv'
  <1>1. /\ place = "send" /\ SeenClosed \in BOOLEAN
        /\ UNCHANGED <<request, target, parser, httpResponse, mishaps>>
    BY DEF Send, Go, SeenClosed
  <1>2. /\ asked = 0 /\ Untouched /\ NoSocketLeft /\ client.socket # "none"
        /\ client.socket \in Sockets
    <2>1. Quiet /\ NoSocketLeft /\ place \in Before /\ client.socket # "none"
      BY <1>1 DEF ExchangeInv, Before, Held
    <2> QED
      BY <2>1, QuietBefore, InvFields
  <1>3. CASE SeenClosed
    <2>1. /\ close /\ closed_sockets' = closed_sockets \ {client.socket}
          /\ place' = "idle" /\ UNCHANGED <<server, asked>>
      BY <1>3 DEF Send
    <2>2. /\ client' = NoClient /\ client' \in Clients
          /\ conn' \in [Sockets -> Connection] /\ NoSocketLeft'
          /\ closed_sockets' \subseteq Sockets
      BY <2>1, SeenClosedStep
    <2>3. ExchangeType'
      BY <1>1, <2>1, <2>2, InvFields DEF ExchangeType, Clients, Connection, ParserType
    <2>4. Held' /\ Quiet' /\ Answered' /\ Reading' /\ Collected'
      BY <1>1, <1>2, <2>1, <2>2 DEF Held, Quiet, Untouched, Before, Answered, Reading, Collected
    <2> QED
      BY <2>2, <2>3, <2>4 DEF ExchangeInv
  <1>4. CASE ~SeenClosed
    <2>1. place' = "await" /\ UNCHANGED <<client, conn, closed_sockets>>
      BY <1>4 DEF Send
    <2>2. NoSocketLeft' /\ Held'
      BY <1>2, <2>1 DEF NoSocketLeft, Held
    <2>3. CASE conn[client.socket].state = "open"
      <3>1. asked' = asked + 1 /\ \E r \in Responses : server' = [reply |-> r, wire |-> Text(r)]
        BY <1>4, <2>3 DEF Send
      <3>2. PICK r \in Responses : server' = [reply |-> r, wire |-> Text(r)]
        BY <3>1
      <3>3. asked' = 1 /\ server'.reply = r /\ server'.wire = Text(r)
        BY <1>2, <3>1, <3>2
      <3>4. Text(r) \in Seq(Characters) /\ Len(Text(r)) \in Nat
        BY TextBytes, LenProperties
      <3>5. ExchangeType'
        <4>1. server' \in [reply : Responses \cup {NoServer.reply}, wire : Seq(Characters)]
          BY <3>2, <3>4
        <4> QED
          BY <1>1, <2>1, <3>3, <4>1, InvFields
             DEF ExchangeType, Clients, Connection, ParserType
      <3>6. At(r, 0, parser', httpResponse')
        BY <1>1, <1>2, AtStart DEF Untouched
      <3>7. Unread(client'.rx, conn'[client'.socket].data, server'.wire, Text(r), 0)
        BY <1>2, <2>1, <3>3, <3>4, InvFields, UnreadSent DEF Untouched
      <3>8. Reading'
        <4>1. 0 \in 0..Len(Text(r))
          BY <3>4
        <4> QED
          BY <3>3, <3>6, <3>7, <4>1 DEF Reading
      <3>9. Quiet' /\ Answered' /\ Collected'
        BY <1>1, <1>2, <2>1, <3>3 DEF Quiet, Untouched, Before, Answered, Collected
      <3> QED
        BY <2>2, <3>5, <3>8, <3>9 DEF ExchangeInv
    <2>4. CASE conn[client.socket].state # "open"
      <3>1. UNCHANGED <<server, asked>>
        BY <1>4, <2>4 DEF Send
      <3>2. ExchangeType'
        BY <1>1, <2>1, <3>1, InvFields DEF ExchangeType, Clients, Connection, ParserType
      <3>3. Quiet' /\ Answered' /\ Reading' /\ Collected'
        BY <1>1, <1>2, <2>1, <3>1
           DEF Quiet, Untouched, Before, Answered, Reading, Collected
      <3> QED
        BY <2>2, <3>2, <3>3 DEF ExchangeInv
    <2> QED
      BY <2>3, <2>4
  <1> QED
    BY <1>1, <1>3, <1>4

LEMMA AvailableHas == ASSUME TRUE \in available PROVE client.socket # "none"
  BY DEF available

LEMMA AwaitStep == ASSUME ExchangeInv, Await PROVE ExchangeInv'
  <1>1. /\ place = "await"
        /\ UNCHANGED <<request, target, closed_sockets, server, asked, parser, httpResponse>>
    BY DEF Await, Go
  <1>2. CASE TRUE \in available /\ place' = "fetch" /\ UNCHANGED <<client, conn, mishaps>>
    <2>1. ExchangeType'
      BY <1>1, <1>2, InvFields DEF ExchangeType, Clients, Connection, ParserType
    <2>2. NoSocketLeft' /\ Held'
      BY <1>1, <1>2 DEF ExchangeInv, NoSocketLeft, Held
    <2>3. Quiet' /\ Answered'
      <3>1. asked = 0 => Untouched
        BY <1>1 DEF ExchangeInv, Quiet
      <3> QED
        BY <1>1, <1>2, <3>1 DEF ExchangeInv, Quiet, Untouched, Before, Answered
    <2>4. Reading' /\ Collected'
      BY <1>1, <1>2, Zenon DEF ExchangeInv, Reading, Collected
    <2> QED
      BY <2>1, <2>2, <2>3, <2>4 DEF ExchangeInv
  <1>3. CASE close /\ place' = "idle" /\ (Mishap \/ UNCHANGED mishaps)
    <2>1. /\ client' = NoClient /\ client' \in Clients
          /\ conn' \in [Sockets -> Connection] /\ NoSocketLeft'
      BY <1>3, Closed DEF ExchangeInv
    <2>2. mishaps' \in 0..Mishaps
      BY <1>3, InvFields, MishapBound
    <2>3. ExchangeType'
      BY <1>1, <1>3, <2>1, <2>2, InvFields DEF ExchangeType, Clients, Connection, ParserType
    <2>4. Held' /\ Quiet' /\ Answered' /\ Reading' /\ Collected'
      BY <1>1, <1>3, <2>1
         DEF ExchangeInv, Held, Quiet, Untouched, Before, Answered, Reading, Collected
    <2> QED
      BY <2>1, <2>3, <2>4 DEF ExchangeInv
  <1> QED
    BY <1>2, <1>3 DEF Await, AfterSilence

LEMMA StopStep == ASSUME ExchangeInv, StopReceiving PROVE ExchangeInv'
  <1>1. /\ place = "fetch" /\ place' = "close" /\ (Mishap \/ UNCHANGED mishaps)
        /\ UNCHANGED <<request, target, client, closed_sockets, conn, server, asked,
                       parser, httpResponse>>
    BY DEF StopReceiving, Go, AfterGap
  <1>2. ExchangeType'
    <2>1. mishaps' \in 0..Mishaps
      BY <1>1, InvFields, MishapBound
    <2> QED
      BY <1>1, <2>1, InvFields DEF ExchangeType, Clients, Connection, ParserType
  <1>3. NoSocketLeft' /\ Held' /\ Quiet' /\ Answered' /\ Reading' /\ Collected'
    BY <1>1 DEF ExchangeInv, NoSocketLeft, Held, Quiet, Untouched, Before, Answered,
                Reading, Collected
  <1> QED
    BY <1>2, <1>3 DEF ExchangeInv

LEMMA CloseStep == ASSUME ExchangeInv, Close PROVE ExchangeInv'
  <1>1. /\ place = "close" /\ place' = "decode" /\ close
        /\ UNCHANGED <<request, target, closed_sockets, server, asked, parser,
                       httpResponse, mishaps>>
    BY DEF Close, Go
  <1>2. /\ client' = NoClient /\ client' \in Clients
        /\ conn' \in [Sockets -> Connection] /\ NoSocketLeft'
    BY <1>1, Closed DEF ExchangeInv
  <1>3. ExchangeType'
    BY <1>1, <1>2, InvFields DEF ExchangeType, Clients, Connection, ParserType
  <1>4. Held' /\ Quiet' /\ Answered' /\ Reading' /\ Collected'
    BY <1>1, <1>2 DEF ExchangeInv, Held, Quiet, Untouched, Before, Answered, Reading, Collected
  <1> QED
    BY <1>2, <1>3, <1>4 DEF ExchangeInv

LEMMA DecodedStep == ASSUME ExchangeInv, Decoded PROVE ExchangeInv'
  <1>1. /\ place = "decode" /\ place' = "idle"
        /\ UNCHANGED <<request, target, client, closed_sockets, conn, server, asked,
                       parser, httpResponse, mishaps>>
    BY DEF Decoded, Go
  <1>2. ExchangeType'
    BY <1>1, InvFields DEF ExchangeType, Clients, Connection, ParserType
  <1>3. NoSocketLeft' /\ Held' /\ Quiet' /\ Answered' /\ Reading' /\ Collected'
    BY <1>1 DEF ExchangeInv, NoSocketLeft, Held, Quiet, Untouched, Before, Answered,
                Reading, Collected
  <1> QED
    BY <1>2, <1>3 DEF ExchangeInv

LEMMA ArrivesStep == ASSUME ExchangeInv, Arrives PROVE ExchangeInv'
  <1> DEFINE s == client.socket
             w == server.wire
             data == conn[s].data
  <1>1. /\ w # <<>> /\ s # "none" /\ conn[s].state = "open"
        /\ conn' = [conn EXCEPT ![s].data = Append(@, Head(w))]
        /\ server' = [server EXCEPT !.wire = Tail(@)]
        /\ UNCHANGED <<place, request, target, client, closed_sockets, asked, parser,
                       httpResponse, mishaps>>
    BY DEF Arrives
  <1>2. s \in Sockets /\ w \in Seq(Characters) /\ data \in Seq(Characters)
    BY <1>1, InvFields
  <1>3. Head(w) \in Characters /\ Tail(w) \in Seq(Characters)
    BY <1>1, <1>2
  <1> DEFINE d == Append(data, Head(w))
             new == [state |-> conn[s].state, data |-> d]
  <1>4. d \in Seq(Characters)
    BY <1>2, <1>3, AppendIs
  <1>5. conn[s] \in Connection
    BY <1>2, InvFields
  <1>6. new \in Connection /\ new.data = d /\ new.state = conn[s].state
    BY <1>4, <1>5 DEF Connection
  <1>7. conn' = [conn EXCEPT ![s] = new]
    <2>1. [conn[s] EXCEPT !.data = Append(@, Head(w))] = new
      BY <1>5 DEF Connection
    <2>2. conn' = [conn EXCEPT ![s] = [conn[s] EXCEPT !.data = Append(@, Head(w))]]
      BY <1>1
    <2> QED
      BY <2>1, <2>2, Zenon
  <1>8. /\ server'.reply = server.reply /\ server'.wire = Tail(w)
        /\ server' \in [reply : Responses \cup {NoServer.reply}, wire : Seq(Characters)]
    BY <1>1, <1>3, InvFields
  <1>9. conn' \in [Sockets -> Connection] /\ conn'[s] = new
        /\ \A u \in Sockets : conn'[u].state = conn[u].state
    <2> HIDE DEF new
    <2> QED
      BY <1>2, <1>6, <1>7, InvFields
  <1>10. conn'[s].data = d
    BY <1>6, <1>9
  <1>11. ExchangeType'
    <2>1. /\ place' \in {"idle", "lookup", "connect", "connected", "send", "await", "fetch",
                      "close", "decode"}
      BY <1>1 DEF ExchangeInv, ExchangeType
    <2> HIDE DEF new, d
    <2> QED
      BY <1>1, <1>8, <1>9, <2>1, InvFields DEF ExchangeType, Clients, Connection, ParserType
  <1>12. NoSocketLeft' /\ Held'
    BY <1>1, <1>9 DEF ExchangeInv, NoSocketLeft, Held
  \* The server sends only when it was asked.
  <1>13. ASSUME asked = 0, place \in Before \cup {"await"} \/ place = "fetch" PROVE FALSE
    <2>1. Untouched
      BY <1>1, <1>13 DEF ExchangeInv, Quiet
    <2> QED
      BY <1>1, <2>1, FreshType DEF Untouched
  <1>14. Quiet'
    <2>1. place' = place /\ asked' = asked
      BY <1>1
    <2>2. place \in Before => asked = 0
      BY DEF ExchangeInv, Quiet
    <2> QED
      BY <1>13, <2>1, <2>2 DEF Quiet
  <1>15. Answered' /\ Collected'
    BY <1>1, <1>8 DEF ExchangeInv, Answered, Collected
  <1>16. Reading'
    <2> SUFFICES ASSUME asked = 1, place \in {"await", "fetch"}
                 PROVE  Reading'
      BY <1>1 DEF Reading
    <2>1. PICK n \in 0..Len(Text(server.reply)) :
              /\ At(server.reply, n, parser, httpResponse)
              /\ Unread(client.rx, data, w, Text(server.reply), n)
      BY <1>1 DEF ExchangeInv, Reading
    <2>2. server.reply \in Responses /\ n \in Nat
      <3>1. server.reply \in Responses
        BY DEF ExchangeInv, Answered
      <3>2. Len(Text(server.reply)) \in Nat
        BY <3>1, TextBytes, LenProperties
      <3> QED
        BY <3>1, <3>2
    <2>3. Text(server.reply) \in Seq(Characters)
      BY <2>2, TextBytes
    <2>4. Unread(client.rx, d, Tail(w), Text(server.reply), n)
      BY <1>1, <1>2, <2>1, <2>2, <2>3, InvFields, UnreadArrives
    <2> HIDE DEF d
    <2>5. Unread(client'.rx, conn'[client'.socket].data, server'.wire, Text(server'.reply), n)
      BY <1>1, <1>8, <1>10, <2>4
    <2> QED
      BY <1>1, <1>8, <2>1, <2>5, Zenon DEF Reading
  <1> QED
    BY <1>11, <1>12, <1>14, <1>15, <1>16 DEF ExchangeInv

LEMMA LeavesStep == ASSUME ExchangeInv, Leaves PROVE ExchangeInv'
  <1> DEFINE s == client.socket
             data == conn[s].data
             new == [state |-> "left", data |-> data]
  <1>1. /\ s # "none" /\ conn[s].state = "open" /\ (Mishap \/ UNCHANGED mishaps)
        /\ conn' = [conn EXCEPT ![s].state = "left"]
        /\ server' = [server EXCEPT !.wire = <<>>]
        /\ closed_sockets' = closed_sockets \cup {s}
        /\ UNCHANGED <<place, request, target, client, asked, parser, httpResponse>>
    BY DEF Leaves, CC3000_UsynchCallback
  <1>2. s \in Sockets /\ data \in Seq(Characters) /\ conn[s] \in Connection
    BY <1>1, InvFields
  <1>3. new \in Connection /\ new.data = data
    BY <1>2 DEF Connection
  <1>4. conn' = [conn EXCEPT ![s] = new]
    <2>1. [conn[s] EXCEPT !.state = "left"] = new
      BY <1>2 DEF Connection
    <2>2. conn' = [conn EXCEPT ![s] = [conn[s] EXCEPT !.state = "left"]]
      BY <1>1
    <2> QED
      BY <2>1, <2>2, Zenon
  <1>5. /\ server'.reply = server.reply /\ server'.wire = <<>>
        /\ server' \in [reply : Responses \cup {NoServer.reply}, wire : Seq(Characters)]
    <2>1. <<>> \in Seq(Characters)
      OBVIOUS
    <2> QED
      BY <1>1, <2>1, InvFields
  <1>6. conn' \in [Sockets -> Connection] /\ conn'[s] = new
        /\ \A u \in Sockets : u # s => conn'[u] = conn[u]
    <2> HIDE DEF new
    <2> QED
      BY <1>2, <1>3, <1>4, InvFields
  <1>7. conn'[s].data = data
    BY <1>3, <1>6
  <1>8. ExchangeType'
    <2>1. /\ place' \in {"idle", "lookup", "connect", "connected", "send", "await", "fetch",
                      "close", "decode"}
      BY <1>1 DEF ExchangeInv, ExchangeType
    <2>2. mishaps' \in 0..Mishaps /\ closed_sockets' \subseteq Sockets
      BY <1>1, <1>2, InvFields, MishapBound
    <2> HIDE DEF new
    <2> QED
      BY <1>1, <1>5, <1>6, <2>1, <2>2, InvFields
         DEF ExchangeType, Clients, Connection, ParserType
  <1>9. NoSocketLeft' /\ Held'
    BY <1>1, <1>6 DEF ExchangeInv, NoSocketLeft, Held
  <1>10. Quiet'
    <2>1. ASSUME Untouched PROVE Untouched'
      <3>1. server = NoServer
        BY <2>1 DEF Untouched
      <3>2. server' = NoServer
        BY <1>1, <3>1 DEF NoServer
      <3> QED
        BY <1>1, <1>7, <2>1, <3>2 DEF Untouched
    <2>2. place' = place /\ asked' = asked /\ client' = client
      BY <1>1
    <2> QED
      BY <2>1, <2>2 DEF ExchangeInv, Quiet
  <1>11. Answered' /\ Collected'
    BY <1>1, <1>5 DEF ExchangeInv, Answered, Collected
  <1>12. Reading'
    <2> SUFFICES ASSUME asked = 1, place \in {"await", "fetch"}
                 PROVE  Reading'
      BY <1>1 DEF Reading
    <2>1. PICK n \in 0..Len(Text(server.reply)) :
              /\ At(server.reply, n, parser, httpResponse)
              /\ Unread(client.rx, data, server.wire, Text(server.reply), n)
      BY <1>1 DEF ExchangeInv, Reading
    <2>2. server.reply \in Responses /\ n \in Nat
      <3>1. server.reply \in Responses
        BY DEF ExchangeInv, Answered
      <3>2. Len(Text(server.reply)) \in Nat
        BY <3>1, TextBytes, LenProperties
      <3> QED
        BY <3>1, <3>2
    <2>3. Text(server.reply) \in Seq(Characters)
      BY <2>2, TextBytes
    <2>4. server'.wire \in Seq(Characters)
      BY <1>5
    <2>5. Unread(client.rx, data, server'.wire, Text(server.reply), n)
      BY <1>2, <1>5, <2>1, <2>2, <2>3, <2>4, InvFields, UnreadCut
    <2>6. Unread(client'.rx, conn'[client'.socket].data, server'.wire, Text(server'.reply), n)
      BY <1>1, <1>5, <1>7, <2>5
    <2> QED
      BY <1>1, <1>5, <2>1, <2>6, Zenon DEF Reading
  <1> QED
    BY <1>8, <1>9, <1>10, <1>11, <1>12 DEF ExchangeInv

---------------------------------------------------------------------------
(* A character of the reply, from the buffer or the socket: the n-th.       *)
LEMMA TakeByte ==
    ASSUME ExchangeInv, NEW r \in Responses, NEW n \in Nat, NEW c \in Characters,
           n + 1 <= Len(Text(r)), c = Text(r)[n + 1], Take(c),
           At(r, n, parser, httpResponse)
    PROVE  IF place' = "fetch"
           THEN At(r, n + 1, parser', httpResponse')
           ELSE UNCHANGED httpResponse
  <1> DEFINE q == Step(parser, c)
  <1>1. parser' = q
    BY DEF Take
  <1>2. parser \in ParserType /\ StatusAt(r, n, parser) /\ (n >= 5 => r.status = OK200)
        /\ HeaderAt(r, n, parser, httpResponse) /\ BodyAt(r, n, parser, httpResponse)
    BY InvFields DEF At
  <1>3. CASE OtherStatus(q)
    BY <1>3 DEF Take
  <1>4. CASE ~OtherStatus(q)
    <2>1. httpResponse' = IF Collects(q) THEN Append(httpResponse, c) ELSE httpResponse
      BY <1>4 DEF Take
    <2>2. StatusAt(r, n + 1, q) /\ (n + 1 >= 5 => r.status = OK200)
      BY <1>2, <1>4, StatusStep
    <2>3. HeaderAt(r, n + 1, q, httpResponse') /\ BodyAt(r, n + 1, q, httpResponse')
      BY <1>2, <2>1, HeaderStep, BodyStep
    <2>4. place' = "fetch"
      BY <1>4 DEF Take
    <2> HIDE DEF q
    <2> QED
      BY <1>1, <2>2, <2>3, <2>4 DEF At
  <1> QED
    BY <1>3, <1>4

LEMMA ByteTaken ==
    ASSUME ExchangeInv, place = "fetch", asked = 1, client.socket # "none",
           NEW r \in Responses, r = server.reply, NEW n \in Nat, NEW c \in Characters,
           n + 1 <= Len(Text(r)), c = Text(r)[n + 1], Take(c),
           At(r, n, parser, httpResponse),
           UNCHANGED <<request, target, closed_sockets, server, asked, mishaps>>,
           client' \in Clients, conn' \in [Sockets -> Connection],
           client'.socket = client.socket,
           \A u \in Sockets : conn'[u].state = conn[u].state,
           Unread(client'.rx, conn'[client'.socket].data, server'.wire, Text(r), n + 1)
    PROVE  ExchangeInv'
  <1>1. /\ parser' \in ParserType /\ Len(parser'.code) <= 3
        /\ httpResponse' \in Seq(Characters) /\ place' \in {"close", "fetch"}
    BY TakeType DEF ExchangeInv
  <1>2. ExchangeType'
    BY <1>1, InvFields DEF ExchangeType, Clients, Connection, ParserType
  <1>3. NoSocketLeft' /\ Held' /\ Quiet' /\ Answered'
    BY <1>1 DEF ExchangeInv, NoSocketLeft, Held, Quiet, Before, Answered
  <1>4. Len(Text(r)) \in Nat
    BY TextBytes, LenProperties
  <1>5. CASE place' = "fetch"
    <2>1. At(r, n + 1, parser', httpResponse')
      BY <1>5, TakeByte
    <2>2. n + 1 \in 0..Len(Text(r))
      BY <1>4
    <2>3. Reading'
      BY <2>1, <2>2 DEF Reading
    <2>4. Collected'
      BY <2>1, <2>2, AtBeginning DEF Collected
    <2> QED
      BY <1>2, <1>3, <2>3, <2>4 DEF ExchangeInv
  <1>6. CASE place' = "close"
    <2>1. UNCHANGED httpResponse
      <3>1. place' # "fetch"
        BY <1>6
      <3> QED
        BY <3>1, TakeByte
    <2>2. Reading'
      BY <1>6 DEF Reading
    <2>3. Collected'
      BY <2>1, CollectedKept DEF ExchangeInv
    <2> QED
      BY <1>2, <1>3, <2>2, <2>3 DEF ExchangeInv
  <1> QED
    BY <1>1, <1>5, <1>6

LEMMA ReadStep == ASSUME ExchangeInv, Read PROVE ExchangeInv'
  <1> DEFINE s == client.socket
             data == conn[s].data
             r == server.reply
  <1>1. /\ place = "fetch" /\ s # "none"
        /\ UNCHANGED <<request, target, closed_sockets, server, asked, mishaps>>
    BY AvailableHas DEF Read, Go
  <1>2. /\ s \in Sockets /\ data \in Seq(Characters) /\ client.rx \in Seq(Characters)
        /\ conn[s] \in Connection /\ client \in Clients
    BY <1>1, InvFields
  \* Nothing is there to be read before the server has answered.
  <1>3. ASSUME client.rx # <<>> \/ data # <<>>
        PROVE  /\ asked = 1 /\ r \in Responses /\ Text(r) \in Seq(Characters)
               /\ \E n \in Nat : /\ At(r, n, parser, httpResponse)
                                 /\ Unread(client.rx, data, server.wire, Text(r), n)
    <2>1. asked # 0
      BY <1>1, <1>3 DEF ExchangeInv, Quiet, Untouched
    <2>2. asked = 1 /\ r \in Responses
      BY <2>1 DEF ExchangeInv, Answered
    <2>3. Text(r) \in Seq(Characters) /\ Len(Text(r)) \in Nat
      BY <2>2, TextBytes, LenProperties
    <2>4. PICK n \in 0..Len(Text(r)) :
              /\ At(r, n, parser, httpResponse)
              /\ Unread(client.rx, data, server.wire, Text(r), n)
      BY <1>1, <2>2 DEF ExchangeInv, Reading
    <2>5. n \in Nat
      BY <2>3
    <2> QED
      BY <2>2, <2>3, <2>4, <2>5
  <1>4. CASE client.rx # <<>>
    <2>1. /\ Take(Head(client.rx)) /\ client' = [client EXCEPT !.rx = Tail(@)]
          /\ UNCHANGED conn
      BY <1>4 DEF Read
    <2>2. PICK n \in Nat : /\ At(r, n, parser, httpResponse)
                           /\ Unread(client.rx, data, server.wire, Text(r), n)
      BY <1>3, <1>4
    <2>3. asked = 1 /\ r \in Responses /\ Text(r) \in Seq(Characters)
      BY <1>3, <1>4
    <2>4. /\ n + 1 <= Len(Text(r)) /\ Head(client.rx) = Text(r)[n + 1]
          /\ Unread(Tail(client.rx), data, server.wire, Text(r), n + 1)
      BY <1>2, <1>4, <2>2, <2>3, InvFields, UnreadBuffer
    <2>5. Head(client.rx) \in Characters /\ Tail(client.rx) \in Seq(Characters)
      BY <1>2, <1>4
    <2>6. /\ client' \in Clients /\ client'.socket = s /\ client'.rx = Tail(client.rx)
      BY <1>2, <2>1, <2>5 DEF Clients
    <2>7. Unread(client'.rx, conn'[client'.socket].data, server'.wire, Text(r), n + 1)
      BY <1>1, <2>1, <2>4, <2>6
    <2>8. conn' \in [Sockets -> Connection] /\ \A u \in Sockets : conn'[u].state = conn[u].state
      BY <2>1, InvFields
    <2> HIDE DEF r, s, data
    <2>9. r = server.reply /\ client.socket # "none" /\ client'.socket = client.socket
      BY <1>1, <2>6 DEF r, s
    <2> QED
      BY <1>1, <2>1, <2>2, <2>3, <2>4, <2>5, <2>6, <2>7, <2>8, <2>9, ByteTaken
  <1>5. CASE client.rx = <<>> /\ data # <<>>
    <2> DEFINE new == [state |-> conn[s].state, data |-> <<>>]
    <2>1. /\ Take(Head(data)) /\ client' = [client EXCEPT !.rx = Tail(data)]
          /\ conn' = [conn EXCEPT ![s].data = <<>>]
      BY <1>5 DEF Read
    <2>2. PICK n \in Nat : /\ At(r, n, parser, httpResponse)
                           /\ Unread(client.rx, data, server.wire, Text(r), n)
      BY <1>3, <1>5
    <2>3. asked = 1 /\ r \in Responses /\ Text(r) \in Seq(Characters)
      BY <1>3, <1>5
    <2>4. /\ n + 1 <= Len(Text(r)) /\ Head(data) = Text(r)[n + 1]
          /\ Unread(Tail(data), client.rx, server.wire, Text(r), n + 1)
      BY <1>2, <1>5, <2>2, <2>3, InvFields, UnreadSocket
    <2>5. Head(data) \in Characters /\ Tail(data) \in Seq(Characters)
      BY <1>2, <1>5
    <2>6. /\ client' \in Clients /\ client'.socket = s /\ client'.rx = Tail(data)
      BY <1>2, <2>1, <2>5 DEF Clients
    <2>7. new \in Connection /\ new.data = client.rx /\ new.state = conn[s].state
      <3>1. <<>> \in Seq(Characters)
        OBVIOUS
      <3> QED
        BY <1>2, <1>5, <3>1 DEF Connection
    <2>8. conn' = [conn EXCEPT ![s] = new]
      <3>1. [conn[s] EXCEPT !.data = <<>>] = new
        BY <1>2 DEF Connection
      <3>2. conn' = [conn EXCEPT ![s] = [conn[s] EXCEPT !.data = <<>>]]
        BY <2>1
      <3> QED
        BY <3>1, <3>2, Zenon
    <2> HIDE DEF new
    <2>9. conn' \in [Sockets -> Connection] /\ conn'[s] = new
          /\ \A u \in Sockets : conn'[u].state = conn[u].state
      BY <1>2, <2>7, <2>8, InvFields
    <2>10. Unread(client'.rx, conn'[client'.socket].data, server'.wire, Text(r), n + 1)
      BY <1>1, <2>4, <2>6, <2>7, <2>9
    <2> HIDE DEF r, s, data
    <2>11. r = server.reply /\ client.socket # "none" /\ client'.socket = client.socket
      BY <1>1, <2>6 DEF r, s
    <2> QED
      BY <1>1, <2>1, <2>2, <2>3, <2>4, <2>5, <2>6, <2>9, <2>10, <2>11, ByteTaken
  <1>6. CASE client.rx = <<>> /\ data = <<>>
    <2>1. Take("NUL") /\ close
      BY <1>6 DEF Read
    <2>2. /\ client' = NoClient /\ client' \in Clients
          /\ conn' \in [Sockets -> Connection] /\ NoSocketLeft'
      BY <2>1, Closed DEF ExchangeInv
    <2>3. /\ parser' \in ParserType /\ Len(parser'.code) <= 3
          /\ httpResponse' \in Seq(Characters) /\ place' \in {"close", "fetch"}
      BY <2>1, TakeType, Marks DEF ExchangeInv
    <2>4. ExchangeType'
      BY <1>1, <2>2, <2>3, InvFields DEF ExchangeType, Clients, Connection, ParserType
    <2>5. Held' /\ Quiet' /\ Answered' /\ Reading'
      BY <1>1, <2>2, <2>3, FreshType DEF ExchangeInv, Held, Quiet, Before, Answered, Reading
    <2>6. Collected'
      <3>1. CASE UNCHANGED httpResponse
        BY <1>1, <3>1, CollectedKept DEF ExchangeInv
      <3>2. CASE ~UNCHANGED httpResponse
        <4>1. /\ httpResponse' = Append(httpResponse, "NUL")
              /\ Collects(Step(parser, "NUL"))
          BY <2>1, <3>2 DEF Take
        <4>2. asked # 0
          <5>1. ASSUME parser = Fresh PROVE FALSE
            BY <4>1, <5>1 DEF Collects, Step, BodyStarts, Fresh
          <5> QED
            BY <1>1, <5>1 DEF ExchangeInv, Quiet, Untouched
        <4>3. asked = 1 /\ r \in Responses
          BY <4>2 DEF ExchangeInv, Answered
        <4>4. PICK n \in 0..Len(Text(r)) : At(r, n, parser, httpResponse)
          BY <1>1, <4>3 DEF ExchangeInv, Reading
        <4>5. parser \in ParserType
          BY InvFields
        <4>6. r.status = OK200 /\ Beginning(Append(httpResponse, "NUL"), r.body)
          <5> HIDE DEF r
          <5> QED
            BY <4>1, <4>3, <4>4, <4>5, NulBeginning
        <4>7. server'.reply = r
          BY <1>1
        <4> QED
          BY <4>1, <4>6, <4>7 DEF Collected
      <3> QED
        BY <3>1, <3>2
    <2> QED
      BY <2>2, <2>4, <2>5, <2>6 DEF ExchangeInv
  <1> QED
    BY <1>4, <1>5, <1>6

---------------------------------------------------------------------------
LEMMA ExchangeStart == ASSUME ExchangeInit PROVE ExchangeInv
  <1>1. /\ place = "idle" /\ request \in Requests /\ target = FALSE /\ client = NoClient
        /\ closed_sockets = {} /\ conn = [s \in Sockets |-> Idle]
        /\ server = NoServer /\ asked = 0 /\ parser = Fresh /\ httpResponse = <<>>
        /\ mishaps = 0
    BY DEF ExchangeInit
  <1>2. conn \in [Sockets -> [state : {"free", "open", "left"}, data : Seq(Characters)]]
    BY <1>1, FreshType
  <1>3. <<>> \in Seq(Characters) /\ 0 \in 0..Mishaps
    <2>1. <<>> \in Seq(Characters)
      OBVIOUS
    <2>2. Mishaps \in Nat
      BY ExchangeAssumption
    <2> QED
      BY <2>1, <2>2
  <1>4. ExchangeType
    BY <1>1, <1>2, <1>3, FreshType DEF ExchangeType, ParserType
  <1>5. NoSocketLeft
    BY <1>1, FreshType DEF NoSocketLeft
  <1>6. Held /\ Quiet /\ Answered /\ Reading /\ Collected
    BY <1>1 DEF Held, Quiet, Before, Answered, Reading, Collected
  <1> QED
    BY <1>4, <1>5, <1>6 DEF ExchangeInv

LEMMA ExchangeStep == ASSUME ExchangeInv, [ExchangeNext]_exchangeVars PROVE ExchangeInv'
  <1>1. CASE UNCHANGED exchangeVars
    BY <1>1 DEF exchangeVars, ExchangeInv, ExchangeType, NoSocketLeft, Held, Quiet, Untouched,
                Answered, Reading, Collected
  <1>2. CASE SendData
    BY <1>2, BeginStep, LookupStep, ConnectStep, ConnectLoopStep, SendStep, AwaitStep,
       ReadStep, StopStep, CloseStep DEF SendData
  <1>3. CASE Arrives \/ Leaves \/ Decoded
    BY <1>3, ArrivesStep, LeavesStep, DecodedStep
  <1> QED
    BY <1>1, <1>2, <1>3 DEF ExchangeNext

(* Wherever an exchange is, fetchResponse is where the bytes it was given   *)
(* have brought it.                                                        *)
THEOREM ExchangeInvariant == ExchangeSpec => []ExchangeInv
  <1>1. ExchangeInit => ExchangeInv
    BY ExchangeStart
  <1>2. ExchangeInv /\ [ExchangeNext]_exchangeVars => ExchangeInv'
    BY ExchangeStep
  <1> QED
    BY <1>1, <1>2, PTL DEF ExchangeSpec

(* Every way out of BBWiFi::sendData has closed the socket of the exchange, *)
(* and none has more than one.                                             *)
THEOREM SocketsComeBack == ExchangeSpec => []NoSocketLeaked
  <1>1. ExchangeInv => NoSocketLeaked
    BY FreshType DEF ExchangeInv, NoSocketLeaked, Held
  <1> QED
    BY <1>1, ExchangeInvariant, PTL

(* What fetchResponse collected, up to the NUL that decodeResponse sees as  *)
(* its end, is the beginning of the body of the server's answer, and of an  *)
(* answer with another status than 200 it collected nothing.               *)
THEOREM BodyIsTheServers == ExchangeSpec => []BodyIsPrefix
  <1>1. ExchangeInv => BodyIsPrefix
    <2> SUFFICES ASSUME ExchangeInv, httpResponse # <<>>
                 PROVE  /\ server.reply.status = <<"2", "0", "0">>
                        /\ IsPrefix(Cut(httpResponse), server.reply.body)
      BY DEF ExchangeInv, BodyIsPrefix
    <2>1. server.reply.status = OK200 /\ Beginning(httpResponse, server.reply.body)
      BY DEF ExchangeInv, Collected
    <2>2. server.reply.body \in Seq(Characters)
      <3>1. CASE server.reply \in Responses
        BY <3>1, ReplyType
      <3>2. CASE server.reply = NoServer.reply
        BY <2>1, <3>2 DEF NoServer, OK200
      <3> QED
        BY <3>1, <3>2, InvFields
    <2> QED
      BY <2>1, <2>2, InvFields, CutIsPrefix DEF OK200
  <1> QED
    BY <1>1, ExchangeInvariant, PTL
=============================================================================
