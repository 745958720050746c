------------------------ MODULE FrameLinkClean_proofs -------------------------
(***************************************************************************)
(* Proofs about FrameLink as long as nothing but answers gets lost, for    *)
(* commands that fit: every command is executed and nothing else is.       *)
(***************************************************************************)
EXTENDS FrameLink_proofs

USE LinkAssumption

-----------------------------------------------------------------------------
(* The frame of a command, byte by byte.                                   *)

LEMMA FrameBytes ==
  ASSUME NEW c \in Cmds
  PROVE  /\ Frame(c) \in Seq(Byte) /\ Len(c) \in Nat /\ Len(Frame(c)) = Len(c) + 4
         /\ Frame(c)[1] = HEAD /\ Frame(c)[2] = Len(c) + 4
         /\ \A x \in 1 .. Len(c) : Frame(c)[x + 2] = c[x]
         /\ Frame(c)[Len(c) + 3] = Get_Sum8([x \in 1 .. Len(c) + 1 |-> Frame(c)[x + 1]])
         /\ Frame(c)[Len(c) + 4] = TAIL
<1> DEFINE n == Len(c) + 4
           body == <<n>> \o c
           sum == Get_Sum8(body)
           front == <<HEAD>> \o body
           f == front \o <<sum, TAIL>>
<1>1. c \in Seq(Byte) /\ n \in Byte /\ HEAD \in Byte /\ TAIL \in Byte /\ Len(c) \in Nat
  OBVIOUS
<1>2. body \in Seq(Byte) /\ Len(body) = Len(c) + 1 /\ body[1] = n
      /\ \A x \in 1 .. Len(c) : body[x + 1] = c[x]
  <2> HIDE DEF n
  <2> QED
    BY <1>1
<1>3. sum \in Byte
  BY <1>2, SumIsByte
<1> HIDE DEF body, sum
<1>4. front \in Seq(Byte) /\ Len(front) = Len(c) + 2 /\ front[1] = HEAD
      /\ \A x \in 1 .. Len(c) + 1 : front[x + 1] = body[x]
  BY <1>1, <1>2
<1> HIDE DEF front
<1>5. f \in Seq(Byte) /\ Len(f) = Len(c) + 4
      /\ \A x \in 1 .. Len(c) + 2 : f[x] = front[x]
      /\ f[Len(c) + 3] = sum /\ f[Len(c) + 4] = TAIL
  BY <1>1, <1>3, <1>4
<1>6. Frame(c) = f
  BY DEF Frame, f, front, body, sum, n
<1> HIDE DEF f
<1>7. \A x \in 1 .. Len(c) + 1 : f[x + 1] = body[x]
  <2>1. \A x \in 1 .. Len(c) + 1 : x + 1 \in 1 .. Len(c) + 2
    BY <1>1
  <2> QED
    BY <1>4, <1>5, <2>1
<1>8. [x \in 1 .. Len(c) + 1 |-> f[x + 1]] = body
  <2>1. body = [x \in 1 .. Len(c) + 1 |-> body[x]]
    BY <1>1, <1>2
  <2> QED
    BY <1>7, <2>1
<1>9. f[1] = HEAD /\ f[2] = Len(c) + 4 /\ \A x \in 1 .. Len(c) : f[x + 2] = c[x]
  <2>1. 1 \in 1 .. Len(c) + 1 /\ 1 \in 1 .. Len(c) + 2
    BY <1>1
  <2>2. f[1] = HEAD /\ f[2] = n
    BY <1>2, <1>4, <1>5, <1>7, <2>1
  <2>3. ASSUME NEW x \in 1 .. Len(c) PROVE f[x + 2] = c[x]
    <3>1. x + 1 \in 1 .. Len(c) + 1 /\ (x + 1) + 1 = x + 2
      BY <1>1
    <3>2. f[x + 2] = body[x + 1]
      BY <1>7, <3>1
    <3> QED
      BY <1>2, <3>2
  <2> QED
    BY <2>2, <2>3
<1>10. f[Len(c) + 3] = Get_Sum8([x \in 1 .. Len(c) + 1 |-> f[x + 1]])
  <2>1. f[Len(c) + 3] = Get_Sum8(body)
    BY <1>5 DEF sum
  <2> QED
    BY <1>8, <2>1, Zenon
<1> QED
  BY <1>1, <1>5, <1>6, <1>9, <1>10

-----------------------------------------------------------------------------
(* The ring, as long as there is room.                                     *)

LEMMA WrapOnward ==
  ASSUME NEW h \in Slots, NEW a \in Nat, NEW b \in Nat, a + b < Size
  PROVE  Wrap(Wrap(h + a) + b) = Wrap(h + (a + b))
<1>1. Wrap(h + a) = (IF h + a < Size THEN h + a ELSE h + a - Size) /\ Wrap(h + a) \in Slots
  BY WrapIs DEF Slots
<1>2. Wrap(h + (a + b)) = IF h + (a + b) < Size THEN h + (a + b) ELSE h + (a + b) - Size
  BY WrapIs DEF Slots
<1>3. Wrap(Wrap(h + a) + b)
        = IF Wrap(h + a) + b < Size THEN Wrap(h + a) + b ELSE Wrap(h + a) + b - Size
  BY <1>1, WrapIs DEF Slots
<1>4. CASE h + a < Size
  BY <1>1, <1>2, <1>3, <1>4 DEF Slots
<1>5. CASE h + a >= Size
  BY <1>1, <1>2, <1>3, <1>5 DEF Slots
<1> QED
  BY <1>4, <1>5 DEF Slots

(* A ring with n bytes from slot h on, read up to the m-th of them, takes  *)
(* one more behind them and keeps its head (usdl_buf.c 40-55).             *)
LEMMA AddedAppends ==
  ASSUME NEW r \in Rings, NEW b \in Byte, NEW h \in Slots, NEW n \in Nat, n + 1 < Size,
         NEW m \in 0 .. n, r.bTail = Wrap(h + n), r.bHead = Wrap(h + m)
  PROVE  /\ Added(r, b).bHead = r.bHead
         /\ Added(r, b).bTail = Wrap(h + (n + 1))
         /\ Added(r, b).buf[Wrap(h + n)] = b
         /\ \A j \in 0 .. n - 1 : Added(r, b).buf[Wrap(h + j)] = r.buf[Wrap(h + j)]
<1>1. n \in Slots /\ n + 1 \in Slots /\ m \in Slots /\ m # n + 1
  BY DEF Slots
<1>2. Wrap(r.bTail + 1) = Wrap(h + (n + 1)) /\ Wrap(h + n) \in Slots
  BY <1>1, Onward DEF Slots
<1>3. Wrap(r.bTail + 1) # r.bHead
  BY <1>1, <1>2, Apart
<1>4. Added(r, b).buf = [r.buf EXCEPT ![Wrap(h + n)] = b] /\ r.buf \in [Slots -> Byte]
  BY DEF Added, Rings
<1>5. ASSUME NEW j \in 0 .. n - 1
      PROVE  Added(r, b).buf[Wrap(h + j)] = r.buf[Wrap(h + j)]
  <2>1. j \in Slots /\ j # n
    BY DEF Slots
  <2>2. Wrap(h + j) # Wrap(h + n) /\ Wrap(h + j) \in Slots
    BY <1>1, <2>1, Apart, Onward
  <2> QED
    BY <1>2, <1>4, <2>2
<1> QED
  BY <1>2, <1>3, <1>4, <1>5 DEF Added

(* AddDataToBuf appends its bytes, if there is room (usdl_buf.c 67-76).    *)
LEMMA AddingAppends ==
  ASSUME NEW r \in Rings, NEW bytes \in Seq(Byte), NEW h \in Slots, r.bHead = h,
         NEW n \in Nat, r.bTail = Wrap(h + n), n + Len(bytes) < Size,
         NEW q, q = Adding(r, bytes)[Len(bytes)]
  PROVE  /\ q.bHead = h
         /\ q.bTail = Wrap(h + (n + Len(bytes)))
         /\ \A j \in 0 .. n - 1 : q.buf[Wrap(h + j)] = r.buf[Wrap(h + j)]
         /\ \A j \in 0 .. Len(bytes) - 1 : q.buf[Wrap(h + (n + j))] = bytes[j + 1]
<1> DEFINE m == Len(bytes)
           f == Adding(r, bytes)
           After(x) == /\ f[x] \in Rings
                       /\ f[x].bHead = h
                       /\ f[x].bTail = Wrap(h + (n + x))
                       /\ \A j \in 0 .. n - 1 : f[x].buf[Wrap(h + j)] = r.buf[Wrap(h + j)]
                       /\ \A j \in 0 .. x - 1 : f[x].buf[Wrap(h + (n + j))] = bytes[j + 1]
           S == {x \in Nat : x <= m => After(x)}
<1>1. m \in Nat /\ n + m < Size /\ \A x \in 1 .. m : bytes[x] \in Byte
  OBVIOUS
<1>2. AddingUpTo(r, bytes, m, f)
  BY <1>1, AddingDef
<1> HIDE DEF m, f
<1>3. \A x \in 0 .. m : f[x] = IF x = 0 THEN r ELSE Added(f[x - 1], bytes[x])
  BY <1>2 DEF AddingUpTo
<1>4. 0 \in S
  <2>1. f[0] = r
    BY <1>1, <1>3
  <2> QED
    BY <2>1
<1>5. ASSUME NEW x \in Nat, x \in S PROVE x + 1 \in S
  <2> SUFFICES ASSUME x + 1 <= m PROVE After(x + 1)
    OBVIOUS
  <2>1. After(x) /\ bytes[x + 1] \in Byte /\ n + x \in Nat /\ (n + x) + 1 < Size
    BY <1>1, <1>5
  <2>2. f[x + 1] = Added(f[x], bytes[x + 1])
    BY <1>1, <1>3
  <2>3. f[x + 1] \in Rings
    BY <2>1, <2>2, AddedIsRing
  <2>4. f[x].bHead = Wrap(h + 0)
    <3>1. h + 0 = h /\ Wrap(h) = h
      BY WrapIs DEF Slots
    <3> QED
      BY <2>1, <3>1
  <2>5. /\ f[x + 1].bHead = f[x].bHead
        /\ f[x + 1].bTail = Wrap(h + ((n + x) + 1))
        /\ f[x + 1].buf[Wrap(h + (n + x))] = bytes[x + 1]
        /\ \A j \in 0 .. (n + x) - 1 : f[x + 1].buf[Wrap(h + j)] = f[x].buf[Wrap(h + j)]
    <3>1. 0 \in 0 .. n + x /\ f[x] \in Rings /\ f[x].bTail = Wrap(h + (n + x))
      BY <2>1
    <3> DEFINE y == n + x
    <3>2. y \in Nat /\ y + 1 < Size /\ 0 \in 0 .. y /\ f[x].bTail = Wrap(h + y)
      BY <2>1, <3>1
    <3> HIDE DEF y
    <3>3. /\ Added(f[x], bytes[x + 1]).bHead = f[x].bHead
          /\ Added(f[x], bytes[x + 1]).bTail = Wrap(h + (y + 1))
          /\ Added(f[x], bytes[x + 1]).buf[Wrap(h + y)] = bytes[x + 1]
          /\ \A j \in 0 .. y - 1 :
               Added(f[x], bytes[x + 1]).buf[Wrap(h + j)] = f[x].buf[Wrap(h + j)]
      BY <2>1, <2>4, <3>1, <3>2, AddedAppends
    <3> QED
      BY <2>2, <3>3 DEF y
  <2>6. (n + x) + 1 = n + (x + 1)
    OBVIOUS
  <2>7. ASSUME NEW j \in 0 .. n - 1 PROVE f[x + 1].buf[Wrap(h + j)] = r.buf[Wrap(h + j)]
    <3>1. j \in 0 .. (n + x) - 1
      BY <1>5
    <3>2. f[x + 1].buf[Wrap(h + j)] = f[x].buf[Wrap(h + j)]
      BY <2>5, <3>1
    <3>3. f[x].buf[Wrap(h + j)] = r.buf[Wrap(h + j)]
      BY <2>1
    <3> QED
      BY <3>2, <3>3
  <2>8. ASSUME NEW j \in 0 .. (x + 1) - 1
        PROVE  f[x + 1].buf[Wrap(h + (n + j))] = bytes[j + 1]
    <3>1. CASE j = x
      BY <2>5, <3>1
    <3>2. CASE j # x
      <4>1. j \in 0 .. x - 1 /\ n + j \in 0 .. (n + x) - 1
        BY <3>2
      <4> QED
        BY <2>1, <2>5, <4>1
    <3> QED
      BY <3>1, <3>2
  <2> QED
    BY <2>1, <2>3, <2>5, <2>6, <2>7, <2>8
<1> HIDE DEF S
<1>6. Nat \subseteq S
  BY <1>4, <1>5, Induction
<1>7. After(m)
  BY <1>1, <1>6 DEF S
<1> QED
  BY <1>7 DEF m, f

-----------------------------------------------------------------------------
(* The invariant.                                                          *)

(* The frame under way and how much of it is in the ring, behind what was  *)
(* judged: from Base on, Stored bytes, of which the first Judged go.       *)
Base   == IF pc = "copy" THEN head ELSE bHead
Stored == Length(Base, bTail)
Judged == IF pc = "delete" THEN del ELSE 0
Got    == Stored - Judged

(* How much of a frame f has been sent when g bytes of it are in the ring  *)
(* and m messages on the line.                                             *)
Sent(f, g, m) == Lesser(g + Chunk * m, Len(f))

(* Ring, line and what is left to send hold the frame f between them.      *)
Holds(f) ==
  /\ Got \in 0 .. Len(f)
  /\ \A j \in 0 .. Got - 1 : buf[Wrap(Base + (Judged + j))] = f[j + 1]
  /\ \A m \in 1 .. Len(line) :
       /\ Sent(f, Got, m - 1) < Len(f)
       /\ line[m] = SubSeq(f, Sent(f, Got, m - 1) + 1, Sent(f, Got, m))
  /\ rest = SubSeq(f, Sent(f, Got, Len(line)) + 1, Len(f))

Nothing == Got = 0 /\ line = << >> /\ rest = << >>

UnderWay == /\ want \in Cmds
            /\ Holds(Frame(want))
            /\ ~(quiet /\ rest = << >>)

(* Where the loop is when nothing has been lost.                           *)
CleanPass ==
  /\ ~late
  /\ kind = "uart" => line = << >>
  /\ pc = "scan" => i = 0
  /\ pc \in {"copy", "scan", "wait"} => len > 0
  /\ pc \in {"copy", "scan", "delete", "wait"} => len + added < Size
  /\ pc = "wait" => len < Len(Frame(want))
  /\ pc = "delete" => ~quiet /\ \E c \in Cmds : del = Len(Frame(c))
  /\ Judged <= Stored

NothingLost == CleanPass /\ (Nothing \/ UnderWay)

CleanInv == LinkInv /\ NothingLost

(* A step does not end the frame under way.                                *)
KeepsGoing == UnderWay => UnderWay'

LEMMA SentIs ==
  ASSUME NEW f, Len(f) \in Nat, NEW g \in 0 .. Len(f), NEW m \in Nat
  PROVE  /\ Sent(f, g, m) \in g .. Len(f)
         /\ Sent(f, g, 0) = g
         /\ Sent(f, g, m + 1) = Lesser(Sent(f, g, m) + Chunk, Len(f))
         /\ Sent(f, Sent(f, g, 1), m) = Sent(f, g, m + 1)
         /\ m = LineSize /\ Len(f) <= Chunk * LineSize => Sent(f, g, m) = Len(f)
<1> DEFINE c == Chunk * m
<1>1. c \in Nat /\ Chunk * (m + 1) = c + Chunk /\ Chunk * 1 = Chunk /\ Chunk * 0 = 0
      /\ Chunk \in Nat
  OBVIOUS
<1>2. m = LineSize => c = Chunk * LineSize
  OBVIOUS
<1> HIDE DEF c
<1>3. Sent(f, g, m) = Lesser(g + c, Len(f)) /\ Sent(f, g, m + 1) = Lesser(g + (c + Chunk), Len(f))
  BY <1>1 DEF Sent, c
<1>4. Sent(f, g, 0) = g /\ Sent(f, g, 1) = Lesser(g + Chunk, Len(f))
  BY <1>1 DEF Sent, Lesser
<1>5. Sent(f, Sent(f, g, 1), m) = Lesser(Lesser(g + Chunk, Len(f)) + c, Len(f))
  BY <1>4 DEF Sent, c
<1> QED
  BY <1>1, <1>2, <1>3, <1>4, <1>5 DEF Lesser

LEMMA StoredIs ==
  ASSUME TypeOK
  PROVE  Base \in Slots /\ bTail \in Slots /\ Stored \in Slots /\ Wrap(Base + Stored) = bTail
<1>1. Base \in Slots /\ bTail \in Slots
  BY DEF TypeOK, Base, Slots
<1> QED
  BY <1>1, LengthFrom DEF Stored

(* In a pass: what was read, and what was added since.                     *)
LEMMA PassIs ==
  ASSUME CleanInv, pc \in {"copy", "scan", "delete", "wait"}
  PROVE  /\ Base = head /\ Stored = len + added /\ len \in Nat /\ added \in Nat
         /\ k \in 0 .. len
         /\ bHead = IF pc = "copy" THEN Wrap(head + k) ELSE head
         /\ \A j \in 0 .. k - 1 : shot[j] = buf[Wrap(head + j)]
<1>1. len \in Nat /\ added \in Nat /\ head \in Slots /\ k \in 0 .. len
  BY DEF CleanInv, LinkInv, TypeOK, Slots
<1>2. len + added < Size
  BY DEF CleanInv, NothingLost, CleanPass
<1>3. /\ bTail = Wrap(head + (len + added))
      /\ bHead = IF pc = "copy" THEN Wrap(head + k) ELSE head
      /\ \A j \in 0 .. k - 1 : shot[j] = buf[Wrap(head + j)]
  BY <1>2 DEF CleanInv, LinkInv, ReadInv
<1>4. Base = head
  BY <1>3 DEF Base
<1>5. Stored = len + added
  BY <1>1, <1>2, <1>3, <1>4, LengthIs DEF Stored, Slots
<1> QED
  BY <1>1, <1>3, <1>4, <1>5

LEMMA CleanInit == ASSUME Init PROVE NothingLost
<1>1. bHead = 0 /\ bTail = 0 /\ pc = "idle" /\ ~late /\ line = << >> /\ rest = << >>
  BY DEF Init
<1>2. Length(0, 0) = 0
  <2>1. 0 \in Slots /\ Wrap(0 + 0) = 0
    BY WrapIs DEF Slots
  <2> QED
    BY <2>1, LengthIs
<1>3. Got = 0 /\ Judged <= Stored
  BY <1>1, <1>2 DEF Got, Stored, Judged, Base
<1>4. CleanPass
  BY <1>1, <1>3 DEF CleanPass
<1> QED
  BY <1>1, <1>3, <1>4 DEF NothingLost, Nothing

(* The steps that move no byte.                                            *)
LEMMA NoneMoved ==
  ASSUME UNCHANGED <<buf, bTail, line, rest, want>>, Base' = Base, Judged' = Judged,
         Nothing \/ UnderWay, UnderWay => ~(quiet' /\ rest = << >>)
  PROVE  (Nothing \/ UnderWay)' /\ KeepsGoing /\ Stored' = Stored
<1>1. Stored' = Stored /\ Got' = Got
  BY DEF Stored, Got
<1>2. ASSUME Nothing PROVE Nothing'
  BY <1>1, <1>2 DEF Nothing
<1>3. ASSUME UnderWay PROVE UnderWay'
  <2>1. Holds(Frame(want))'
    BY <1>1, <1>3 DEF UnderWay, Holds
  <2> QED
    BY <1>1, <1>3, <2>1 DEF UnderWay
<1> QED
  BY <1>1, <1>2, <1>3 DEF KeepsGoing

LEMMA MeasureClean == ASSUME CleanInv, Measure PROVE NothingLost' /\ KeepsGoing
<1> USE DEF CleanInv, NothingLost
<1>1. pc = "measure" /\ UNCHANGED <<kind, ring, line, host, done>>
  BY DEF Measure, Return, Goto
<1>2. Base = bHead /\ Judged = 0 /\ ~late
  BY <1>1 DEF Base, Judged, CleanPass
<1>3. Stored \in Slots /\ bHead \in Slots /\ bTail \in Slots /\ Wrap(bHead + Stored) = bTail
  BY <1>2, StoredIs DEF LinkInv
<1>4. CASE bHead = bTail
  <2>1. pc' = "idle" /\ late' = FALSE /\ quiet' = (line = << >>)
    BY <1>4 DEF Measure, Return, Goto
  <2>2. Stored = 0
    <3>1. Wrap(bHead + 0) = bTail /\ 0 \in Slots
      BY <1>3, <1>4, WrapIs DEF Slots
    <3> QED
      BY <1>2, <1>3, <3>1, LengthIs DEF Stored
  <2>3. UnderWay => ~(quiet' /\ rest = << >>)
    <3> SUFFICES ASSUME UnderWay, line = << >>, rest = << >> PROVE FALSE
      BY <2>1
    <3> DEFINE f == Frame(want)
    <3>1. f \in Seq(Byte) /\ Len(f) \in Nat \ {0}
      <4>1. want \in Cmds
        BY DEF UnderWay
      <4>2. f \in Seq(Byte) /\ Len(want) \in Nat /\ Len(f) = Len(want) + 4
        BY <4>1, FrameBytes
      <4> QED
        BY <4>2
    <3>2. rest = SubSeq(f, Sent(f, 0, 0) + 1, Len(f))
      <4>1. Got = 0 /\ Len(line) = 0
        BY <1>2, <2>2 DEF Got
      <4>2. rest = SubSeq(f, Sent(f, Got, Len(line)) + 1, Len(f))
        BY DEF UnderWay, Holds
      <4> QED
        BY <4>1, <4>2
    <3>3. Sent(f, 0, 0) = 0
      <4> HIDE DEF f
      <4> QED
        BY <3>1, SentIs
    <3>4. rest = f
      <4> HIDE DEF f
      <4> QED
        BY <3>1, <3>2, <3>3, SubSeqFull
    <3> QED
      BY <3>1, <3>4
  <2>4. Base' = Base /\ Judged' = Judged
    BY <1>1, <1>2, <2>1 DEF Base, Judged, ring
  <2>5. (Nothing \/ UnderWay)' /\ KeepsGoing /\ Stored' = Stored
    BY <1>1, <2>3, <2>4, NoneMoved DEF ring, host
  <2>6. CleanPass'
    BY <1>1, <1>2, <2>1, <2>2, <2>4, <2>5 DEF CleanPass
  <2> QED
    BY <2>5, <2>6
<1>5. CASE bHead # bTail
  <2>1. /\ pc' = "copy" /\ len' = Stored /\ head' = bHead /\ late' = late
        /\ added' = added /\ quiet' = quiet /\ i' = i
    BY <1>2, <1>5 DEF Measure, Goto, Stored
  <2>2. Base' = Base /\ Judged' = Judged
    BY <1>2, <2>1 DEF Base, Judged
  <2>3. UnderWay => ~(quiet' /\ rest = << >>)
    BY <2>1 DEF UnderWay
  <2>4. (Nothing \/ UnderWay)' /\ KeepsGoing /\ Stored' = Stored
    BY <1>1, <2>2, <2>3, NoneMoved DEF ring, host
  <2>5. len' > 0 /\ len' + added' < Size
    <3>1. added = 0
      BY <1>1 DEF LinkInv, PassInv
    <3>2. Stored # 0
      <4>1. Wrap(bHead + 0) = bHead
        BY <1>3, WrapIs DEF Slots
      <4> QED
        BY <1>3, <1>5, <4>1
    <3> QED
      BY <1>3, <2>1, <3>1, <3>2 DEF Slots
  <2>6. CleanPass'
    BY <1>1, <1>2, <1>3, <2>1, <2>2, <2>4, <2>5 DEF CleanPass, Slots
  <2> QED
    BY <2>4, <2>6
<1> QED
  BY <1>4, <1>5

LEMMA CopyByteClean == ASSUME CleanInv, CopyByte PROVE NothingLost' /\ KeepsGoing
<1> USE DEF CleanInv, NothingLost
<1>1. /\ pc = "copy" /\ UNCHANGED <<kind, buf, bTail, line, pc, head, len, i, del, late, added>>
      /\ UNCHANGED <<want, rest, quiet>>
  BY DEF CopyByte, host
<1>2. Base' = Base /\ Judged' = Judged
  BY <1>1 DEF Base, Judged
<1>3. UnderWay => ~(quiet' /\ rest = << >>)
  BY <1>1 DEF UnderWay
<1>4. (Nothing \/ UnderWay)' /\ KeepsGoing /\ Stored' = Stored
  BY <1>1, <1>2, <1>3, NoneMoved
<1>5. CleanPass'
  BY <1>1, <1>2, <1>4 DEF CleanPass
<1> QED
  BY <1>4, <1>5

(* A pass that has read something has read the start of the frame.         *)
LEMMA ReadsFrame ==
  ASSUME Fits, CleanInv, pc \in {"copy", "scan", "wait"}
  PROVE  /\ UnderWay /\ want \in Cmds
         /\ Got = len + added /\ len + added <= Len(Frame(want))
         /\ len \in Nat /\ added \in Nat /\ len > 0
         /\ k \in 0 .. len /\ \A j \in 0 .. k - 1 : shot[j] = Frame(want)[j + 1]
<1>1. /\ Base = head /\ Stored = len + added /\ len \in Nat /\ added \in Nat /\ k \in 0 .. len
      /\ \A j \in 0 .. k - 1 : shot[j] = buf[Wrap(head + j)]
  BY PassIs
<1>2. len > 0 /\ Judged = 0
  BY DEF CleanInv, NothingLost, CleanPass, Judged
<1>3. Got = len + added
  BY <1>1, <1>2 DEF Got
<1>4. UnderWay
  BY <1>1, <1>2, <1>3 DEF CleanInv, NothingLost, Nothing
<1>5. /\ Got \in 0 .. Len(Frame(want))
      /\ \A j \in 0 .. Got - 1 : buf[Wrap(head + (0 + j))] = Frame(want)[j + 1]
  BY <1>1, <1>2, <1>4 DEF UnderWay, Holds
<1>6. ASSUME NEW j \in 0 .. k - 1 PROVE shot[j] = Frame(want)[j + 1]
  <2>1. j \in 0 .. Got - 1 /\ 0 + j = j
    BY <1>1, <1>3
  <2> QED
    BY <1>1, <1>5, <2>1
<1> QED
  BY <1>1, <1>2, <1>3, <1>4, <1>5, <1>6 DEF UnderWay

LEMMA FrameFits ==
  ASSUME Fits, NEW c \in Cmds
  PROVE  /\ Frame(c) \in Seq(Byte) /\ Len(Frame(c)) \in Nat
         /\ Len(Frame(c)) = Len(c) + 4 /\ Len(c) \in Nat
         /\ MinLen <= Len(Frame(c)) /\ Len(Frame(c)) <= MaxLen /\ Legal(Len(Frame(c)))
         /\ Len(Frame(c)) < Size
<1>1. Frame(c) \in Seq(Byte) /\ Len(c) \in Nat /\ Len(Frame(c)) = Len(c) + 4
  BY FrameBytes
<1>2. Legal(Len(Frame(c))) /\ Len(Frame(c)) + Len(Frame(c)) < Size
  BY DEF Fits
<1> QED
  BY <1>1, <1>2 DEF Legal

LEMMA CopiedClean == ASSUME Fits, CleanInv, Copied PROVE NothingLost' /\ KeepsGoing
<1> USE DEF CleanInv, NothingLost
<1>1. /\ pc = "copy" /\ pc' = (IF len >= MinLen THEN "scan" ELSE "wait") /\ bHead' = head
      /\ UNCHANGED <<kind, buf, bTail, line, len, i, late, added, want, rest, quiet>>
  BY DEF Copied, Goto, host, read
<1>2. Base' = Base /\ Judged' = Judged
  BY <1>1 DEF Base, Judged
<1>3. UnderWay => ~(quiet' /\ rest = << >>)
  BY <1>1 DEF UnderWay
<1>4. (Nothing \/ UnderWay)' /\ KeepsGoing /\ Stored' = Stored
  BY <1>1, <1>2, <1>3, NoneMoved
<1>5. len < MinLen => len < Len(Frame(want))
  <2>1. want \in Cmds /\ len \in Nat
    BY <1>1, ReadsFrame
  <2>2. MinLen <= Len(Frame(want)) /\ Len(Frame(want)) \in Nat
    BY <2>1, FrameFits
  <2> QED
    BY <2>1, <2>2
<1>6. i = 0 /\ len \in Nat
  BY <1>1 DEF LinkInv, PassInv, TypeOK
<1>7. CleanPass'
  BY <1>1, <1>2, <1>4, <1>5, <1>6 DEF CleanPass
<1> QED
  BY <1>4, <1>7

-----------------------------------------------------------------------------
(* The search.                                                             *)

(* It begins at the head of the frame, and reads its length.               *)
LEMMA ScanIs ==
  ASSUME Fits, CleanInv, pc = "scan"
  PROVE  /\ i = 0 /\ k = len /\ MinLen <= len
         /\ shot[0] = HEAD /\ LengthAt(0) = Len(Frame(want)) /\ Legal(LengthAt(0))
<1>1. i = 0 /\ k = len
  BY DEF CleanInv, NothingLost, CleanPass, LinkInv, PassInv
<1>2. want \in Cmds /\ len \in Nat /\ \A j \in 0 .. k - 1 : shot[j] = Frame(want)[j + 1]
  BY ReadsFrame
<1>3. MinLen <= len
  <2>1. PICK s \in 0 .. i : len - s >= MinLen
    BY DEF CleanInv, LinkInv, PlaceInv
  <2>2. s = 0
    BY <1>1, <2>1
  <2> QED
    BY <1>2, <2>1, <2>2
<1>4. shot[0] = Frame(want)[1] /\ shot[1] = Frame(want)[2]
  <2>1. 0 \in 0 .. k - 1 /\ 1 \in 0 .. k - 1
    BY <1>1, <1>2, <1>3
  <2> QED
    BY <1>2, <2>1
<1>5. /\ Frame(want)[1] = HEAD /\ Frame(want)[2] = Len(Frame(want))
      /\ Legal(Len(Frame(want)))
  BY <1>2, FrameBytes, FrameFits
<1>6. LengthAt(0) = shot[1]
  BY DEF LengthAt
<1> QED
  BY <1>1, <1>3, <1>4, <1>5, <1>6

LEMMA CleanStays == ASSUME Fits, CleanInv PROVE ScanInBounds
<1> SUFFICES ASSUME pc = "scan" PROVE i < len /\ i + 1 < len
  BY DEF ScanInBounds
<1>1. i = 0 /\ MinLen <= len /\ len \in Nat
  BY ScanIs, ReadsFrame
<1> QED
  BY <1>1

(* A frame read to its end is good.                                        *)
LEMMA GoodFrame ==
  ASSUME Fits, CleanInv, pc = "scan", AtLeast(0, LengthAt(0))
  PROVE  EndsWell(0) /\ CmdAt(0) = want /\ len = Len(Frame(want)) /\ added = 0
<1> DEFINE f == Frame(want)
           n == Len(want)
<1>1. /\ want \in Cmds /\ len \in Nat /\ added \in Nat /\ len + added <= Len(f)
      /\ \A j \in 0 .. len - 1 : shot[j] = f[j + 1]
  BY ReadsFrame, ScanIs
<1>2. LengthAt(0) = Len(f)
  BY ScanIs
<1>3. /\ n \in Nat /\ Len(f) = n + 4 /\ f[n + 4] = TAIL
      /\ f[n + 3] = Get_Sum8([x \in 1 .. n + 1 |-> f[x + 1]])
      /\ \A x \in 1 .. n : f[x + 2] = want[x]
      /\ want \in Seq(Byte)
  BY <1>1, FrameBytes
<1> HIDE DEF f
<1>4. len = Len(f) /\ added = 0
  BY <1>1, <1>2, <1>3 DEF AtLeast
<1>5. shot[n + 3] = f[n + 4] /\ shot[n + 2] = f[n + 3]
  <2>1. n + 3 \in 0 .. len - 1 /\ n + 2 \in 0 .. len - 1
    BY <1>3, <1>4
  <2> QED
    BY <1>1, <1>3, <2>1
<1>6. \A x \in 1 .. n + 1 : shot[0 + x] = f[x + 1]
  <2>1. \A x \in 1 .. n + 1 : x \in 0 .. len - 1 /\ 0 + x = x
    BY <1>3, <1>4
  <2> QED
    BY <1>1, <2>1
<1>7. [x \in 1 .. n + 1 |-> shot[0 + x]] = [x \in 1 .. n + 1 |-> f[x + 1]]
  BY <1>6
<1>8. EndsWell(0)
  <2>1. LengthAt(0) = n + 4 /\ 0 + (n + 4) - 1 = n + 3 /\ 0 + (n + 4) - 2 = n + 2
        /\ (n + 4) - 3 = n + 1
    BY <1>2, <1>3
  <2>2. shot[n + 2] = Get_Sum8([x \in 1 .. n + 1 |-> shot[0 + x]])
    BY <1>3, <1>5, <1>7
  <2>3. shot[n + 3] = TAIL
    BY <1>3, <1>5
  <2> HIDE DEF n
  <2> QED
    BY <2>1, <2>2, <2>3 DEF EndsWell
<1>9. CmdAt(0) = want
  <2>1. LengthAt(0) - 4 = n
    BY <1>2, <1>3
  <2>2. ASSUME NEW x \in 1 .. n PROVE shot[0 + 1 + x] = want[x]
    <3>1. x + 1 \in 1 .. n + 1 /\ 0 + 1 + x = 0 + (x + 1) /\ (x + 1) + 1 = x + 2
      BY <1>3
    <3>2. shot[0 + (x + 1)] = f[(x + 1) + 1]
      BY <1>6, <3>1
    <3> QED
      BY <1>3, <3>1, <3>2
  <2>3. want = [x \in 1 .. n |-> want[x]]
    BY <1>3
  <2> QED
    BY <2>1, <2>2, <2>3 DEF CmdAt
<1> QED
  BY <1>4, <1>8, <1>9 DEF f

(* What the search can come to.                                            *)
LEMMA SearchClean ==
  ASSUME Fits, CleanInv, Anylise
  PROVE  (Incomplete /\ pc' = "wait") \/ (Accept /\ AtLeast(0, LengthAt(0)))
<1>1. pc = "scan"
  BY DEF Anylise, Search, SkipLength, Incomplete, SkipFrame, Accept, Scanning
<1>2. i = 0 /\ shot[i] = HEAD /\ Legal(LengthAt(i))
  BY <1>1, ScanIs
<1>3. ~Search /\ ~SkipLength
  BY <1>2 DEF Search, SkipLength
<1>4. ~SkipFrame
  BY <1>1, <1>2, GoodFrame DEF SkipFrame, Complete
<1>5. Incomplete => pc' = "wait"
  BY <1>2 DEF Incomplete
<1>6. Accept => AtLeast(0, LengthAt(0))
  BY <1>2 DEF Accept, Complete
<1> QED
  BY <1>3, <1>4, <1>5, <1>6 DEF Anylise

LEMMA IncompleteClean == ASSUME Fits, CleanInv, Incomplete, pc' = "wait"
                         PROVE  NothingLost' /\ KeepsGoing
<1> USE DEF CleanInv, NothingLost
<1>1. pc = "scan" /\ ~AtLeast(i, LengthAt(i)) /\ UNCHANGED <<ring, kind, line, read, late, added, quiet>>
  BY DEF Incomplete, Scanning
<1>2. i = 0 /\ LengthAt(0) = Len(Frame(want)) /\ UNCHANGED <<i, del, want, rest>>
  BY <1>1, ScanIs DEF Incomplete, host
<1>3. want \in Cmds /\ len \in Nat /\ Len(Frame(want)) \in Nat
  BY <1>1, ReadsFrame, FrameFits
<1>4. len < Len(Frame(want))
  BY <1>1, <1>2, <1>3 DEF AtLeast
<1>5. Base' = Base /\ Judged' = Judged
  BY <1>1 DEF Base, Judged, ring
<1>6. UnderWay => ~(quiet' /\ rest = << >>)
  BY <1>1 DEF UnderWay
<1>7. (Nothing \/ UnderWay)' /\ KeepsGoing /\ Stored' = Stored
  BY <1>1, <1>2, <1>5, <1>6, NoneMoved DEF ring
<1>8. CleanPass'
  BY <1>1, <1>2, <1>4, <1>5, <1>7 DEF CleanPass, ring, read
<1> QED
  BY <1>7, <1>8

LEMMA AcceptClean ==
  ASSUME Fits, CleanInv, Accept, AtLeast(0, LengthAt(0))
  PROVE  NothingLost' /\ want \in Cmds /\ done' = want /\ del' = Len(Frame(want))
<1> USE DEF CleanInv, NothingLost
<1> DEFINE f == Frame(want)
<1>1. /\ pc = "scan" /\ pc' = "delete" /\ del' = i + LengthAt(i) /\ done' = CmdAt(i)
      /\ UNCHANGED <<kind, ring, line, read, late, added, quiet, i, rest>>
  BY DEF Accept, Scanning
<1>2. i = 0 /\ LengthAt(0) = Len(f) /\ CmdAt(0) = want /\ len = Len(f) /\ added = 0
  BY <1>1, ScanIs, GoodFrame
<1>3. /\ want \in Cmds /\ UnderWay /\ Got = Len(f) /\ len \in Nat
      /\ f \in Seq(Byte) /\ Len(f) \in Nat
  <2>1. want \in Cmds /\ UnderWay /\ Got = len + added /\ len \in Nat
    BY <1>1, ReadsFrame
  <2> QED
    BY <1>2, <2>1, FrameFits
<1>4. done' = want /\ del' = Len(f)
  BY <1>1, <1>2, <1>3
<1>5. \A m \in Nat : Sent(f, Got, m) = Len(f)
  <2> SUFFICES ASSUME NEW m \in Nat PROVE Sent(f, Got, m) = Len(f)
    OBVIOUS
  <2>1. Len(f) \in 0 .. Len(f)
    BY <1>3
  <2>2. Sent(f, Len(f), m) \in Len(f) .. Len(f)
    <3> HIDE DEF f
    <3> QED
      BY <1>3, <2>1, SentIs
  <2> QED
    BY <1>3, <2>2
<1>6. line = << >>
  <2>1. line \in Seq(Seq(Byte))
    BY DEF LinkInv, TypeOK
  <2>2. \A m \in 1 .. Len(line) : Sent(f, Got, m - 1) < Len(f)
    BY <1>3 DEF UnderWay, Holds
  <2>3. ~(1 \in 1 .. Len(line))
    <3>1. Sent(f, Got, 1 - 1) = Len(f)
      BY <1>5
    <3> QED
      BY <1>3, <2>2, <3>1
  <2> QED
    BY <2>1, <2>3
<1>7. rest = << >>
  <2>1. rest = SubSeq(f, Sent(f, Got, Len(line)) + 1, Len(f))
    BY <1>3 DEF UnderWay, Holds
  <2>2. Len(line) = 0
    BY <1>6
  <2>3. rest = SubSeq(f, Len(f) + 1, Len(f))
    BY <1>5, <2>1, <2>2
  <2> HIDE DEF f
  <2> QED
    BY <1>3, <2>3
<1>8. ~quiet
  BY <1>3, <1>7 DEF UnderWay
<1>9. Stored' = Stored /\ Judged' = Len(f) /\ Stored = Len(f)
  <2>1. Base' = Base /\ bTail' = bTail
    BY <1>1 DEF Base, ring
  <2>2. Stored' = Stored
    BY <2>1 DEF Stored
  <2>3. Stored = Len(f)
    BY <1>1, <1>2, <1>3, PassIs
  <2> QED
    BY <1>1, <1>4, <2>2, <2>3 DEF Judged
<1>10. Got' = 0
  BY <1>3, <1>9 DEF Got
<1>11. CleanPass'
  BY <1>1, <1>2, <1>3, <1>4, <1>8, <1>9 DEF CleanPass, read
<1> QED
  BY <1>1, <1>3, <1>4, <1>6, <1>7, <1>10, <1>11 DEF Nothing

-----------------------------------------------------------------------------
(* The end of a pass.                                                      *)

LEMMA DeleteClean == ASSUME Fits, CleanInv, Delete PROVE NothingLost' /\ KeepsGoing
<1> USE DEF CleanInv, NothingLost
<1>1. /\ pc = "delete" /\ pc' = "idle" /\ late' = FALSE
      /\ bHead' = Wrap(bHead + Lesser(del, Length(bHead, bTail)))
      /\ UNCHANGED <<kind, buf, bTail, line, want, rest, quiet>>
  BY DEF Delete, Return, Goto, host
<1>2. Base = bHead /\ Judged = del /\ Stored = Length(bHead, bTail)
  BY <1>1 DEF Base, Judged, Stored
<1>3. /\ bHead \in Slots /\ Stored \in Slots /\ Wrap(bHead + Stored) = bTail
      /\ del \in Nat /\ del <= Stored
  BY <1>1, <1>2, StoredIs DEF LinkInv, TypeOK, CleanPass
<1>4. bHead' = Wrap(bHead + del) /\ bHead' \in Slots
  <2>1. del \in Slots /\ Lesser(del, Stored) = del
    BY <1>3 DEF Lesser, Slots
  <2>2. bHead' = Wrap(bHead + Lesser(del, Stored))
    BY <1>1, <1>2
  <2> QED
    BY <1>3, <2>1, <2>2, Onward
<1>5. Got \in Slots /\ Got = Stored - del /\ del + Got = Stored
  <2>1. Got = Stored - del
    BY <1>2 DEF Got
  <2> QED
    BY <1>3, <2>1 DEF Slots
<1>6. bTail = Wrap(bHead' + Got)
  <2>1. bHead \in Slots /\ del \in Nat /\ Got \in Nat /\ del + Got < Size
    BY <1>3, <1>5 DEF Slots
  <2>2. Wrap(Wrap(bHead + del) + Got) = Wrap(bHead + (del + Got))
    BY <2>1, WrapOnward
  <2> QED
    BY <1>3, <1>4, <1>5, <2>2
<1>7. Base' = bHead' /\ Judged' = 0
  BY <1>1 DEF Base, Judged
<1>8. Stored' = Got /\ Got' = Got
  <2>1. Stored' = Length(bHead', bTail)
    BY <1>1, <1>7 DEF Stored
  <2>2. Stored' = Got
    BY <1>4, <1>5, <1>6, <2>1, LengthIs
  <2> QED
    BY <1>5, <1>7, <2>2 DEF Got, Slots
<1>9. (Nothing \/ UnderWay)' /\ KeepsGoing
  <2>1. ASSUME Nothing PROVE Nothing'
    BY <1>1, <1>8, <2>1 DEF Nothing
  <2>2. ASSUME UnderWay PROVE UnderWay'
    <3>1. /\ Got \in 0 .. Len(Frame(want))
          /\ \A j \in 0 .. Got - 1 : buf[Wrap(bHead + (del + j))] = Frame(want)[j + 1]
      BY <1>2, <2>2 DEF UnderWay, Holds
    <3>2. ASSUME NEW j \in 0 .. Got - 1
          PROVE  buf[Wrap(bHead' + (0 + j))] = Frame(want)[j + 1]
      <4>1. j \in Nat /\ del + j < Size /\ 0 + j = j
        BY <1>3, <1>5 DEF Slots
      <4>2. Wrap(bHead' + j) = Wrap(bHead + (del + j))
        BY <1>3, <1>4, <4>1, WrapOnward
      <4> QED
        BY <3>1, <4>1, <4>2
    <3>3. Holds(Frame(want))'
      BY <1>1, <1>7, <1>8, <2>2, <3>1, <3>2 DEF UnderWay, Holds
    <3> QED
      BY <1>1, <2>2, <3>3 DEF UnderWay
  <2> QED
    BY <2>1, <2>2 DEF KeepsGoing
<1>10. CleanPass'
  BY <1>1, <1>5, <1>7, <1>8 DEF CleanPass, Slots
<1> QED
  BY <1>9, <1>10

(* A frame that is partly in the ring, with nothing on the line, is partly *)
(* still to be sent.                                                       *)
LEMMA MoreComes ==
  ASSUME Fits, UnderWay, line = << >>, Got < Len(Frame(want))
  PROVE  /\ rest = SubSeq(Frame(want), Got + 1, Len(Frame(want)))
         /\ rest # << >>
<1> DEFINE f == Frame(want)
<1>1. f \in Seq(Byte) /\ Len(f) \in Nat /\ Got \in 0 .. Len(f)
  BY FrameFits DEF UnderWay, Holds
<1>2. rest = SubSeq(f, Sent(f, Got, 0) + 1, Len(f))
  <2>1. Len(line) = 0
    OBVIOUS
  <2>2. rest = SubSeq(f, Sent(f, Got, Len(line)) + 1, Len(f))
    BY DEF UnderWay, Holds
  <2> QED
    BY <2>1, <2>2
<1>3. Got < Len(f)
  OBVIOUS
<1> HIDE DEF f
<1>4. Sent(f, Got, 0) = Got
  BY <1>1, SentIs
<1>5. Got + 1 \in 1 .. Len(f)
  BY <1>1, <1>3
<1>6. Len(rest) = Len(f) - Got
  BY <1>1, <1>2, <1>4, <1>5
<1>7. rest # << >>
  <2>1. Len(<< >>) = 0
    OBVIOUS
  <2> QED
    BY <1>1, <1>3, <1>6, <2>1
<1> QED
  BY <1>2, <1>4, <1>7 DEF f

LEMMA WaitClean == ASSUME Fits, CleanInv, Wait PROVE NothingLost' /\ KeepsGoing
<1> USE DEF CleanInv, NothingLost
<1>1. pc = "wait" /\ ~late
  BY DEF Wait, Return, Goto, CleanPass
<1>2. /\ pc' = "idle" /\ late' = FALSE
      /\ quiet' = (len = Length(bHead, bTail) /\ line = << >>)
      /\ UNCHANGED <<kind, buf, bHead, bTail, line, want, rest>>
  BY <1>1 DEF Wait, Return, Goto, ring, host
<1>3. Base' = Base /\ Judged' = Judged /\ Base = bHead /\ Judged = 0
  BY <1>1, <1>2 DEF Base, Judged
<1>4. /\ Got = len + added /\ len \in Nat /\ added \in Nat /\ want \in Cmds
      /\ len < Len(Frame(want))
  BY <1>1, ReadsFrame DEF CleanPass
<1>5. UnderWay => ~(quiet' /\ rest = << >>)
  <2> SUFFICES ASSUME UnderWay, quiet' PROVE rest # << >>
    OBVIOUS
  <2>1. line = << >> /\ len = Stored
    BY <1>2, <1>3 DEF Stored
  <2>2. Got = len
    BY <1>3, <1>4, <2>1, StoredIs DEF Got, LinkInv, Slots
  <2> QED
    BY <1>4, <2>1, <2>2, MoreComes
<1>6. (Nothing \/ UnderWay)' /\ KeepsGoing /\ Stored' = Stored
  BY <1>2, <1>3, <1>5, NoneMoved
<1>7. CleanPass'
  BY <1>2, <1>3, <1>6 DEF CleanPass
<1> QED
  BY <1>6, <1>7

-----------------------------------------------------------------------------
(* Bytes and messages arrive, and there is room for them.                  *)

LEMMA Room ==
  ASSUME Fits, CleanInv, UnderWay
  PROVE  Judged \in Nat /\ Judged + Len(Frame(want)) < Size
<1>1. want \in Cmds /\ Len(Frame(want)) \in Nat /\ Len(Frame(want)) < Size
  BY FrameFits DEF UnderWay
<1>2. CASE pc = "delete"
  <2>1. PICK c \in Cmds : del = Len(Frame(c))
    BY <1>2 DEF CleanInv, NothingLost, CleanPass
  <2>2. Len(Frame(c)) + Len(Frame(want)) < Size
    BY <1>1 DEF Fits
  <2>3. Len(Frame(c)) \in Nat
    BY FrameFits
  <2> QED
    BY <1>2, <2>1, <2>2, <2>3 DEF Judged
<1>3. CASE pc # "delete"
  BY <1>1, <1>3 DEF Judged
<1> QED
  BY <1>2, <1>3

LEMMA InterruptClean ==
  ASSUME Fits, CleanInv, Interrupt, faults' = faults
  PROVE  NothingLost' /\ KeepsGoing
<1> USE DEF CleanInv, NothingLost
<1> DEFINE f == Frame(want)
<1>1. faults \in Nat
  BY DEF LinkInv, TypeOK
<1>2. /\ kind = "uart" /\ rest # << >> /\ Add(<<rest[1]>>) /\ quiet' = FALSE /\ rest' = Tail(rest)
      /\ UNCHANGED <<kind, line, pc, head, k, len, i, del, late, want>>
  BY <1>1 DEF Interrupt, Fault, loop, read
<1>3. line = << >> /\ UnderWay
  BY <1>2 DEF Nothing, CleanPass
<1>4. want \in Cmds /\ f \in Seq(Byte) /\ Len(f) \in Nat /\ Len(f) < Size /\ Got \in 0 .. Len(f)
  BY <1>3, FrameFits DEF UnderWay, Holds
<1>5. Got < Len(f)
  <2> SUFFICES ASSUME Got = Len(f) PROVE FALSE
    BY <1>4
  <2>1. rest = SubSeq(f, Sent(f, Got, 0) + 1, Len(f))
    <3>1. Len(line) = 0
      BY <1>3
    <3>2. rest = SubSeq(f, Sent(f, Got, Len(line)) + 1, Len(f))
      BY <1>3 DEF UnderWay, Holds
    <3> QED
      BY <3>1, <3>2
  <2> HIDE DEF f
  <2>2. Sent(f, Got, 0) = Got
    BY <1>4, SentIs
  <2> QED
    BY <1>2, <1>4, <2>1, <2>2
<1>6. rest = SubSeq(f, Got + 1, Len(f))
  BY <1>3, <1>5, MoreComes
<1>7. rest[1] = f[Got + 1] /\ rest' = SubSeq(f, (Got + 1) + 1, Len(f))
  <2> HIDE DEF f
  <2>1. Got + 1 \in 1 .. Len(f) /\ Len(f) \in Got + 1 .. Len(f)
    BY <1>4, <1>5
  <2>2. Head(rest) = f[Got + 1] /\ Tail(rest) = SubSeq(f, (Got + 1) + 1, Len(f))
    BY <1>4, <1>6, <2>1, HeadTailOfSubSeq
  <2>3. Head(rest) = rest[1]
    BY <1>2 DEF LinkInv, TypeOK
  <2> QED
    BY <1>2, <2>2, <2>3
<1>8. rest[1] \in Byte
  <2> HIDE DEF f
  <2> QED
    BY <1>4, <1>5, <1>7
<1>9. /\ Base \in Slots /\ Stored \in Slots /\ bTail = Wrap(Base + Stored)
      /\ Now \in Rings /\ Judged \in Nat /\ Stored = Judged + Got /\ Stored + 1 < Size
  <2>1. Base \in Slots /\ Stored \in Slots /\ bTail = Wrap(Base + Stored) /\ Now \in Rings
    BY StoredIs, NowIsRing DEF LinkInv
  <2>2. Judged \in Nat /\ Judged + Len(f) < Size
    BY <1>3, Room
  <2>3. Stored = Judged + Got
    BY <2>1, <2>2 DEF Got, Slots
  <2> HIDE DEF f
  <2> QED
    BY <1>4, <1>5, <2>1, <2>2, <2>3
<1> DEFINE m == IF pc = "copy" THEN k ELSE 0
<1>10. m \in 0 .. Stored /\ bHead = Wrap(Base + m)
  <2>1. CASE pc = "copy"
    BY <2>1, PassIs
  <2>2. CASE pc # "copy"
    BY <1>9, <2>2, WrapIs DEF Base, Slots
  <2> QED
    BY <2>1, <2>2
<1> HIDE DEF m
<1> DEFINE q == Added(Now, rest[1])
<1>11. /\ q.bHead = bHead /\ q.bTail = Wrap(Base + (Stored + 1))
       /\ q.buf[Wrap(Base + Stored)] = rest[1]
       /\ \A j \in 0 .. Stored - 1 : q.buf[Wrap(Base + j)] = buf[Wrap(Base + j)]
  <2>1. Now.bTail = Wrap(Base + Stored) /\ Now.bHead = Wrap(Base + m) /\ Now.buf = buf
        /\ Now.bHead = bHead /\ Stored \in Nat
    BY <1>9, <1>10 DEF Now, Slots
  <2> HIDE DEF q
  <2>2. /\ Added(Now, rest[1]).bHead = Now.bHead
        /\ Added(Now, rest[1]).bTail = Wrap(Base + (Stored + 1))
        /\ Added(Now, rest[1]).buf[Wrap(Base + Stored)] = rest[1]
        /\ \A j \in 0 .. Stored - 1 :
             Added(Now, rest[1]).buf[Wrap(Base + j)] = Now.buf[Wrap(Base + j)]
    <3>1. Now \in Rings /\ rest[1] \in Byte /\ Base \in Slots /\ Stored \in Nat
          /\ Stored + 1 < Size /\ m \in 0 .. Stored
      BY <1>8, <1>9, <1>10, <2>1
    <3>2. Now.bTail = Wrap(Base + Stored) /\ Now.bHead = Wrap(Base + m)
      BY <2>1
    <3> QED
      BY <3>1, <3>2, AddedAppends
  <2> QED
    BY <2>1, <2>2 DEF q
<1>12. /\ buf' = q.buf /\ bHead' = q.bHead /\ bTail' = q.bTail
       /\ added' = IF pc \in {"idle", "measure"} THEN 0 ELSE Lesser(added + 1, Size)
  <2>1. Len(<<rest[1]>>) = 1 /\ Adding(Now, <<rest[1]>>)[1] = q
    BY AddingOne
  <2> QED
    BY <1>2, <2>1 DEF Add
<1> HIDE DEF q
<1>13. Base' = Base /\ Judged' = Judged
  BY <1>2, <1>11, <1>12 DEF Base, Judged
<1>14. Stored' = Stored + 1 /\ Got' = Got + 1
  <2>1. Stored + 1 \in Slots
    BY <1>9 DEF Slots
  <2>2. Stored' = Stored + 1
    BY <1>9, <1>11, <1>12, <1>13, <2>1, LengthIs DEF Stored
  <2> QED
    BY <1>9, <1>13, <2>2 DEF Got, Slots
<1>15. Holds(Frame(want))'
  <2>1. Got' \in 0 .. Len(f)
    BY <1>4, <1>5, <1>14
  <2>2. ASSUME NEW j \in 0 .. Got PROVE buf'[Wrap(Base + (Judged + j))] = f[j + 1]
    <3>1. CASE j = Got
      BY <1>7, <1>9, <1>11, <1>12, <3>1
    <3>2. CASE j # Got
      <4>1. j \in 0 .. Got - 1 /\ Judged + j \in 0 .. Stored - 1
        BY <1>4, <1>9, <3>2
      <4>2. buf[Wrap(Base + (Judged + j))] = f[j + 1]
        BY <1>3, <4>1 DEF UnderWay, Holds
      <4> QED
        BY <1>11, <1>12, <4>1, <4>2
    <3> QED
      BY <3>1, <3>2
  <2>3. Got' - 1 = Got
    BY <1>4, <1>14
  <2>4. Sent(f, Got', 0) = Got'
    <3> HIDE DEF f
    <3> QED
      BY <1>4, <2>1, SentIs
  <2>5. Len(line) = 0 /\ line' = line
    BY <1>2, <1>3
  <2>6. rest' = SubSeq(f, Sent(f, Got', Len(line)) + 1, Len(f))
    BY <1>7, <1>14, <2>4, <2>5
  <2>7. \A j \in 0 .. Got' - 1 : buf'[Wrap(Base' + (Judged' + j))] = f[j + 1]
    BY <1>13, <2>2, <2>3
  <2>8. want' = want
    BY <1>2
  <2>9. \A x \in 1 .. Len(line') : FALSE
    BY <2>5
  <2> QED
    BY <2>1, <2>5, <2>6, <2>7, <2>8, <2>9 DEF Holds
<1>16. UnderWay'
  BY <1>2, <1>4, <1>15 DEF UnderWay
<1>17. CleanPass'
  <2>1. ASSUME pc \in {"copy", "scan", "delete", "wait"} PROVE len + added' < Size
    <3>1. Stored = len + added /\ len \in Nat /\ added \in Nat
      BY <2>1, PassIs
    <3>2. added' = Lesser(added + 1, Size)
      BY <1>12, <2>1
    <3> QED
      BY <1>9, <3>1, <3>2 DEF Lesser
  <2>2. Judged' <= Stored'
    BY <1>9, <1>13, <1>14 DEF CleanPass, Slots
  <2> QED
    BY <1>2, <2>1, <2>2 DEF CleanPass
<1> QED
  BY <1>16, <1>17 DEF KeepsGoing

(* What a frame still has to send, and a message of it.                    *)
LEMMA Piece ==
  ASSUME NEW f \in Seq(Byte), NEW a \in Nat, a < Len(f), NEW n \in 1 .. Len(f) - a,
         NEW s, s = SubSeq(f, a + 1, Len(f))
  PROVE  /\ Len(s) = Len(f) - a
         /\ SubSeq(s, 1, n) = SubSeq(f, a + 1, a + n)
         /\ SubSeq(s, n + 1, Len(s)) = SubSeq(f, a + n + 1, Len(f))
<1>1. Len(f) \in Nat /\ a + 1 \in 1 .. Len(f) /\ Len(f) \in 1 .. Len(f)
      /\ Len(f) - (a + 1) + 1 = Len(f) - a
  OBVIOUS
<1>2. s \in Seq(Byte) /\ Len(s) = Len(f) - a
  BY <1>1
<1>3. 1 \in 1 .. Len(f) - (a + 1) + 1 /\ n \in 1 .. Len(f) - (a + 1) + 1
  BY <1>1
<1>4. SubSeq(s, 1, n) = SubSeq(f, a + 1, a + n)
  <2>1. SubSeq(s, 1, n) = SubSeq(f, (a + 1) + 1 - 1, (a + 1) + n - 1)
    BY <1>1, <1>2, <1>3, SubSeqOfSubSeq
  <2>2. (a + 1) + 1 - 1 = a + 1 /\ (a + 1) + n - 1 = a + n
    OBVIOUS
  <2> QED
    BY <2>1, <2>2
<1>5. SubSeq(s, n + 1, Len(s)) = SubSeq(f, a + n + 1, Len(f))
  <2>1. CASE n = Len(f) - a
    <3>1. Len(s) < n + 1 /\ Len(f) < a + n + 1 /\ n + 1 \in Int /\ Len(s) \in Int
          /\ a + n + 1 \in Int /\ Len(f) \in Int
      BY <1>1, <1>2, <2>1
    <3>2. SubSeq(s, n + 1, Len(s)) = << >>
      BY <3>1, SubSeqEmpty
    <3>3. SubSeq(f, a + n + 1, Len(f)) = << >>
      BY <3>1, SubSeqEmpty
    <3> QED
      BY <3>2, <3>3
  <2>2. CASE n # Len(f) - a
    <3>1. n + 1 \in 1 .. Len(f) - (a + 1) + 1 /\ Len(s) \in 1 .. Len(f) - (a + 1) + 1
      <4>1. Len(f) \in Nat /\ Len(s) = Len(f) - a
        BY <1>1, <1>2
      <4>2. n + 1 \in 1 .. Len(f) - (a + 1) + 1
        <5> DEFINE l == Len(f)
        <5>1. l \in Nat /\ n \in 1 .. l - a /\ n # l - a
          BY <4>1, <2>2
        <5> HIDE DEF l
        <5>2. n + 1 \in 1 .. l - (a + 1) + 1
          BY <5>1
        <5> QED
          BY <5>2 DEF l
      <4> QED
        BY <1>3, <4>1, <4>2
    <3>2. SubSeq(s, n + 1, Len(s)) = SubSeq(f, (a + 1) + (n + 1) - 1, (a + 1) + Len(s) - 1)
      BY <1>1, <1>2, <3>1, SubSeqOfSubSeq
    <3>3. (a + 1) + (n + 1) - 1 = a + n + 1 /\ (a + 1) + Len(s) - 1 = Len(f)
      BY <1>1, <1>2
    <3> QED
      BY <3>2, <3>3
  <2> QED
    BY <2>1, <2>2
<1> QED
  BY <1>2, <1>4, <1>5

LEMMA MessageClean ==
  ASSUME Fits, CleanInv, Message, faults' = faults
  PROVE  NothingLost' /\ KeepsGoing
<1> USE DEF CleanInv, NothingLost
<1> DEFINE f == Frame(want)
           n == Lesser(Chunk, Len(rest))
           a == Sent(f, Got, Len(line))
<1>1. faults \in Nat /\ line \in Seq(Seq(Byte)) /\ Len(line) \in Nat
  BY DEF LinkInv, TypeOK
<1>2. /\ kind = "can" /\ rest # << >> /\ quiet' = FALSE
      /\ line' = Append(IF Len(line) = LineSize THEN Tail(line) ELSE line, SubSeq(rest, 1, n))
      /\ rest' = SubSeq(rest, n + 1, Len(rest))
      /\ UNCHANGED <<kind, ring, pc, head, len, i, del, late, added, want>>
  BY <1>1 DEF Message, Fault, loop, read
<1>3. UnderWay /\ "can" \in Kinds
  BY <1>2 DEF Nothing, LinkInv, TypeOK
<1>4. /\ want \in Cmds /\ f \in Seq(Byte) /\ Len(f) \in Nat /\ Got \in 0 .. Len(f)
      /\ rest = SubSeq(f, a + 1, Len(f)) /\ Len(f) <= Chunk * LineSize
      /\ \A x \in 1 .. Len(line) :
           /\ Sent(f, Got, x - 1) < Len(f)
           /\ line[x] = SubSeq(f, Sent(f, Got, x - 1) + 1, Sent(f, Got, x))
  BY <1>3, FrameFits DEF UnderWay, Holds, Fits
<1>5. /\ a \in Got .. Len(f)
      /\ Sent(f, Got, Len(line) + 1) = Lesser(a + Chunk, Len(f))
      /\ Len(line) = LineSize => a = Len(f)
  <2> HIDE DEF f
  <2> QED
    BY <1>1, <1>4, SentIs DEF a
<1> HIDE DEF f
<1>6. a < Len(f) /\ a \in Nat
  <2>1. a # Len(f)
    <3> SUFFICES ASSUME a = Len(f) PROVE rest = << >>
      BY <1>2
    <3>1. rest = SubSeq(f, Len(f) + 1, Len(f))
      BY <1>4
    <3> QED
      BY <1>4, <3>1
  <2> HIDE DEF a
  <2> QED
    BY <1>4, <1>5, <2>1
<1> HIDE DEF a
<1>7. Len(rest) = Len(f) - a
  BY <1>4, <1>5, <1>6
<1>8. n \in 1 .. Len(f) - a /\ Sent(f, Got, Len(line) + 1) = a + n
  BY <1>4, <1>5, <1>6, <1>7 DEF Lesser
<1> HIDE DEF n
<1>9. SubSeq(rest, 1, n) = SubSeq(f, a + 1, a + n) /\ rest' = SubSeq(f, a + n + 1, Len(f))
  <2>1. SubSeq(rest, 1, n) = SubSeq(f, a + 1, a + n)
        /\ SubSeq(rest, n + 1, Len(rest)) = SubSeq(f, a + n + 1, Len(f))
    <3>1. f \in Seq(Byte) /\ a \in Nat /\ a < Len(f) /\ n \in 1 .. Len(f) - a
          /\ rest = SubSeq(f, a + 1, Len(f))
      BY <1>4, <1>6, <1>8
    <3> QED
      BY <3>1, Piece
  <2> QED
    BY <1>2, <2>1
<1> DEFINE s == SubSeq(f, a + 1, a + n)
<1>10. line' = Append(line, s)
  <2>1. Len(line) # LineSize
    BY <1>5, <1>6
  <2> QED
    BY <1>2, <1>9, <2>1
<1>11. Len(line') = Len(line) + 1 /\ line'[Len(line) + 1] = s
       /\ \A x \in 1 .. Len(line) : line'[x] = line[x]
  <2> HIDE DEF s
  <2> QED
    BY <1>1, <1>10
<1>12. Base' = Base /\ Judged' = Judged /\ Stored' = Stored /\ Got' = Got
  <2>1. Base' = Base /\ Judged' = Judged /\ bTail' = bTail
    BY <1>2 DEF Base, Judged, ring
  <2> QED
    BY <2>1 DEF Stored, Got
<1>13. ASSUME NEW x \in 1 .. Len(line')
       PROVE  /\ Sent(f, Got, x - 1) < Len(f)
              /\ line'[x] = SubSeq(f, Sent(f, Got, x - 1) + 1, Sent(f, Got, x))
  <2>1. CASE x \in 1 .. Len(line)
    BY <1>4, <1>11, <2>1
  <2>2. CASE x \notin 1 .. Len(line)
    <3>1. x = Len(line) + 1 /\ x - 1 = Len(line)
      BY <1>1, <1>11, <2>2
    <3>2. Sent(f, Got, x - 1) = a /\ Sent(f, Got, x) = a + n
      BY <1>8, <3>1 DEF a
    <3>3. line'[x] = SubSeq(f, a + 1, a + n)
      BY <1>11, <3>1
    <3> QED
      BY <1>6, <3>2, <3>3
  <2> QED
    BY <2>1, <2>2
<1>14. \A j \in 0 .. Got - 1 : buf[Wrap(Base + (Judged + j))] = f[j + 1]
  BY <1>3 DEF UnderWay, Holds, f
<1>15. rest' = SubSeq(f, Sent(f, Got, Len(line')) + 1, Len(f))
  BY <1>8, <1>9, <1>11
<1>16. f' = f
  BY <1>2 DEF f
<1>17. UnderWay'
  <2>1. Holds(f)'
    BY <1>2, <1>4, <1>12, <1>13, <1>14, <1>15, <1>16 DEF Holds, ring
  <2> QED
    BY <1>2, <1>4, <2>1 DEF UnderWay, f
<1>18. CleanPass'
  BY <1>2, <1>12 DEF CleanPass
<1> QED
  BY <1>17, <1>18 DEF KeepsGoing

(* A pass takes a message off the line and puts its bytes into the ring.   *)
LEMMA TakeClean ==
  ASSUME Fits, CleanInv, Receive, line # << >>
  PROVE  NothingLost' /\ KeepsGoing
<1> USE DEF CleanInv, NothingLost
<1> DEFINE f == Frame(want)
           g == Sent(f, Got, 1)
           bytes == line[1]
           m == Len(line) - 1
<1>1. /\ pc = "idle" /\ pc' = "measure" /\ Add(line[1]) /\ line' = Tail(line)
      /\ UNCHANGED <<kind, head, len, i, del, late, want, rest, quiet>>
  BY DEF Receive, Goto, read, host
<1>2. UnderWay
  BY DEF Nothing
<1>3. /\ line \in Seq(Seq(Byte)) /\ m \in Nat /\ Len(line) = m + 1 /\ bytes \in Seq(Byte)
      /\ Len(line') = m /\ \A x \in 1 .. m : line'[x] = line[x + 1]
  <2>1. line \in Seq(Seq(Byte)) /\ Len(line) \in Nat /\ Len(line) # 0
    BY DEF LinkInv, TypeOK
  <2>2. bytes \in Seq(Byte)
    BY <2>1
  <2>3. Len(Tail(line)) = Len(line) - 1 /\ \A x \in 1 .. Len(Tail(line)) : Tail(line)[x] = line[x + 1]
    BY <2>1, HeadTailProperties
  <2> QED
    BY <1>1, <2>1, <2>2, <2>3
<1>4. /\ want \in Cmds /\ f \in Seq(Byte) /\ Len(f) \in Nat /\ Got \in 0 .. Len(f)
      /\ rest = SubSeq(f, Sent(f, Got, m + 1) + 1, Len(f))
      /\ \A j \in 0 .. Got - 1 : buf[Wrap(Base + (Judged + j))] = f[j + 1]
      /\ \A x \in 1 .. m + 1 :
           /\ Sent(f, Got, x - 1) < Len(f)
           /\ line[x] = SubSeq(f, Sent(f, Got, x - 1) + 1, Sent(f, Got, x))
  BY <1>2, <1>3, FrameFits DEF UnderWay, Holds
<1> HIDE DEF f, bytes, m
<1>5. /\ g \in Got .. Len(f) /\ Sent(f, Got, 0) = Got
      /\ \A x \in Nat : Sent(f, g, x) = Sent(f, Got, x + 1)
  <2>1. 1 \in Nat
    OBVIOUS
  <2> QED
    BY <1>4, <2>1, SentIs
<1> HIDE DEF g
<1>6. Len(bytes) = g - Got /\ \A j \in 0 .. Len(bytes) - 1 : bytes[j + 1] = f[Got + j + 1]
  <2>1. line[1] = SubSeq(f, Sent(f, Got, 1 - 1) + 1, Sent(f, Got, 1))
    <3>1. 1 \in 1 .. m + 1
      BY <1>3
    <3> QED
      BY <1>4, <3>1
  <2>2. bytes = SubSeq(f, Got + 1, g)
    <3>1. 1 - 1 = 0 /\ Sent(f, Got, 0) = Got
      BY <1>5
    <3>2. line[1] = SubSeq(f, Got + 1, Sent(f, Got, 1))
      BY <2>1, <3>1
    <3> QED
      BY <3>2 DEF bytes, g
  <2>3. \A x \in Got + 1 .. g : f[x] \in Byte
    BY <1>4, <1>5
  <2>4. /\ Len(SubSeq(f, Got + 1, g)) = IF Got + 1 <= g THEN g - (Got + 1) + 1 ELSE 0
        /\ \A x \in 1 .. g - (Got + 1) + 1 : SubSeq(f, Got + 1, g)[x] = f[(Got + 1) + x - 1]
    <3>1. Got + 1 \in Int /\ g \in Int
      BY <1>4, <1>5
    <3> QED
      BY <2>3, <3>1, SubSeqProperties
  <2>5. Len(bytes) = g - Got /\ Got \in Nat /\ g \in Nat /\ Got <= g
    <3>1. Got \in Nat /\ g \in Nat /\ Got <= g
      BY <1>4, <1>5
    <3>2. Len(SubSeq(f, Got + 1, g)) = g - Got
      BY <2>4, <3>1
    <3> QED
      BY <2>2, <3>1, <3>2
  <2>6. ASSUME NEW j \in 0 .. Len(bytes) - 1 PROVE bytes[j + 1] = f[Got + j + 1]
    <3>1. j + 1 \in 1 .. g - (Got + 1) + 1 /\ (Got + 1) + (j + 1) - 1 = Got + j + 1
      BY <2>5
    <3>2. SubSeq(f, Got + 1, g)[j + 1] = f[(Got + 1) + (j + 1) - 1]
      <4> DEFINE SS == SubSeq(f, Got + 1, g)
                 T == 1 .. g - (Got + 1) + 1
                 at(x) == f[(Got + 1) + x - 1]
      <4>1. j + 1 \in T /\ \A x \in T : SS[x] = at(x)
        BY <2>4, <3>1
      <4> HIDE DEF SS, T, at
      <4>2. SS[j + 1] = at(j + 1)
        BY <4>1
      <4> QED
        BY <4>2 DEF SS, at
    <3>3. SubSeq(f, Got + 1, g)[j + 1] = f[Got + j + 1]
      BY <3>1, <3>2
    <3> QED
      BY <2>2, <3>3
  <2> QED
    BY <2>5, <2>6
<1>7. /\ Base = bHead /\ Judged = 0 /\ Got = Stored /\ bHead \in Slots /\ Stored \in Nat
      /\ bTail = Wrap(bHead + Stored) /\ Now \in Rings
      /\ Stored + Len(bytes) < Size /\ Stored + Len(bytes) = g
  <2>1. Base = bHead /\ Judged = 0
    BY <1>1 DEF Base, Judged
  <2>2. bHead \in Slots /\ Stored \in Slots /\ bTail = Wrap(bHead + Stored) /\ Now \in Rings
    BY <2>1, StoredIs, NowIsRing DEF LinkInv
  <2>3. Got = Stored /\ Stored \in Nat
    BY <2>1, <2>2 DEF Got, Slots
  <2>4. Len(f) < Size
    BY <1>4, FrameFits DEF f
  <2> QED
    BY <1>4, <1>5, <1>6, <2>1, <2>2, <2>3, <2>4
<1> DEFINE q == Adding(Now, bytes)[Len(bytes)]
<1>8. buf' = q.buf /\ bHead' = q.bHead /\ bTail' = q.bTail /\ added' = 0
  BY <1>1 DEF Add, bytes
<1> HIDE DEF q
<1>9. /\ q.bHead = bHead /\ q.bTail = Wrap(bHead + (Stored + Len(bytes)))
      /\ \A j \in 0 .. Stored - 1 : q.buf[Wrap(bHead + j)] = buf[Wrap(bHead + j)]
      /\ \A j \in 0 .. Len(bytes) - 1 : q.buf[Wrap(bHead + (Stored + j))] = bytes[j + 1]
  <2>1. Now.bHead = bHead /\ Now.bTail = Wrap(bHead + Stored) /\ Now.buf = buf
    BY <1>7 DEF Now
  <2>2. /\ q.bHead = bHead /\ q.bTail = Wrap(bHead + (Stored + Len(bytes)))
        /\ \A j \in 0 .. Stored - 1 : q.buf[Wrap(bHead + j)] = Now.buf[Wrap(bHead + j)]
        /\ \A j \in 0 .. Len(bytes) - 1 : q.buf[Wrap(bHead + (Stored + j))] = bytes[j + 1]
    <3>1. /\ Now \in Rings /\ bytes \in Seq(Byte) /\ bHead \in Slots /\ Stored \in Nat
          /\ Stored + Len(bytes) < Size /\ q = Adding(Now, bytes)[Len(bytes)]
      BY <1>3, <1>7 DEF q
    <3> QED
      BY <2>1, <3>1, AddingAppends
  <2> QED
    BY <2>1, <2>2
<1>10. Base' = bHead /\ Judged' = 0 /\ Stored' = g /\ Got' = g
  <2>1. Base' = bHead /\ Judged' = 0 /\ bTail' = Wrap(bHead + g)
    BY <1>1, <1>7, <1>8, <1>9 DEF Base, Judged
  <2>2. g \in Slots
    <3>1. g \in Nat /\ g < Size
      BY <1>4, <1>5, <1>7
    <3> QED
      BY <3>1 DEF Slots
  <2>3. Stored' = g
    BY <1>7, <2>1, <2>2, LengthIs DEF Stored
  <2> QED
    BY <2>1, <2>2, <2>3 DEF Got, Slots
<1>11. ASSUME NEW j \in 0 .. g - 1 PROVE buf'[Wrap(bHead + (0 + j))] = f[j + 1]
  <2>1. CASE j < Got
    <3>1. j \in 0 .. Got - 1 /\ j \in 0 .. Stored - 1 /\ 0 + j = j
      BY <1>4, <1>7, <2>1
    <3>2. buf[Wrap(bHead + (0 + j))] = f[j + 1]
      BY <1>4, <1>7, <3>1
    <3> QED
      BY <1>8, <1>9, <3>1, <3>2
  <2>2. CASE j >= Got
    <3>1. PICK x \in 0 .. Len(bytes) - 1 : j = Stored + x
      <4>1. j - Got \in 0 .. Len(bytes) - 1 /\ j = Stored + (j - Got)
        BY <1>4, <1>5, <1>6, <1>7, <2>2
      <4> QED
        BY <4>1
    <3>2. 0 + j = Stored + x /\ Got + x + 1 = j + 1
      BY <1>7, <3>1
    <3>3. buf'[Wrap(bHead + (Stored + x))] = bytes[x + 1]
      BY <1>8, <1>9
    <3>4. bytes[x + 1] = f[Got + x + 1]
      BY <1>6
    <3> QED
      BY <3>2, <3>3, <3>4
  <2> QED
    BY <1>4, <1>5, <2>1, <2>2
<1>12. ASSUME NEW x \in 1 .. m
       PROVE  /\ Sent(f, g, x - 1) < Len(f)
              /\ line'[x] = SubSeq(f, Sent(f, g, x - 1) + 1, Sent(f, g, x))
  <2>1. x \in Nat /\ x - 1 \in Nat /\ x + 1 \in 1 .. m + 1 /\ (x - 1) + 1 = (x + 1) - 1
    BY <1>3
  <2>2. Sent(f, g, x - 1) = Sent(f, Got, (x + 1) - 1) /\ Sent(f, g, x) = Sent(f, Got, x + 1)
    BY <1>5, <2>1
  <2> QED
    BY <1>3, <1>4, <2>1, <2>2
<1>13. rest' = SubSeq(f, Sent(f, g, m) + 1, Len(f))
  BY <1>1, <1>3, <1>4, <1>5
<1>14. f' = f
  BY <1>1 DEF f
<1>15. UnderWay'
  <2>1. g \in 0 .. Len(f)
    BY <1>4, <1>5
  <2>2. Holds(f)'
    BY <1>3, <1>10, <1>11, <1>12, <1>13, <1>14, <2>1 DEF Holds
  <2> QED
    BY <1>1, <1>2, <2>2 DEF UnderWay, f
<1>16. CleanPass'
  <2>1. Judged' <= Stored'
    BY <1>4, <1>5, <1>10
  <2>2. kind # "uart"
    BY DEF CleanPass
  <2> QED
    BY <1>1, <2>1, <2>2 DEF CleanPass
<1> QED
  BY <1>15, <1>16 DEF KeepsGoing

LEMMA ReceiveClean == ASSUME Fits, CleanInv, Receive PROVE NothingLost' /\ KeepsGoing
<1> USE DEF CleanInv, NothingLost
<1>1. CASE line = << >>
  <2>1. /\ pc = "idle" /\ pc' = "measure"
        /\ UNCHANGED <<kind, ring, line, head, len, i, del, late, added, want, rest, quiet>>
    BY <1>1 DEF Receive, Goto, read, host
  <2>2. Base' = Base /\ Judged' = Judged
    BY <2>1 DEF Base, Judged, ring
  <2>3. UnderWay => ~(quiet' /\ rest = << >>)
    BY <2>1 DEF UnderWay
  <2>4. (Nothing \/ UnderWay)' /\ KeepsGoing /\ Stored' = Stored
    BY <2>1, <2>2, <2>3, NoneMoved DEF ring
  <2>5. CleanPass'
    BY <2>1, <2>2, <2>4 DEF CleanPass
  <2> QED
    BY <2>4, <2>5
<1> QED
  BY <1>1, TakeClean

-----------------------------------------------------------------------------
(* The host.                                                               *)

LEMMA StartClean ==
  ASSUME Fits, CleanInv, ~UnderWay, UNCHANGED <<kind, ring, line, loop, added, quiet>>,
         want' \in Cmds, rest' = Frame(want')
  PROVE  NothingLost' /\ UnderWay'
<1> USE DEF CleanInv, NothingLost
<1> DEFINE f == Frame(want')
<1>1. /\ UNCHANGED <<kind, buf, bHead, bTail, line, pc, head, len, i, del, late, added, quiet>>
  BY DEF ring, loop, read
<1>2. Base' = Base /\ Judged' = Judged /\ Stored' = Stored /\ Got' = Got
  <2>1. Base' = Base /\ Judged' = Judged
    BY <1>1 DEF Base, Judged
  <2> QED
    BY <1>1, <2>1 DEF Stored, Got
<1>3. Got = 0 /\ line = << >>
  BY DEF Nothing
<1>4. f \in Seq(Byte) /\ Len(f) \in Nat \ {0}
  BY FrameFits
<1> HIDE DEF f
<1>5. Sent(f, 0, 0) = 0 /\ 0 \in 0 .. Len(f)
  BY <1>4, SentIs
<1>6. f = SubSeq(f, 0 + 1, Len(f))
  BY <1>4, SubSeqFull
<1>7. f # << >>
  BY <1>4
<1>8. UnderWay'
  <2>1. Len(line') = 0 /\ Got' = 0
    BY <1>1, <1>2, <1>3
  <2>2. \A x \in 1 .. Len(line') : FALSE
    BY <2>1
  <2>3. \A j \in 0 .. Got' - 1 : FALSE
    BY <2>1
  <2>4. rest' = SubSeq(f, Sent(f, Got', Len(line')) + 1, Len(f))
    BY <1>5, <1>6, <2>1 DEF f
  <2>5. Holds(Frame(want))'
    BY <1>5, <2>1, <2>2, <2>3, <2>4 DEF Holds, f
  <2> QED
    BY <1>7, <2>5 DEF UnderWay, f
<1>9. pc \notin {"copy", "scan", "wait"}
  BY ReadsFrame
<1>10. CleanPass'
  BY <1>1, <1>2, <1>9 DEF CleanPass
<1> QED
  BY <1>8, <1>10

LEMMA HostClean ==
  ASSUME Fits, CleanInv, (\E c \in Cmds : Ask(c)) \/ Repeat
  PROVE  NothingLost' /\ UnderWay'
<1>1. CASE \E c \in Cmds : Ask(c)
  <2>1. PICK c \in Cmds : Ask(c)
    BY <1>1
  <2>2. ~UnderWay
    BY <2>1 DEF Ask, UnderWay, Fits
  <2> QED
    BY <2>1, <2>2, StartClean DEF Ask
<1>2. CASE Repeat
  <2>1. ~UnderWay
    BY <1>2 DEF Repeat, Settled, UnderWay
  <2>2. want \in Cmds
    BY <1>2 DEF Repeat, CleanInv, LinkInv, TypeOK
  <2> QED
    BY <1>2, <2>1, <2>2, StartClean DEF Repeat
<1> QED
  BY <1>1, <1>2

(* No timeout, so nothing is cleared.                                      *)
LEMMA ClearClean == ASSUME CleanInv, Clear PROVE FALSE
BY DEF Clear, Return, Goto, CleanInv, LinkInv, PassInv, NothingLost, CleanPass

(* No timeout strikes: the ring is empty when nothing is under way.        *)
LEMMA ExpireClean == ASSUME Fits, CleanInv, Expire, faults' = faults PROVE FALSE
<1> USE DEF CleanInv, NothingLost
<1>1. faults \in Nat /\ TypeOK
  BY DEF LinkInv, TypeOK
<1>2. Settled /\ bHead # bTail
  BY <1>1 DEF Expire, Fault
<1>3. Nothing
  BY <1>2 DEF Settled, UnderWay
<1>4. pc # "delete"
  BY <1>2 DEF Settled, CleanPass
<1>5. pc # "copy"
  BY <1>2, ReadsFrame DEF Settled, UnderWay
<1>6. Base = bHead /\ Judged = 0
  BY <1>4, <1>5 DEF Base, Judged
<1>7. bHead \in Slots /\ Stored \in Slots /\ Wrap(bHead + Stored) = bTail
  BY <1>1, <1>6, StoredIs
<1>8. Stored = 0
  BY <1>3, <1>6, <1>7 DEF Nothing, Got, Slots
<1>9. Wrap(bHead + Stored) = bHead
  BY <1>7, <1>8, WrapIs DEF Slots
<1> QED
  BY <1>2, <1>7, <1>9

-----------------------------------------------------------------------------
(* The theorems.                                                           *)

(* A step that loses nothing but perhaps an answer.                        *)
AnswersOnly == faults' = faults \/ Accept

(* Only the search comes to a judgement.                                   *)
LEMMA Judges == ASSUME [Next]_vars, ~Anylise PROVE Obeys
<1>1. CASE Loop
  BY <1>1 DEF Loop, Receive, Measure, CopyByte, Copied, Delete, Wait, Clear, Goto, Return, Obeys
<1>2. CASE ~Loop
  <2>1. pc' = pc
    BY <1>2 DEF Next, Send, Interrupt, Message, Expire, Ask, Repeat, loop, vars
  <2> QED
    BY <2>1 DEF Obeys
<1> QED
  BY <1>1, <1>2

LEMMA CleanStep == ASSUME Fits, CleanInv, [Next]_vars, AnswersOnly PROVE CleanInv' /\ Obeys
<1>1. LinkInv'
  BY CleanStays, LinkStep DEF CleanInv
<1>2. CASE Anylise
  <2>1. CASE Incomplete /\ pc' = "wait"
    BY <1>1, <2>1, IncompleteClean DEF CleanInv, Obeys
  <2>2. CASE Accept /\ AtLeast(0, LengthAt(0))
    <3>1. NothingLost' /\ want \in Cmds /\ done' = want /\ del' = Len(Frame(want))
      BY <2>2, AcceptClean
    <3>2. want # NoCmd
      BY <3>1 DEF Fits
    <3> QED
      BY <1>1, <3>1, <3>2 DEF CleanInv, Obeys
  <2> QED
    BY <1>2, <2>1, <2>2, SearchClean
<1>3. CASE ~Anylise
  <2>1. faults' = faults
    BY <1>3 DEF AnswersOnly, Anylise
  <2>3. Obeys
    BY <1>3, Judges
  <2>4. CASE UNCHANGED vars
    <3>1. /\ Base' = Base /\ Judged' = Judged
          /\ UNCHANGED <<kind, buf, bHead, bTail, line, pc, i, del, late, len, added, want, rest,
                         quiet>>
      BY <2>4 DEF vars, ring, loop, read, host, Base, Judged
    <3>2. UnderWay => ~(quiet' /\ rest = << >>)
      BY <3>1 DEF UnderWay
    <3>3. (Nothing \/ UnderWay)' /\ KeepsGoing /\ Stored' = Stored
      BY <3>1, <3>2, NoneMoved DEF CleanInv, NothingLost
    <3>4. CleanPass'
      BY <3>1, <3>3 DEF CleanInv, NothingLost, CleanPass
    <3> QED
      BY <1>1, <2>3, <3>3, <3>4 DEF CleanInv, NothingLost
  <2>5. CASE Next
    <3>1. NothingLost'
      BY <1>3, <2>1, <2>5, ReceiveClean, MeasureClean, CopyByteClean, CopiedClean, DeleteClean,
         WaitClean, ClearClean, InterruptClean, MessageClean, HostClean, ExpireClean DEF Next, Loop, Send
    <3> QED
      BY <1>1, <2>3, <3>1 DEF CleanInv
  <2> QED
    BY <2>4, <2>5
<1> QED
  BY <1>2, <1>3

LEMMA FaultsGrow == ASSUME [Next]_vars PROVE faults' = faults \/ faults' = faults + 1
BY DEF Next, Loop, Receive, Measure, CopyByte, Copied, Anylise, Search, SkipLength, Incomplete,
   SkipFrame, Accept, Delete, Wait, Clear, Send, Interrupt, Message, Expire, Ask, Repeat, Continue,
   Reject, Fault, host, vars

(* Until something is lost, the loop executes the command it is asked for  *)
(* and nothing else, deletes its frame and nothing else, and rejects       *)
(* nothing (canbus_middle.c 576-581, 610-622, ota_protocol.c 411-422).     *)
THEOREM ObeysWhatItIsAsked == ASSUME Fits PROVE Spec => ObeysAsked
<1> DEFINE Inv == faults \in Nat /\ (faults = 0 => CleanInv)
<1>1. Init => Inv
  BY LinkInit, CleanInit DEF CleanInv, Init
<1>2. Inv /\ [Next]_vars => Inv' /\ [faults = 0 => Obeys]_vars
  <2> SUFFICES ASSUME Inv, [Next]_vars PROVE Inv' /\ (faults = 0 => Obeys)
    OBVIOUS
  <2>1. faults' = faults \/ faults' = faults + 1
    BY FaultsGrow
  <2>2. CASE faults = 0 /\ AnswersOnly
    BY <2>1, <2>2, CleanStep
  <2>3. CASE faults = 0 /\ ~AnswersOnly
    <3>1. faults' = 1 /\ ~Anylise
      BY <2>1, <2>3 DEF AnswersOnly, Anylise, Search, SkipLength, Incomplete, SkipFrame, Continue,
         Reject, host
    <3> QED
      BY <3>1, Judges
  <2>4. CASE faults # 0
    BY <2>1, <2>4
  <2> QED
    BY <2>2, <2>3, <2>4
<1> QED
  BY <1>1, <1>2, PTL DEF Spec, ObeysAsked

(* The first try is answered: as long as there was no fault, a command that*)
(* is not answered is on its way, and the host has no reason to repeat it. *)
Served == faults = 0 /\ want # NoCmd => UnderWay

LEMMA ServedStep ==
  ASSUME Fits, CleanInv, Served, [Next]_vars, faults' = 0
  PROVE  CleanInv' /\ Served'
<1>1. faults = 0 /\ AnswersOnly
  BY FaultsGrow DEF AnswersOnly, CleanInv, LinkInv, TypeOK
<1>2. CleanInv'
  BY <1>1, CleanStep
<1>3. CASE Accept
  <2>1. AtLeast(0, LengthAt(0))
    BY <1>3, SearchClean DEF Anylise, Accept, Incomplete, Scanning
  <2>2. done' = want
    BY <1>3, <2>1, AcceptClean
  <2>3. want' = NoCmd
    BY <1>1, <1>3, <2>2 DEF Accept
  <2> QED
    BY <1>2, <2>3 DEF Served
<1>4. CASE (\E c \in Cmds : Ask(c)) \/ Repeat
  BY <1>2, <1>4, HostClean DEF Served
<1>5. CASE ~Accept /\ ~((\E c \in Cmds : Ask(c)) \/ Repeat)
  <2>1. want' = want
    BY <1>5 DEF Next, Loop, Receive, Measure, CopyByte, Copied, Anylise, Search, SkipLength,
       Incomplete, SkipFrame, Delete, Wait, Clear, Send, Interrupt, Message, Expire, Continue, Reject,
       host, vars
  <2>2. faults' = faults
    BY <1>1
  <2>3. KeepsGoing
    <3>1. CASE UNCHANGED vars
      <4>1. /\ Base' = Base /\ Judged' = Judged
            /\ UNCHANGED <<buf, bTail, line, want, rest, quiet>>
        BY <3>1 DEF vars, ring, loop, read, host, Base, Judged
      <4>2. UnderWay => ~(quiet' /\ rest = << >>)
        BY <4>1 DEF UnderWay
      <4> QED
        BY <4>1, <4>2, NoneMoved DEF CleanInv, NothingLost
    <3>2. CASE Anylise
      <4>1. Incomplete /\ pc' = "wait"
        BY <1>5, <3>2, SearchClean
      <4> QED
        BY <4>1, IncompleteClean
    <3>3. CASE Next /\ ~Anylise
      BY <1>5, <2>2, <3>3, ReceiveClean, MeasureClean, CopyByteClean, CopiedClean, DeleteClean,
         WaitClean, ClearClean, InterruptClean, MessageClean, ExpireClean DEF Next, Loop, Send
    <3> QED
      BY <3>1, <3>2, <3>3
  <2> QED
    BY <1>2, <2>1, <2>2, <2>3 DEF Served, KeepsGoing
<1> QED
  BY <1>3, <1>4, <1>5

(* A host whose command is not answered by the time that the loop has seen *)
(* all of it knows that something was lost: without a fault no command     *)
(* needs a second try, whatever the interleaving (canbus_middle.c 610-622, *)
(* 874-945, ota_protocol.c 405-434).                                       *)
THEOREM FirstTryIsAnswered == ASSUME Fits PROVE Spec => []FirstTry
<1> DEFINE Inv == faults \in Nat /\ (faults = 0 => CleanInv /\ Served)
<1>1. Init => Inv
  BY LinkInit, CleanInit DEF CleanInv, Init, Served
<1>2. Inv /\ [Next]_vars => Inv'
  <2> SUFFICES ASSUME Inv, [Next]_vars PROVE Inv'
    OBVIOUS
  <2>1. faults' = faults \/ faults' = faults + 1
    BY FaultsGrow
  <2>2. faults' = 0 => faults = 0
    BY <2>1
  <2> QED
    BY <2>1, <2>2, ServedStep
<1>3. Inv => FirstTry
  BY DEF FirstTry, Served, UnderWay, Settled
<1> QED
  BY <1>1, <1>2, <1>3, PTL DEF Spec

(* The same for a loop whose answers may get lost, however many: the host  *)
(* repeats its command, the loop executes it again.  The invariant, and    *)
(* what executes.                                                          *)
LEMMA CleanAlways ==
  ASSUME Fits
  PROVE  Spec /\ [][AnswersOnly]_vars => [](CleanInv /\ OnlySent) /\ [][Obeys]_vars
<1>1. Init => CleanInv /\ OnlySent
  BY LinkInit, CleanInit DEF CleanInv, Init, OnlySent
<1>2. CleanInv /\ OnlySent /\ [Next]_vars /\ [AnswersOnly]_vars
        => (CleanInv /\ OnlySent)' /\ [Obeys]_vars
  <2> SUFFICES ASSUME CleanInv, OnlySent, [Next]_vars, [AnswersOnly]_vars
               PROVE  CleanInv' /\ OnlySent' /\ Obeys
    OBVIOUS
  <2>1. AnswersOnly
    BY DEF AnswersOnly, vars, host
  <2>2. CleanInv' /\ Obeys
    BY <2>1, CleanStep
  <2>3. want \in Cmds \union {NoCmd}
    BY DEF CleanInv, LinkInv, TypeOK
  <2>4. CASE Accept
    <3>1. pc = "scan" /\ pc' = "delete"
      BY <2>4 DEF Accept, Scanning
    <3> QED
      BY <2>2, <2>3, <3>1 DEF Obeys, OnlySent
  <2>5. CASE ~Accept
    <3>1. done' = done
      BY <2>5 DEF Next, Loop, Receive, Measure, CopyByte, Copied, Anylise, Search, SkipLength,
         Incomplete, SkipFrame, Delete, Wait, Clear, Send, Interrupt, Message, Expire, Ask, Repeat,
         Continue, Reject, vars
    <3> QED
      BY <2>2, <3>1 DEF OnlySent
  <2> QED
    BY <2>2, <2>4, <2>5
<1> QED
  BY <1>1, <1>2, PTL DEF Spec

(* Nothing is executed that was not sent, as long as only answers get lost *)
(* (canbus_middle.c 611-612).                                              *)
THEOREM ExecutesOnlySent ==
  ASSUME Fits PROVE Spec /\ [][AnswersOnly]_vars => []OnlySent
<1> QED
  BY CleanAlways, PTL

(* The search then stays in what was read, whatever the commands: no       *)
(* assumption on runs of heads is needed (canbus_middle.c 562-595).        *)
THEOREM CleanSearchInBounds ==
  ASSUME Fits PROVE Spec /\ [][AnswersOnly]_vars => []ScanInBounds
<1>1. CleanInv => ScanInBounds
  BY CleanStays
<1> QED
  BY <1>1, CleanAlways, PTL

(* The interrupt always finds room, however it interleaves with the pass,  *)
(* so that what a pass deletes is always what it judged: of a command that *)
(* fits, no byte is lost in the ring (ota_protocol.c 411-422, usdl_buf.c   *)
(* 123-175).                                                               *)
THEOREM CleanDeletesJudged ==
  ASSUME Fits
  PROVE  Spec /\ [][AnswersOnly]_vars
           => [](DeletesJudged /\ (pc = "delete" => len + added < Size))
<1>1. ASSUME CleanInv PROVE DeletesJudged /\ (pc = "delete" => len + added < Size)
  <2>1. DeletesJudged
    BY <1>1, JudgedIsDeleted DEF CleanInv
  <2> QED
    BY <1>1, <2>1 DEF CleanInv, NothingLost, CleanPass
<1> QED
  BY <1>1, CleanAlways, PTL
=============================================================================
