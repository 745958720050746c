-------------------------- MODULE FrameLink_proofs ---------------------------
(***************************************************************************)
(* Proofs about FrameLink for any ring, array, limits, commands and        *)
(* faults.  That the search never skips or deletes a whole frame holds for *)
(* any bytes in the ring; that it stays in what was read, that what is     *)
(* deleted is what was judged, and the types, hold as long as no pass      *)
(* reads a run of MinLen heads at the end.                                 *)
(***************************************************************************)
EXTENDS FrameLink, WellFoundedInduction, SequenceTheorems, TLAPS

USE LinkAssumption

-----------------------------------------------------------------------------
(* No frame is skipped.                                                    *)

(* The search starts at the first byte, and what it has passed holds no    *)
(* whole frame.                                                            *)
SearchInv ==
  /\ i \in Nat
  /\ pc \in {"idle", "measure", "copy"} => i = 0
  /\ GoodFrameKept

LEMMA SearchInit == Init => SearchInv
BY DEF Init, SearchInv, GoodFrameKept

(* The steps that change neither what was read nor where the search is.    *)
LEMMA OthersKeep ==
  ASSUME SearchInv, UNCHANGED <<pc, shot, len, i>>
  PROVE  SearchInv'
BY DEF SearchInv, GoodFrameKept, WholeAt, LengthAt, EndsWell

LEMMA ReturnKeeps == ASSUME NEW p, Return(p) PROVE SearchInv'
BY DEF Return, Goto, SearchInv, GoodFrameKept

LEMMA SearchKeeps ==
  ASSUME SearchInv, Anylise
  PROVE  SearchInv'
<1> USE DEF SearchInv
<1>1. UNCHANGED <<shot, len>> /\ pc = "scan"
  BY DEF Anylise, Search, SkipLength, Incomplete, SkipFrame, Accept, Scanning, read
<1>2. \A j : WholeAt(j)' <=> WholeAt(j)
  BY <1>1 DEF WholeAt, LengthAt, EndsWell
<1>3. CASE Search
  <2>1. PICK j \in i + 1 .. i + ShotSize : Stops(j) /\ i' = j
    BY <1>3 DEF Search, Continue, Reject
  <2>2. \A x \in i .. j - 1 : ~WholeAt(x)
    BY <1>3, <2>1 DEF Search, Stops, WholeAt
  <2>3. \A x \in 0 .. j - 1 : ~WholeAt(x)
    BY <1>1, <2>1, <2>2 DEF GoodFrameKept
  <2>4. pc' \in {"scan", "delete"}
    BY <1>3 DEF Search, Continue, Reject, Scanning
  <2> QED
    BY <1>1, <1>2, <2>1, <2>3, <2>4 DEF GoodFrameKept
<1>4. CASE SkipLength \/ SkipFrame
  <2>1. ~WholeAt(i) /\ i' = i + 1 /\ pc' = pc
    BY <1>4 DEF SkipLength, SkipFrame, Continue, WholeAt
  <2>2. \A x \in 0 .. i' - 1 : ~WholeAt(x)
    BY <1>1, <2>1 DEF GoodFrameKept
  <2> QED
    BY <1>1, <1>2, <2>1, <2>2 DEF GoodFrameKept
<1>5. CASE Incomplete \/ Accept
  <2>1. i' = i /\ pc' \in {"wait", "delete"}
    BY <1>5 DEF Incomplete, Accept, Reject
  <2> QED
    BY <1>1, <1>2, <2>1 DEF GoodFrameKept
<1> QED
  BY <1>3, <1>4, <1>5 DEF Anylise

LEMMA StepKeeps == SearchInv /\ [Next]_vars => SearchInv'
<1> SUFFICES ASSUME SearchInv, [Next]_vars PROVE SearchInv'
  OBVIOUS
<1>1. CASE Receive
  BY <1>1 DEF Receive, Goto, read, SearchInv, GoodFrameKept
<1>2. CASE Measure
  <2>1. CASE bHead = bTail
    BY <1>2, <2>1, ReturnKeeps DEF Measure
  <2>2. CASE bHead # bTail
    BY <1>2, <2>2 DEF Measure, Goto, SearchInv, GoodFrameKept
  <2> QED
    BY <2>1, <2>2
<1>3. CASE CopyByte
  BY <1>3 DEF CopyByte, SearchInv, GoodFrameKept
<1>4. CASE Copied
  BY <1>4 DEF Copied, Goto, read, SearchInv, GoodFrameKept
<1>5. CASE Anylise
  BY <1>5, SearchKeeps
<1>6. CASE Delete \/ Clear \/ (Wait /\ Return("wait"))
  BY <1>6, ReturnKeeps DEF Delete, Clear
<1>7. CASE Wait /\ ~Return("wait")
  <2>1. pc' = "clear" /\ i' = i
    BY <1>7 DEF Wait, Goto
  <2> QED
    BY <2>1 DEF SearchInv, GoodFrameKept
<1>8. CASE Send \/ Expire \/ (\E c \in Cmds : Ask(c)) \/ Repeat \/ UNCHANGED vars
  <2>1. UNCHANGED <<pc, shot, len, i>>
    BY <1>8 DEF Send, Interrupt, Message, Expire, Ask, Repeat, loop, read, vars
  <2> QED
    BY <2>1, OthersKeep
<1> QED
  BY <1>1, <1>2, <1>3, <1>4, <1>5, <1>6, <1>7, <1>8 DEF Next, Loop

(* No whole frame is lost to the garbage before or around it: the search   *)
(* passes over none, whatever lies in the ring (canbus_middle.c 562-621,   *)
(* ota_protocol.c 239-298, can_ota_protocol.c 182-241).                    *)
THEOREM NoFrameIsSkipped == Spec => []GoodFrameKept
<1>1. SearchInv => GoodFrameKept
  BY DEF SearchInv
<1> QED
  BY <1>1, SearchInit, StepKeeps, PTL DEF Spec

-----------------------------------------------------------------------------
(* Induction over the natural numbers, for a set of them: the least number *)
(* outside it would have its predecessor inside.                           *)

Below == {p \in Nat \X Nat : p[1] < p[2]}

LEMMA BelowIsWellFounded == IsWellFoundedOn(Below, Nat)
BY NatLessThanWellFounded DEF OpToRel, Below

LEMMA Induction ==
  ASSUME NEW S, 0 \in S, \A n \in Nat : n \in S => n + 1 \in S
  PROVE  Nat \subseteq S
<1> DEFINE T == Nat \ S
<1> SUFFICES ASSUME T # {} PROVE FALSE
  OBVIOUS
<1>1. T \subseteq Nat
  OBVIOUS
<1>2. PICK x \in T : \A y \in T : ~ (<<y, x>> \in Below)
  <2> HIDE DEF T
  <2> QED
    BY <1>1, BelowIsWellFounded, WFMin
<1>3. x # 0 /\ x - 1 \in Nat /\ <<x - 1, x>> \in Below
  BY <1>2 DEF Below
<1> QED
  BY <1>2, <1>3

-----------------------------------------------------------------------------
(* The ring.                                                               *)

Slots == 0 .. Size - 1
Rings == [buf : [Slots -> Byte], bTail : Slots, bHead : Slots]

LEMMA WrapIs == ASSUME NEW n \in 0 .. 2 * Size - 1
                PROVE  Wrap(n) = (IF n < Size THEN n ELSE n - Size) /\ Wrap(n) \in Slots
BY DEF Wrap, Slots

LEMMA LengthIs ==
  ASSUME NEW h \in Slots, NEW n \in Slots
  PROVE  Length(h, Wrap(h + n)) = n
<1>1. Wrap(h + n) = IF h + n < Size THEN h + n ELSE h + n - Size
  BY WrapIs DEF Slots
<1>2. Size + Wrap(h + n) - h = IF h + n < Size THEN Size + n ELSE n
  BY <1>1 DEF Slots
<1>3. Wrap(Size + n) = n /\ Wrap(n) = n
  BY WrapIs DEF Slots
<1> QED
  BY <1>2, <1>3 DEF Length, Wrap

LEMMA LengthFrom ==
  ASSUME NEW h \in Slots, NEW t \in Slots
  PROVE  Length(h, t) \in Slots /\ Wrap(h + Length(h, t)) = t
<1> DEFINE n == IF t >= h THEN t - h ELSE Size + t - h
<1>1. n \in Slots /\ h + n = (IF t >= h THEN t ELSE Size + t)
  BY DEF Slots
<1>2. Wrap(t) = t /\ Wrap(Size + t) = t
  BY WrapIs DEF Slots
<1>3. Wrap(h + n) = t
  BY <1>1, <1>2
<1>4. Length(h, t) = n
  BY <1>1, <1>3, LengthIs
<1> QED
  BY <1>1, <1>3, <1>4

(* Places of the ring less than a round apart differ.                      *)
LEMMA Apart ==
  ASSUME NEW h \in Slots, NEW m \in Slots, NEW n \in Slots, m # n
  PROVE  Wrap(h + m) # Wrap(h + n)
BY LengthIs

LEMMA Onward ==
  ASSUME NEW h \in Slots, NEW n \in Slots
  PROVE  Wrap(Wrap(h + n) + 1) = Wrap(h + n + 1) /\ Wrap(h + n) \in Slots
BY WrapIs DEF Slots

LEMMA AddedIsRing == ASSUME NEW r \in Rings, NEW b \in Byte PROVE Added(r, b) \in Rings
<1>1. Wrap(r.bTail + 1) \in Slots /\ Wrap(r.bHead + 1) \in Slots
  BY WrapIs DEF Slots, Rings
<1>2. [r.buf EXCEPT ![r.bTail] = b] \in [Slots -> Byte]
  BY DEF Rings
<1> QED
  BY <1>1, <1>2 DEF Added, Rings

(* The rings after the first bytes, up to m of them.                       *)
AddingUpTo(r, bytes, m, g) ==
  g = [n \in 0 .. m |-> IF n = 0 THEN r ELSE Added(g[n - 1], bytes[n])]

LEMMA AddingDefined ==
  ASSUME NEW r, NEW bytes, NEW m \in Nat
  PROVE  \E g : AddingUpTo(r, bytes, m, g)
<1> DEFINE S == {n \in Nat : \E g : AddingUpTo(r, bytes, n, g)}
<1>1. 0 \in S
  <2>1. AddingUpTo(r, bytes, 0, [n \in 0 .. 0 |-> r])
    BY DEF AddingUpTo
  <2> QED
    BY <2>1
<1>2. ASSUME NEW j \in Nat, j \in S PROVE j + 1 \in S
  <2>1. PICK g : AddingUpTo(r, bytes, j, g)
    BY <1>2
  <2> DEFINE h == [n \in 0 .. j + 1 |-> IF n = j + 1 THEN Added(g[j], bytes[j + 1]) ELSE g[n]]
  <2>2. ASSUME NEW n \in 0 .. j + 1
        PROVE  h[n] = IF n = 0 THEN r ELSE Added(h[n - 1], bytes[n])
    <3>1. CASE n = j + 1
      BY <3>1
    <3>2. CASE n # j + 1
      BY <3>2, <2>1 DEF AddingUpTo
    <3> QED
      BY <3>1, <3>2
  <2>3. AddingUpTo(r, bytes, j + 1, h)
    BY <2>2 DEF AddingUpTo
  <2> QED
    BY <2>3
<1> HIDE DEF S
<1>3. Nat \subseteq S
  BY <1>1, <1>2, Induction
<1> QED
  BY <1>3 DEF S

LEMMA AddingDef ==
  ASSUME NEW r, NEW bytes, Len(bytes) \in Nat
  PROVE  AddingUpTo(r, bytes, Len(bytes), Adding(r, bytes))
<1>1. \E g : AddingUpTo(r, bytes, Len(bytes), g)
  BY AddingDefined
<1> QED
  BY <1>1, Zenon DEF AddingUpTo, Adding

(* AddDataToBuf leaves a ring of bytes (usdl_buf.c 67-76).                 *)
LEMMA AddingIsRing ==
  ASSUME NEW r \in Rings, NEW bytes \in Seq(Byte)
  PROVE  Adding(r, bytes)[Len(bytes)] \in Rings
<1> DEFINE m == Len(bytes)
           f == Adding(r, bytes)
           S == {n \in Nat : n <= m => f[n] \in Rings}
<1>1. m \in Nat /\ \A n \in 1 .. m : bytes[n] \in Byte
  OBVIOUS
<1>2. AddingUpTo(r, bytes, m, f)
  BY <1>1, AddingDef
<1> HIDE DEF m, f
<1>3. \A n \in 0 .. m : f[n] = IF n = 0 THEN r ELSE Added(f[n - 1], bytes[n])
  BY <1>2 DEF AddingUpTo
<1>4. 0 \in S
  BY <1>1, <1>3
<1>5. ASSUME NEW n \in Nat, n \in S PROVE n + 1 \in S
  <2> SUFFICES ASSUME n + 1 <= m PROVE f[n + 1] \in Rings
    OBVIOUS
  <2>1. f[n + 1] = Added(f[n], bytes[n + 1])
    BY <1>1, <1>3
  <2>2. f[n] \in Rings /\ bytes[n + 1] \in Byte
    BY <1>1, <1>5
  <2> QED
    BY <2>1, <2>2, AddedIsRing
<1> HIDE DEF S
<1>6. Nat \subseteq S
  BY <1>4, <1>5, Induction
<1> QED
  BY <1>1, <1>6 DEF S, m, f

LEMMA AddingOne == ASSUME NEW r, NEW b PROVE Adding(r, <<b>>)[1] = Added(r, b)
<1> DEFINE f == Adding(r, <<b>>)
<1>1. Len(<<b>>) = 1 /\ <<b>>[1] = b
  OBVIOUS
<1>2. AddingUpTo(r, <<b>>, 1, f)
  BY <1>1, AddingDef
<1> HIDE DEF f
<1>3. f[1] = Added(f[0], b) /\ f[0] = r
  BY <1>1, <1>2 DEF AddingUpTo
<1> QED
  BY <1>3 DEF f

-----------------------------------------------------------------------------
(* The frame a host builds.                                                *)

SumsUpTo(c, m, g) ==
  g = [j \in 0 .. m |-> IF j = 0 THEN 0 ELSE g[j - 1] + c[j]]

LEMMA SumsDefined ==
  ASSUME NEW c, NEW m \in Nat
  PROVE  \E g : SumsUpTo(c, m, g)
<1> DEFINE S == {n \in Nat : \E g : SumsUpTo(c, n, g)}
<1>1. 0 \in S
  <2>1. SumsUpTo(c, 0, [n \in 0 .. 0 |-> 0])
    BY DEF SumsUpTo
  <2> QED
    BY <2>1
<1>2. ASSUME NEW j \in Nat, j \in S PROVE j + 1 \in S
  <2>1. PICK g : SumsUpTo(c, j, g)
    BY <1>2
  <2> DEFINE h == [n \in 0 .. j + 1 |-> IF n = j + 1 THEN g[j] + c[j + 1] ELSE g[n]]
  <2>2. ASSUME NEW n \in 0 .. j + 1
        PROVE  h[n] = IF n = 0 THEN 0 ELSE h[n - 1] + c[n]
    <3>1. CASE n = j + 1
      BY <3>1
    <3>2. CASE n # j + 1
      BY <3>2, <2>1 DEF SumsUpTo
    <3> QED
      BY <3>1, <3>2
  <2>3. SumsUpTo(c, j + 1, h)
    BY <2>2 DEF SumsUpTo
  <2> QED
    BY <2>3
<1> HIDE DEF S
<1>3. Nat \subseteq S
  BY <1>1, <1>2, Induction
<1> QED
  BY <1>3 DEF S

(* The sum of bytes is a byte (usdl_calc.c 273-284).                       *)
LEMMA SumIsByte == ASSUME NEW c \in Seq(Byte) PROVE Get_Sum8(c) \in Byte
<1> DEFINE m == Len(c)
           sum[j \in 0 .. m] == IF j = 0 THEN 0 ELSE sum[j - 1] + c[j]
           S == {n \in Nat : n <= m => sum[n] \in Nat}
<1>1. m \in Nat /\ \A n \in 1 .. m : c[n] \in Nat
  BY DEF Byte
<1>2. SumsUpTo(c, m, sum)
  <2> HIDE DEF m
  <2>1. \E g : SumsUpTo(c, m, g)
    BY <1>1, SumsDefined
  <2> QED
    BY <2>1, Zenon DEF SumsUpTo
<1>3. Get_Sum8(c) = sum[m] % Bytes
  BY Zenon DEF Get_Sum8
<1> HIDE DEF m, sum
<1>4. \A n \in 0 .. m : sum[n] = IF n = 0 THEN 0 ELSE sum[n - 1] + c[n]
  BY <1>2 DEF SumsUpTo
<1>5. 0 \in S
  BY <1>1, <1>4
<1>6. ASSUME NEW n \in Nat, n \in S PROVE n + 1 \in S
  <2> SUFFICES ASSUME n + 1 <= m PROVE sum[n + 1] \in Nat
    OBVIOUS
  <2>1. sum[n + 1] = sum[n] + c[n + 1]
    BY <1>1, <1>4
  <2>2. sum[n] \in Nat /\ c[n + 1] \in Nat
    BY <1>1, <1>6
  <2> QED
    BY <2>1, <2>2
<1> HIDE DEF S
<1>7. Nat \subseteq S
  BY <1>5, <1>6, Induction
<1>8. sum[m] \in Nat
  BY <1>1, <1>7 DEF S
<1> QED
  BY <1>3, <1>8 DEF Byte

LEMMA FrameIsBytes == ASSUME NEW c \in Cmds PROVE Frame(c) \in Seq(Byte)
<1> DEFINE body == <<Len(c) + 4>> \o c
<1>1. body \in Seq(Byte)
  OBVIOUS
<1> HIDE DEF body
<1>2. <<HEAD>> \in Seq(Byte) /\ <<Get_Sum8(body), TAIL>> \in Seq(Byte)
  BY <1>1, SumIsByte
<1>3. Frame(c) = <<HEAD>> \o body \o <<Get_Sum8(body), TAIL>>
  BY DEF Frame, body
<1> QED
  BY <1>1, <1>2, <1>3

-----------------------------------------------------------------------------
(* The invariant of the loop.                                              *)

(* Where a pass is: what it has measured, read and judged.                 *)
PassInv ==
  /\ pc \in {"idle", "measure"} => k = 0 /\ len = 0 /\ added = 0
  /\ pc \in {"idle", "measure", "copy"} => i = 0
  /\ pc \in {"scan", "delete", "wait"} => k = len
  /\ pc = "delete" => del <= len
  /\ pc = "clear" => late

(* What is read is what the ring still holds, from the head at which it    *)
(* was measured on, as long as the interrupt has found room.               *)
ReadInv ==
  pc \in {"copy", "scan", "delete", "wait"} /\ len + added < Size =>
    /\ bTail = Wrap(head + (len + added))
    /\ bHead = IF pc = "copy" THEN Wrap(head + k) ELSE head
    /\ \A j \in 0 .. k - 1 : shot[j] = buf[Wrap(head + j)]

(* The search came to a place from which a frame fits, and from there over *)
(* nothing but heads.                                                      *)
PlaceInv ==
  pc = "scan" =>
    /\ i <= len
    /\ \E s \in 0 .. i : len - s >= MinLen /\ \A x \in s .. i - 1 : shot[x] = HEAD

LinkInv == TypeOK /\ PassInv /\ ReadInv /\ PlaceInv

LEMMA LinkInit == ASSUME Init PROVE LinkInv
<1> USE DEF Init
<1>1. TypeOK
  <2>1. HEAD \in Byte /\ 0 \in Byte /\ 0 \in Slots
    BY DEF Byte, Slots
  <2>2. buf \in [0 .. Size - 1 -> Byte] /\ shot \in [0 .. ShotSize - 1 -> Byte]
    BY <2>1
  <2>3. line \in Seq(Seq(Byte)) /\ Len(line) <= LineSize
    OBVIOUS
  <2>4. done \in Seq(Byte) /\ rest \in Seq(Byte) /\ want \in Cmds \union {NoCmd}
    BY DEF NoCmd
  <2> QED
    BY <2>1, <2>2, <2>3, <2>4 DEF TypeOK, Slots
<1>2. PassInv /\ ReadInv /\ PlaceInv
  BY DEF PassInv, ReadInv, PlaceInv
<1> QED
  BY <1>1, <1>2 DEF LinkInv

(* What happens outside the loop and the ring.                             *)
LEMMA OutsideKeeps ==
  ASSUME LinkInv, UNCHANGED <<kind, ring, pc, read, i, del, added, done>>,
         line' \in Seq(Seq(Byte)), Len(line') <= LineSize,
         late' \in BOOLEAN, late => late', quiet' \in BOOLEAN,
         want' \in Cmds \union {NoCmd}, rest' \in Seq(Byte), faults' \in 0 .. MaxFaults
  PROVE  LinkInv'
<1> USE DEF ring, read, LinkInv
<1>1. TypeOK'
  BY DEF TypeOK
<1>2. PassInv'
  BY DEF PassInv
<1>3. ReadInv'
  BY DEF ReadInv
<1>4. PlaceInv'
  BY DEF PlaceInv
<1> QED
  BY <1>1, <1>2, <1>3, <1>4

LEMMA FaultIsCounted == ASSUME LinkInv, Fault PROVE faults' \in 0 .. MaxFaults
BY DEF LinkInv, TypeOK, Fault

LEMMA RestGoes ==
  ASSUME NEW s \in Seq(Byte), s # << >>
  PROVE  Len(s) \in Nat \ {0} /\ s[1] \in Byte /\ Tail(s) \in Seq(Byte)
<1>1. Len(s) \in Nat \ {0}
  OBVIOUS
<1> QED
  BY <1>1

LEMMA MessageKeeps == ASSUME LinkInv, Message PROVE LinkInv'
<1> DEFINE n == Lesser(Chunk, Len(rest))
           queue == IF Len(line) = LineSize THEN Tail(line) ELSE line
<1> USE DEF Message
<1>1. rest \in Seq(Byte) /\ Len(rest) \in Nat \ {0} /\ line \in Seq(Seq(Byte))
      /\ Len(line) \in Nat /\ Len(line) <= LineSize
  BY RestGoes DEF LinkInv, TypeOK
<1>2. n \in 1 .. Len(rest)
  BY <1>1 DEF Lesser
<1>3. SubSeq(rest, 1, n) \in Seq(Byte) /\ SubSeq(rest, n + 1, Len(rest)) \in Seq(Byte)
  BY <1>1, <1>2
<1>4. queue \in Seq(Seq(Byte)) /\ Len(queue) < LineSize
  <2>1. CASE Len(line) = LineSize
    <3>1. line # << >>
      BY <1>1, <2>1
    <3>2. Tail(line) \in Seq(Seq(Byte)) /\ Len(Tail(line)) = Len(line) - 1
      BY <1>1, <3>1, HeadTailProperties
    <3> QED
      BY <1>1, <2>1, <3>2
  <2>2. CASE Len(line) # LineSize
    BY <1>1, <2>2
  <2> QED
    BY <2>1, <2>2
<1>5. LET q == Append(queue, SubSeq(rest, 1, n))
      IN  q \in Seq(Seq(Byte)) /\ Len(q) <= LineSize
  <2> HIDE DEF queue
  <2> QED
    BY <1>3, <1>4, AppendProperties
<1>6. rest' \in Seq(Byte)
  BY <1>3
<1>7. line' \in Seq(Seq(Byte)) /\ Len(line') <= LineSize
  <2>1. line' = line \/ line' = Append(queue, SubSeq(rest, 1, n))
    OBVIOUS
  <2> QED
    BY <1>1, <1>5, <2>1
<1>8. faults' \in 0 .. MaxFaults /\ quiet' \in BOOLEAN
  BY FaultIsCounted DEF LinkInv, TypeOK
<1>9. want' \in Cmds \union {NoCmd} /\ late' \in BOOLEAN
  BY DEF LinkInv, TypeOK, loop
<1> QED
  BY <1>6, <1>7, <1>8, <1>9, OutsideKeeps DEF loop

LEMMA HostKeeps == ASSUME LinkInv, Expire \/ (\E c \in Cmds : Ask(c)) \/ Repeat PROVE LinkInv'
<1>1. /\ line \in Seq(Seq(Byte)) /\ Len(line) <= LineSize /\ late \in BOOLEAN
      /\ quiet \in BOOLEAN /\ want \in Cmds \union {NoCmd} /\ rest \in Seq(Byte)
      /\ faults \in 0 .. MaxFaults
  BY DEF LinkInv, TypeOK
<1>2. CASE Expire
  <2>1. faults' \in 0 .. MaxFaults
    BY <1>1, <1>2, FaultIsCounted DEF Expire
  <2> QED
    BY <1>1, <1>2, <2>1, OutsideKeeps DEF Expire
<1>3. CASE \E c \in Cmds : Ask(c)
  <2>1. PICK c \in Cmds : Ask(c)
    BY <1>3
  <2>2. rest' \in Seq(Byte) /\ want' \in Cmds
    BY <2>1, FrameIsBytes DEF Ask
  <2> QED
    BY <1>1, <2>1, <2>2, OutsideKeeps DEF Ask, loop
<1>4. CASE Repeat
  <2>1. rest' \in Seq(Byte)
    BY <1>1, <1>4, FrameIsBytes DEF Repeat
  <2> QED
    BY <1>1, <1>4, <2>1, OutsideKeeps DEF Repeat, loop
<1> QED
  BY <1>2, <1>3, <1>4

LEMMA NowIsRing == ASSUME TypeOK PROVE Now \in Rings
BY DEF TypeOK, Now, Rings, Slots

(* A byte into the ring while the loop is somewhere in a pass.             *)
LEMMA ByteKeepsRead ==
  ASSUME LinkInv, NEW b \in Byte, Add(<<b>>), UNCHANGED <<pc, read>>
  PROVE  ReadInv'
<1> USE DEF read
<1> DEFINE t == Wrap(bTail + 1)
<1>1. SUFFICES ASSUME pc \in {"copy", "scan", "delete", "wait"}, len + added' < Size
               PROVE  /\ bTail' = Wrap(head + (len + added'))
                      /\ bHead' = IF pc = "copy" THEN Wrap(head + k) ELSE head
                      /\ \A j \in 0 .. k - 1 : shot[j] = buf'[Wrap(head + j)]
  BY DEF ReadInv
<1>2. /\ head \in Slots /\ bHead \in Slots /\ bTail \in Slots /\ len \in Slots /\ k \in 0 .. len
      /\ added \in 0 .. Size /\ buf \in [Slots -> Byte]
  BY DEF LinkInv, TypeOK, Slots
<1>3. added' = added + 1
  <2>1. added' = Lesser(added + 1, Size)
    BY <1>1 DEF Add
  <2> QED
    BY <1>1, <1>2, <2>1 DEF Lesser, Slots
<1> DEFINE n == len + added
<1>4. n \in Nat /\ n + 1 < Size /\ n \in Slots /\ len + added' = n + 1
  BY <1>1, <1>2, <1>3 DEF Slots
<1>5. /\ bTail = Wrap(head + n)
      /\ bHead = IF pc = "copy" THEN Wrap(head + k) ELSE head
      /\ \A j \in 0 .. k - 1 : shot[j] = buf[Wrap(head + j)]
  BY <1>1, <1>4 DEF LinkInv, ReadInv
<1>6. t = Wrap(head + (n + 1))
  BY <1>2, <1>4, <1>5, Onward
<1>7. t # bHead
  <2>1. head = Wrap(head + 0)
    BY <1>2, WrapIs DEF Slots
  <2>2. n + 1 \in Slots /\ k \in Slots /\ 0 \in Slots /\ n + 1 # k /\ n + 1 # 0
    BY <1>2, <1>4 DEF Slots
  <2> QED
    BY <1>2, <1>5, <1>6, <2>1, <2>2, Apart
<1>8. bTail' = t /\ bHead' = bHead /\ buf' = [buf EXCEPT ![bTail] = b]
  <2>1. Len(<<b>>) = 1
    OBVIOUS
  <2>2. bTail' = Added(Now, b).bTail /\ bHead' = Added(Now, b).bHead /\ buf' = Added(Now, b).buf
    BY <2>1, AddingOne DEF Add
  <2> QED
    BY <1>7, <2>2 DEF Added, Now
<1>9. ASSUME NEW j \in 0 .. k - 1 PROVE shot[j] = buf'[Wrap(head + j)]
  <2>1. j \in Slots /\ j # n
    BY <1>2, <1>4 DEF Slots
  <2>2. Wrap(head + j) # bTail /\ Wrap(head + j) \in Slots
    BY <1>2, <1>4, <1>5, <2>1, Apart, Onward
  <2> QED
    BY <1>2, <1>5, <1>8, <2>2
<1> QED
  BY <1>4, <1>5, <1>6, <1>8, <1>9

LEMMA AddKeepsTypes ==
  ASSUME TypeOK, NEW bytes \in Seq(Byte), Add(bytes)
  PROVE  /\ buf' \in [0 .. Size - 1 -> Byte] /\ bHead' \in 0 .. Size - 1
         /\ bTail' \in 0 .. Size - 1 /\ added' \in 0 .. Size
<1>1. Adding(Now, bytes)[Len(bytes)] \in Rings
  BY NowIsRing, AddingIsRing
<1>2. added' \in 0 .. Size
  BY DEF Add, TypeOK, Lesser
<1> QED
  BY <1>1, <1>2 DEF Add, Rings, Slots

LEMMA InterruptKeeps == ASSUME LinkInv, Interrupt PROVE LinkInv'
<1> USE DEF Interrupt
<1>1. /\ line \in Seq(Seq(Byte)) /\ Len(line) <= LineSize /\ late \in BOOLEAN
      /\ quiet \in BOOLEAN /\ want \in Cmds \union {NoCmd} /\ faults \in 0 .. MaxFaults
      /\ rest[1] \in Byte /\ rest' \in Seq(Byte)
  BY RestGoes DEF LinkInv, TypeOK
<1>2. CASE UNCHANGED <<ring, added, quiet>> /\ Fault
  BY <1>1, <1>2, FaultIsCounted, OutsideKeeps DEF loop
<1>3. CASE Add(<<rest[1]>>) /\ quiet' = FALSE /\ UNCHANGED faults
  <2>1. <<rest[1]>> \in Seq(Byte)
    BY <1>1
  <2>2. TypeOK'
    BY <1>1, <1>3, <2>1, AddKeepsTypes DEF LinkInv, TypeOK, loop, read
  <2>3. PassInv' /\ PlaceInv'
    BY <1>3 DEF LinkInv, PassInv, PlaceInv, loop, read, Add
  <2>4. ReadInv'
    BY <1>1, <1>3, ByteKeepsRead DEF loop
  <2> QED
    BY <2>2, <2>3, <2>4 DEF LinkInv
<1> QED
  BY <1>2, <1>3

LEMMA ReceiveKeeps == ASSUME LinkInv, Receive PROVE LinkInv'
<1> USE DEF Receive, Goto
<1>1. TypeOK'
  <2>1. CASE line # << >>
    <3>1. line \in Seq(Seq(Byte)) /\ Len(line) <= LineSize
      BY DEF LinkInv, TypeOK
    <3>2. Len(line) \in Nat \ {0}
      BY <2>1, <3>1
    <3>3. line[1] \in Seq(Byte) /\ Tail(line) \in Seq(Seq(Byte)) /\ Len(Tail(line)) = Len(line) - 1
      BY <2>1, <3>1, <3>2, HeadTailProperties
    <3>4. Len(line') <= LineSize
      BY <2>1, <3>1, <3>2, <3>3
    <3>5. Add(line[1])
      BY <2>1
    <3> QED
      BY <2>1, <3>3, <3>4, <3>5, AddKeepsTypes DEF LinkInv, TypeOK, read, host
  <2>2. CASE line = << >>
    BY <2>2 DEF LinkInv, TypeOK, ring, read, host
  <2> QED
    BY <2>1, <2>2
<1>2. PassInv'
  BY DEF LinkInv, PassInv, Add, read
<1>3. ReadInv' /\ PlaceInv'
  BY DEF ReadInv, PlaceInv
<1> QED
  BY <1>1, <1>2, <1>3 DEF LinkInv

LEMMA PassEnds ==
  ASSUME LinkInv, NEW p, Return(p), UNCHANGED <<kind, buf, host, done>>,
         bHead' \in 0 .. Size - 1, bTail' \in 0 .. Size - 1,
         line' \in Seq(Seq(Byte)), Len(line') <= LineSize,
         late' \in BOOLEAN, quiet' \in BOOLEAN
  PROVE  LinkInv'
<1> USE DEF Return, Goto
<1>1. shot' \in [0 .. ShotSize - 1 -> Byte]
  <2>1. 0 \in Byte
    BY DEF Byte
  <2> QED
    BY <2>1 DEF NoBytes
<1>2. TypeOK'
  BY <1>1 DEF LinkInv, TypeOK, host
<1>3. PassInv' /\ ReadInv' /\ PlaceInv'
  BY DEF PassInv, ReadInv, PlaceInv
<1> QED
  BY <1>2, <1>3 DEF LinkInv

LEMMA MeasureKeeps == ASSUME LinkInv, Measure PROVE LinkInv'
<1>0. /\ bHead \in Slots /\ bTail \in Slots /\ line \in Seq(Seq(Byte)) /\ Len(line) <= LineSize
  BY DEF LinkInv, TypeOK, Slots
<1>1. CASE bHead = bTail
  <2>1. Return("measure") /\ late' = FALSE /\ quiet' = (line = << >>)
        /\ UNCHANGED <<kind, ring, line, host, done>>
    BY <1>1 DEF Measure
  <2>2. quiet' \in BOOLEAN
    BY <2>1
  <2> QED
    BY <1>0, <2>1, <2>2, PassEnds DEF ring, Slots
<1>2. CASE bHead # bTail
  <2>1. /\ pc = "measure" /\ pc' = "copy" /\ len' = Length(bHead, bTail) /\ head' = bHead
        /\ UNCHANGED <<k, shot, i, del, late, added, quiet, kind, ring, line, host, done>>
    BY <1>2 DEF Measure, Goto
  <2>2. k = 0 /\ added = 0 /\ i = 0
    BY <2>1 DEF LinkInv, PassInv
  <2>3. len' \in Slots /\ Wrap(bHead + len') = bTail /\ Wrap(bHead + 0) = bHead
    BY <1>0, <2>1, LengthFrom, WrapIs DEF Slots
  <2>4. TypeOK'
    BY <1>0, <2>1, <2>2, <2>3 DEF LinkInv, TypeOK, ring, host, Slots
  <2>5. PassInv' /\ PlaceInv'
    BY <2>1, <2>2 DEF PassInv, PlaceInv
  <2>6. ReadInv'
    <3>1. len' + added' = len'
      BY <2>1, <2>2, <2>3 DEF Slots
    <3> QED
      BY <2>1, <2>2, <2>3, <3>1 DEF ReadInv, ring
  <2> QED
    BY <2>4, <2>5, <2>6 DEF LinkInv
<1> QED
  BY <1>1, <1>2

LEMMA CopyByteKeeps == ASSUME LinkInv, CopyByte PROVE LinkInv'
<1> USE DEF CopyByte
<1>1. /\ head \in Slots /\ bHead \in Slots /\ bTail \in Slots /\ len \in Slots
      /\ k \in 0 .. len /\ k < len /\ k' = k + 1 /\ added \in 0 .. Size
      /\ shot \in [0 .. ShotSize - 1 -> Byte] /\ buf \in [Slots -> Byte]
  BY DEF LinkInv, TypeOK, Slots
<1>2. k \in 0 .. ShotSize - 1 /\ k' \in 0 .. len /\ buf[bHead] \in Byte
  BY <1>1 DEF Slots
<1>3. bHead' \in Slots /\ shot' \in [0 .. ShotSize - 1 -> Byte]
  <2>1. Wrap(bHead + 1) \in Slots
    BY <1>1, WrapIs DEF Slots
  <2> QED
    BY <1>1, <1>2, <2>1
<1>4. TypeOK'
  BY <1>1, <1>2, <1>3 DEF LinkInv, TypeOK, host, Slots
<1>5. PassInv' /\ PlaceInv'
  BY DEF LinkInv, PassInv, PlaceInv
<1>6. ReadInv'
  <2> SUFFICES ASSUME len + added < Size
               PROVE  /\ bTail = Wrap(head + (len + added))
                      /\ bHead' = Wrap(head + (k + 1))
                      /\ \A j \in 0 .. k : shot'[j] = buf[Wrap(head + j)]
    BY <1>1 DEF ReadInv
  <2>1. /\ bTail = Wrap(head + (len + added)) /\ bHead = Wrap(head + k)
        /\ \A j \in 0 .. k - 1 : shot[j] = buf[Wrap(head + j)]
    BY DEF LinkInv, ReadInv
  <2>2. len + added \in Slots /\ k \in Slots /\ len + added # k
    BY <1>1 DEF Slots
  <2>3. bHead # bTail
    BY <1>1, <2>1, <2>2, Apart
  <2>4. bHead' = Wrap(head + (k + 1))
    <3>1. bHead' = Wrap(bHead + 1)
      BY <2>3
    <3>2. Wrap(Wrap(head + k) + 1) = Wrap(head + k + 1)
      BY <1>1, <2>2, Onward
    <3>3. head + k + 1 = head + (k + 1)
      BY <1>1 DEF Slots
    <3> QED
      BY <2>1, <3>1, <3>2, <3>3
  <2>5. shot' = [shot EXCEPT ![k] = buf[bHead]]
    BY <2>3
  <2>6. ASSUME NEW j \in 0 .. k PROVE shot'[j] = buf[Wrap(head + j)]
    <3>1. CASE j = k
      BY <1>1, <1>2, <2>1, <2>5, <3>1
    <3>2. CASE j # k
      BY <1>1, <1>2, <2>1, <2>5, <3>2
    <3> QED
      BY <3>1, <3>2
  <2> QED
    BY <2>1, <2>4, <2>6
<1> QED
  BY <1>4, <1>5, <1>6 DEF LinkInv

LEMMA CopiedKeeps == ASSUME LinkInv, Copied PROVE LinkInv'
<1> USE DEF Copied, Goto
<1>1. k = len /\ bHead' = head /\ pc = "copy" /\ pc' = (IF len >= MinLen THEN "scan" ELSE "wait")
  OBVIOUS
<1>2. TypeOK'
  BY DEF LinkInv, TypeOK, host, read
<1>3. PassInv'
  BY DEF LinkInv, PassInv, read
<1>4. ReadInv'
  BY <1>1 DEF LinkInv, ReadInv, read
<1>5. PlaceInv'
  <2>1. i = 0 /\ len \in Nat
    BY <1>1 DEF LinkInv, PassInv, TypeOK
  <2>2. ASSUME len >= MinLen
        PROVE  i <= len /\ \E s \in 0 .. i : len - s >= MinLen /\ \A x \in s .. i - 1 : shot[x] = HEAD
    <3>1. 0 \in 0 .. i /\ len - 0 >= MinLen /\ \A x \in 0 .. i - 1 : shot[x] = HEAD
      BY <2>1, <2>2
    <3> QED
      BY <2>1, <3>1
  <2> QED
    BY <1>1, <2>2 DEF PlaceInv, read
<1> QED
  BY <1>2, <1>3, <1>4, <1>5 DEF LinkInv

LEMMA DeleteKeeps == ASSUME LinkInv, Delete PROVE LinkInv'
<1> USE DEF Delete
<1>1. /\ bHead \in Slots /\ bTail \in Slots /\ line \in Seq(Seq(Byte)) /\ Len(line) <= LineSize
      /\ quiet \in BOOLEAN /\ del \in Nat
  BY DEF LinkInv, TypeOK, Slots
<1>2. bHead' \in Slots
  <2>1. Length(bHead, bTail) \in Slots
    BY <1>1, LengthFrom
  <2>2. bHead + Lesser(del, Length(bHead, bTail)) \in 0 .. 2 * Size - 1
    BY <1>1, <2>1 DEF Lesser, Slots
  <2> QED
    BY <2>2, WrapIs
<1> QED
  BY <1>1, <1>2, PassEnds DEF Slots

LEMMA ClearKeeps == ASSUME LinkInv, Clear PROVE LinkInv'
<1> USE DEF Clear
<1>1. /\ bHead \in Slots /\ head \in Slots /\ line \in Seq(Seq(Byte)) /\ Len(line) <= LineSize
      /\ quiet \in BOOLEAN
  BY DEF LinkInv, TypeOK, Slots
<1> QED
  BY <1>1, PassEnds DEF Slots

LEMMA WaitKeeps == ASSUME LinkInv, Wait PROVE LinkInv'
<1>1. /\ bHead \in Slots /\ bTail \in Slots /\ line \in Seq(Seq(Byte)) /\ Len(line) <= LineSize
      /\ quiet \in BOOLEAN
  BY DEF LinkInv, TypeOK, Slots
<1>2. CASE late /\ kind = "uart"
  <2>1. /\ pc = "wait" /\ pc' = "clear" /\ head' = bHead
        /\ UNCHANGED <<k, shot, len, i, del, late, added, quiet, line, kind, ring, host, done>>
    BY <1>2 DEF Wait, Goto
  <2>2. TypeOK'
    BY <1>1, <2>1 DEF LinkInv, TypeOK, ring, host, Slots
  <2>3. PassInv' /\ ReadInv' /\ PlaceInv'
    BY <1>2, <2>1 DEF PassInv, ReadInv, PlaceInv
  <2> QED
    BY <2>2, <2>3 DEF LinkInv
<1>3. CASE ~(late /\ kind = "uart")
  <2>1. /\ Return("wait") /\ late' = FALSE /\ UNCHANGED <<kind, ring, host, done>>
        /\ line' \in {line, << >>}
        /\ quiet' \in {quiet, len = Length(bHead, bTail) /\ line = << >>}
    BY <1>3 DEF Wait
  <2>2. quiet' \in BOOLEAN
    BY <1>1, <2>1
  <2>3. line' \in Seq(Seq(Byte)) /\ Len(line') <= LineSize
    <3>1. << >> \in Seq(Seq(Byte)) /\ Len(<< >>) = 0
      OBVIOUS
    <3>2. CASE line' = line
      BY <1>1, <3>2
    <3>3. CASE line' = << >>
      <4>1. Len(line') = 0 /\ line' \in Seq(Seq(Byte))
        BY <3>1, <3>3
      <4> QED
        BY <4>1
    <3> QED
      BY <2>1, <3>2, <3>3
  <2> QED
    BY <1>1, <2>1, <2>2, <2>3, PassEnds DEF ring, Slots
<1> QED
  BY <1>2, <1>3

-----------------------------------------------------------------------------
(* The search, when what was read does not end in a run of heads.          *)

(* What the theorems on the search assume of the bytes that come in: no    *)
(* pass reads MinLen heads at the end.  With such a run the search, which  *)
(* passes over a head by one byte, comes to the last bytes read, takes a   *)
(* length from the array behind them, which an earlier pass has left, and  *)
(* len - i wraps (canbus_middle.c 572, 586-595).  Nothing in the loader    *)
(* prevents it.                                                            *)
NoRunOfHeads == pc = "scan" => \E x \in len - MinLen .. len - 1 : shot[x] # HEAD

(* It stays in what was read, and so does the length it takes from behind  *)
(* a head.                                                                 *)
LEMMA SearchStays == ASSUME LinkInv, NoRunOfHeads PROVE ScanInBounds
<1> SUFFICES ASSUME pc = "scan" PROVE i < len /\ (shot[i] = HEAD => i + 1 < len)
  BY DEF ScanInBounds
<1>1. i \in Nat /\ len \in Slots /\ i <= len
  BY DEF LinkInv, TypeOK, PlaceInv, Slots
<1>2. PICK s \in 0 .. i : len - s >= MinLen /\ \A x \in s .. i - 1 : shot[x] = HEAD
  BY DEF LinkInv, PlaceInv
<1>3. PICK x \in len - MinLen .. len - 1 : shot[x] # HEAD
  BY DEF NoRunOfHeads
<1>4. x \in Nat /\ s <= x /\ x < len
  BY <1>1, <1>2, <1>3 DEF Slots
<1>5. x \notin s .. i - 1
  BY <1>2, <1>3
<1>6. i <= x
  BY <1>1, <1>2, <1>4, <1>5
<1> QED
  BY <1>1, <1>3, <1>4, <1>6 DEF Slots

(* A judgement of a search that stays.                                     *)
LEMMA SearchTypes ==
  ASSUME LinkInv, Scanning, i' \in Nat, del' \in Nat,
         pc' \in {"scan", "delete", "wait"}, pc' = "delete" => del' <= len,
         done' \in Seq(Byte), want' \in Cmds \union {NoCmd}, rest' = rest,
         faults' \in 0 .. MaxFaults, PlaceInv'
  PROVE  LinkInv'
<1> USE DEF Scanning, ring, read
<1>1. TypeOK'
  BY DEF LinkInv, TypeOK
<1>2. PassInv'
  BY DEF LinkInv, PassInv
<1>3. ReadInv'
  BY DEF LinkInv, ReadInv
<1> QED
  BY <1>1, <1>2, <1>3 DEF LinkInv

LEMMA RejectKeeps ==
  ASSUME LinkInv, Scanning, NEW j \in Nat, Reject(j), j <= len
  PROVE  LinkInv'
<1>1. /\ done \in Seq(Byte) /\ want \in Cmds \union {NoCmd} /\ faults \in 0 .. MaxFaults
  BY DEF LinkInv, TypeOK
<1>2. PlaceInv'
  BY DEF Reject, PlaceInv
<1> QED
  BY <1>1, <1>2, SearchTypes DEF Reject, host

LEMMA ContinueKeeps ==
  ASSUME LinkInv, Scanning, NEW j \in Nat, Continue(j), j <= len,
         NEW s \in 0 .. j, len - s >= MinLen, \A x \in s .. j - 1 : shot[x] = HEAD
  PROVE  LinkInv'
<1>1. /\ done \in Seq(Byte) /\ want \in Cmds \union {NoCmd} /\ faults \in 0 .. MaxFaults
      /\ del \in Nat
  BY DEF LinkInv, TypeOK
<1>2. PlaceInv'
  BY DEF Continue, Scanning, read, PlaceInv
<1> QED
  BY <1>1, <1>2, SearchTypes DEF Continue, Scanning, host

LEMMA SearchStep == ASSUME LinkInv, ScanInBounds, Search PROVE LinkInv'
<1>1. i \in Nat /\ len \in Slots /\ i < len
  BY DEF ScanInBounds, LinkInv, TypeOK, Slots, Search, Scanning
<1>2. PICK j \in i + 1 .. i + ShotSize :
        Stops(j) /\ IF AtLeast(j, MinLen) THEN Continue(j) ELSE Reject(j)
  BY DEF Search
<1>3. j \in Nat /\ j <= len
  <2>1. j \in Nat /\ i < j
    BY <1>1, <1>2
  <2>2. CASE j = i + 1
    BY <1>1, <2>1, <2>2 DEF Slots
  <2>3. CASE j # i + 1
    <3>1. j - 1 \in i + 1 .. j - 1
      BY <1>1, <2>1, <2>3
    <3>2. j - 1 < len
      BY <1>2, <3>1 DEF Stops
    <3> QED
      BY <1>1, <2>1, <3>2 DEF Slots
  <2> QED
    BY <2>2, <2>3
<1>4. CASE AtLeast(j, MinLen)
  <2>1. len - j >= MinLen /\ j \in 0 .. j
    BY <1>1, <1>3, <1>4 DEF AtLeast, Slots
  <2>2. \A x \in j .. j - 1 : shot[x] = HEAD
    BY <1>3
  <2>3. Continue(j)
    BY <1>2, <1>4
  <2> QED
    BY <1>3, <2>1, <2>2, <2>3, ContinueKeeps DEF Search
<1>5. CASE ~AtLeast(j, MinLen)
  BY <1>2, <1>3, <1>5, RejectKeeps DEF Search
<1> QED
  BY <1>4, <1>5

LEMMA SkipStep == ASSUME LinkInv, ScanInBounds, SkipLength \/ SkipFrame PROVE LinkInv'
<1>1. Scanning /\ shot[i] = HEAD /\ Continue(i + 1)
  BY DEF SkipLength, SkipFrame, Complete
<1>2. i \in Nat /\ len \in Slots /\ i + 1 <= len
  BY <1>1 DEF ScanInBounds, LinkInv, TypeOK, Slots, Scanning
<1>3. PICK s \in 0 .. i : len - s >= MinLen /\ \A x \in s .. i - 1 : shot[x] = HEAD
  BY <1>1 DEF LinkInv, PlaceInv, Scanning
<1>4. s \in 0 .. i + 1 /\ \A x \in s .. (i + 1) - 1 : shot[x] = HEAD
  BY <1>1, <1>2, <1>3
<1> QED
  BY <1>1, <1>2, <1>3, <1>4, ContinueKeeps

LEMMA IncompleteStep == ASSUME LinkInv, Incomplete PROVE LinkInv'
<1>1. Scanning /\ i \in Nat /\ i <= len
  BY DEF LinkInv, TypeOK, PlaceInv, Incomplete, Scanning
<1>2. CASE i = 0
  <2>1. pc' = "wait" /\ UNCHANGED <<i, del, host, done>>
    BY <1>2 DEF Incomplete
  <2>2. /\ done \in Seq(Byte) /\ want \in Cmds \union {NoCmd} /\ faults \in 0 .. MaxFaults
        /\ del \in Nat
    BY DEF LinkInv, TypeOK
  <2>3. PlaceInv'
    BY <2>1 DEF PlaceInv
  <2> QED
    BY <1>1, <2>1, <2>2, <2>3, SearchTypes DEF host
<1>3. CASE i # 0
  BY <1>1, <1>3, RejectKeeps DEF Incomplete
<1> QED
  BY <1>2, <1>3

LEMMA AcceptStep == ASSUME LinkInv, ScanInBounds, Accept PROVE LinkInv'
<1> DEFINE n == LengthAt(i)
<1>1. Scanning /\ Complete
  BY DEF Accept
<1>2. i \in Nat /\ len \in Nat /\ len < ShotSize /\ i + 1 < len
  BY <1>1 DEF ScanInBounds, LinkInv, TypeOK, Scanning, Complete
<1>3. shot \in [0 .. ShotSize - 1 -> Byte]
  BY DEF LinkInv, TypeOK
<1>4. n \in Nat /\ 3 < n /\ i + n <= len
  <2>1. n \in Byte
    BY <1>2, <1>3 DEF LengthAt
  <2>2. Legal(n) /\ AtLeast(i, n)
    BY <1>1 DEF Complete
  <2>3. n \in Nat
    BY <2>1 DEF Byte
  <2> HIDE DEF n
  <2> QED
    BY <1>2, <2>2, <2>3 DEF Legal, AtLeast
<1>5. done' \in Seq(Byte)
  <2>1. n - 4 \in Nat
    BY <1>4
  <2>2. ASSUME NEW x \in 1 .. n - 4 PROVE shot[i + 1 + x] \in Byte
    <3>1. i + 1 + x \in 0 .. ShotSize - 1
      BY <1>2, <1>4
    <3> QED
      BY <1>3, <3>1
  <2>3. CmdAt(i) \in [1 .. n - 4 -> Byte]
    BY <2>2 DEF CmdAt
  <2>4. CmdAt(i) \in Seq(Byte)
    BY <2>1, <2>3, SeqDef
  <2> QED
    BY <2>4 DEF Accept
<1>6. del' \in Nat /\ del' <= len /\ i' \in Nat /\ pc' = "delete" /\ rest' = rest
  BY <1>2, <1>4 DEF Accept
<1>7. want' \in Cmds \union {NoCmd} /\ faults' \in 0 .. MaxFaults
  <2>1. want \in Cmds \union {NoCmd} /\ faults \in 0 .. MaxFaults
    BY DEF LinkInv, TypeOK
  <2> QED
    BY <2>1 DEF Accept
<1>8. PlaceInv'
  BY <1>6 DEF PlaceInv
<1> QED
  BY <1>1, <1>5, <1>6, <1>7, <1>8, SearchTypes

LEMMA LinkStep == ASSUME LinkInv, ScanInBounds, [Next]_vars PROVE LinkInv'
<1>1. CASE Anylise
  BY <1>1, SearchStep, SkipStep, IncompleteStep, AcceptStep DEF Anylise
<1>2. CASE UNCHANGED vars
  <2>1. /\ line \in Seq(Seq(Byte)) /\ Len(line) <= LineSize /\ late \in BOOLEAN
        /\ quiet \in BOOLEAN /\ want \in Cmds \union {NoCmd} /\ rest \in Seq(Byte)
        /\ faults \in 0 .. MaxFaults
    BY DEF LinkInv, TypeOK
  <2> QED
    BY <1>2, <2>1, OutsideKeeps DEF vars, loop, host
<1> QED
  BY <1>1, <1>2, ReceiveKeeps, MeasureKeeps, CopyByteKeeps, CopiedKeeps, DeleteKeeps,
     WaitKeeps, ClearKeeps, InterruptKeeps, MessageKeeps, HostKeeps DEF Next, Loop, Send

LEMMA LinkAlways == Spec /\ []NoRunOfHeads => []LinkInv
<1>1. Init => LinkInv
  BY LinkInit
<1>2. LinkInv /\ NoRunOfHeads /\ [Next]_vars => LinkInv'
  BY LinkStep, SearchStays
<1> QED
  BY <1>1, <1>2, PTL DEF Spec

(* Types, if no pass reads a run of heads at the end: what is executed was *)
(* read, and no index leaves its array.                                    *)
THEOREM LinkTyped == Spec /\ []NoRunOfHeads => []TypeOK
<1>1. LinkInv => TypeOK
  BY DEF LinkInv
<1> QED
  BY <1>1, LinkAlways, PTL

(* The search stays in what was read, and takes no length from behind it,  *)
(* as long as that does not end in as many heads as a frame has bytes at   *)
(* least (canbus_middle.c 562-595).                                        *)
THEOREM SearchInBounds == Spec /\ []NoRunOfHeads => []ScanInBounds
<1>1. LinkInv /\ NoRunOfHeads => ScanInBounds
  BY SearchStays
<1> QED
  BY <1>1, LinkAlways, PTL

LEMMA JudgedIsDeleted == ASSUME LinkInv PROVE DeletesJudged
<1> SUFFICES ASSUME pc = "delete", len + added < Size
             PROVE  /\ del <= Length(bHead, bTail)
                    /\ \A j \in 0 .. del - 1 : buf[Wrap(bHead + j)] = shot[j]
  BY DEF DeletesJudged
<1>1. /\ head \in Slots /\ len \in Slots /\ added \in 0 .. Size /\ del \in Nat
      /\ del <= len /\ k = len
  BY DEF LinkInv, TypeOK, PassInv, Slots
<1>2. /\ bTail = Wrap(head + (len + added)) /\ bHead = head
      /\ \A j \in 0 .. k - 1 : shot[j] = buf[Wrap(head + j)]
  BY DEF LinkInv, ReadInv
<1>3. len + added \in Slots
  BY <1>1 DEF Slots
<1>4. Length(bHead, bTail) = len + added
  BY <1>1, <1>2, <1>3, LengthIs
<1> QED
  BY <1>1, <1>2, <1>4 DEF Slots

(* What is deleted is what was judged, although the interrupt moves the    *)
(* ring's tail at any time and ReadDataFromBuf its head, unless more came  *)
(* in than there was room for (usdl_buf.c 123-175, ota_protocol.c          *)
(* 411-422).                                                               *)
THEOREM DeletesWhatItJudged == Spec /\ []NoRunOfHeads => []DeletesJudged
<1>1. LinkInv => DeletesJudged
  BY JudgedIsDeleted
<1> QED
  BY <1>1, LinkAlways, PTL
=============================================================================
