----------------------------- MODULE Lamp_proofs -----------------------------
(***************************************************************************)
(* Proofs about Lamp for any number of lamps and any commands: what the    *)
(* lamps show, that the last whole command is obeyed, and that none is     *)
(* that was not sent.                                                      *)
(***************************************************************************)
EXTENDS Lamp, TLAPS

USE HalfAssumption DEF Lamps

-----------------------------------------------------------------------------
(* What the lamps show.                                                    *)

LampTypeOK == /\ pc \in {"wait", "read", "clear", "show", "step", "full", "on", "dark"}
              /\ num \in Nat
              /\ lit \in [Colours -> SUBSET Lamps]

(* Inside a mode the loop variable is in its range.                        *)
InMode == /\ pc \in {"on", "dark"} => Style(mode) = "blink"
          /\ pc = "full" => Style(mode) = "fill"
          /\ pc = "step" => Style(mode) \in Moving /\ num < Rounds(Style(mode))

PictureInv == LampTypeOK /\ InMode /\ Picture

LEMMA Styles == \A c : Style(c) \in {"off", "on", "blink", "fill", "scan", "spread",
                                     "ripple", "add", "none"}
BY DEF Style

LEMMA PictureInit == ASSUME Init PROVE PictureInv
BY DEF Init, PictureInv, LampTypeOK, InMode, Picture, Style

(* Steps that stay away from the lamps.                                    *)
LEMMA TakingKeeps ==
  ASSUME PictureInv, UNCHANGED <<num, lit>>, pc' \in {"read", "clear", "show"}
  PROVE  PictureInv'
BY DEF PictureInv, LampTypeOK, InMode, Picture

LEMMA ShowAllKeeps == ASSUME PictureInv, ShowAll PROVE PictureInv'
<1> USE DEF PictureInv, LampTypeOK, ShowAll, Step
<1>1. LampTypeOK' /\ InMode'
  BY DEF InMode, Fresh, Light
<1>2. Picture'
  <2>1. CASE Style(mode) = "off"
    BY <2>1 DEF Picture, Shown, Fresh
  <2>2. CASE Style(mode) \in {"on", "add"}
    <3>1. Style(mode) = "on" => Paint(mode) = Colours
      BY DEF Style, Paint
    <3> QED
      BY <2>2, <3>1 DEF Picture, Shown, Light
  <2>3. CASE Style(mode) = "none"
    BY <2>3 DEF Picture
  <2> QED
    BY <2>1, <2>2, <2>3
<1> QED
  BY <1>1, <1>2

LEMMA BlinkKeeps == ASSUME PictureInv, Blink PROVE PictureInv'
<1> USE DEF PictureInv, LampTypeOK, Blink, Step
<1>1. Style(mode) = "blink" /\ mode' = mode
  BY DEF InMode
<1>2. LampTypeOK' /\ InMode'
  BY <1>1 DEF InMode, Fresh, Light
<1>3. Picture'
  BY <1>1 DEF Picture, Shown, Fresh, Light
<1> QED
  BY <1>2, <1>3

LEMMA FirstRoundKeeps == ASSUME PictureInv, FirstRound PROVE PictureInv'
<1> USE DEF PictureInv, LampTypeOK, FirstRound, Step
<1>1. LampTypeOK' /\ InMode'
  BY DEF InMode, Fresh, Moving, Rounds
<1>2. Picture'
  <2> DEFINE s == Style(mode)
             first == (OnAt(s, 0) \ OffAt(s, 0)) \intersect Lamps
  <2>1. s \in {"fill", "scan"} => first = {0}
    BY DEF OnAt, OffAt
  <2>2. s \in {"spread", "ripple"} => first = {Half}
    BY DEF OnAt, OffAt
  <2>3. \A c \in Colours : lit'[c] = IF c \in Paint(mode) THEN first ELSE {}
    BY DEF Fresh
  <2>4. Shown(s, 0)' = first
    BY <2>1, <2>2 DEF Shown, Moving
  <2> QED
    BY <2>3, <2>4 DEF Picture, Moving
<1> QED
  BY <1>1, <1>2

LEMMA NextRoundKeeps == ASSUME PictureInv, NextRound PROVE PictureInv'
<1> USE DEF PictureInv, LampTypeOK, NextRound, Step
<1>1. LampTypeOK' /\ InMode'
  BY DEF InMode, Light
<1>2. Picture'
  <2> DEFINE s == Style(mode)
             n == num + 1
             now(c) == ((lit[c] \union OnAt(s, n)) \ OffAt(s, n)) \intersect Lamps
  <2>1. s \in Moving /\ n \in Nat /\ n < Rounds(s)
    BY DEF InMode
  <2>2. ASSUME NEW c \in Colours, c \in Paint(mode)
        PROVE  lit[c] = Shown(s, num) /\ lit'[c] = now(c)
    BY <2>1, <2>2 DEF Picture, Moving, Light
  <2>3. ASSUME NEW c \in Colours, c \notin Paint(mode)
        PROVE  lit'[c] = {}
    BY <2>1, <2>3 DEF Picture, Moving, Light
  <2>4. ASSUME NEW c \in Colours, c \in Paint(mode)
        PROVE  lit'[c] = Shown(s, num)'
    <3> num' = n /\ pc = "step" /\ pc' = "step" /\ mode' = mode
      OBVIOUS
    <3>1. CASE s = "fill"
      <4>1. n < 2 * Half + 1 /\ now(c) = (0 .. num \union {n}) \intersect Lamps
        BY <2>1, <2>2, <2>4, <3>1 DEF Shown, OnAt, OffAt, Rounds
      <4>2. now(c) = 0 .. n
        BY <2>1, <4>1
      <4> QED
        BY <2>2, <2>4, <3>1, <4>2 DEF Shown
    <3>2. CASE s = "scan"
      <4>1. now(c) = {n} \intersect Lamps
        BY <2>1, <2>2, <2>4, <3>2 DEF Shown, OnAt, OffAt
      <4> QED
        BY <2>2, <2>4, <3>2, <4>1 DEF Shown
    <3>3. CASE s = "spread"
      <4>1. n < Half + 1 /\ now(c) = (Half - num .. Half + num \union {Half + n, Half - n}) \intersect Lamps
        BY <2>1, <2>2, <2>4, <3>3 DEF Shown, OnAt, OffAt, Rounds
      <4>2. now(c) = Half - n .. Half + n
        BY <2>1, <4>1
      <4> QED
        BY <2>2, <2>4, <3>3, <4>2 DEF Shown
    <3>4. CASE s = "ripple"
      <4>1. n < Half + 1 /\ now(c) = {Half + n, Half - n} \intersect Lamps
        BY <2>1, <2>2, <2>4, <3>4 DEF Shown, OnAt, OffAt, Rounds
      <4> QED
        BY <2>1, <2>2, <2>4, <3>4, <4>1 DEF Shown
    <3> QED
      BY <2>1, <3>1, <3>2, <3>3, <3>4 DEF Moving
  <2> QED
    BY <2>1, <2>3, <2>4 DEF Picture, Moving
<1> QED
  BY <1>1, <1>2

LEMMA EndRoundsKeeps == ASSUME PictureInv, EndRounds PROVE PictureInv'
<1> USE DEF PictureInv, LampTypeOK, EndRounds, Step
<1>1. LampTypeOK' /\ InMode'
  BY DEF InMode
<1>2. Picture'
  <2> DEFINE s == Style(mode)
  <2>1. s \in Moving /\ num + 1 = Rounds(s)
    BY DEF InMode
  <2>2. Shown(s, num)' = Shown(s, num)
    <3>1. CASE s = "fill"
      BY <2>1, <3>1 DEF Shown, Rounds
    <3>2. CASE s = "scan"
      BY <2>1, <3>2 DEF Shown, Rounds
    <3>3. CASE s \in {"spread", "ripple"}
      <4>1. num = Half
        BY <2>1, <3>3 DEF Rounds
      <4>2. Half - num = 0 /\ Half + num = 2 * Half
        BY <4>1
      <4>3. num' = num /\ pc = "step" /\ pc' = "wait" /\ mode' = mode
        BY <3>3
      <4> QED
        BY <3>3, <4>2, <4>3 DEF Shown
    <3> QED
      BY <2>1, <3>1, <3>2, <3>3 DEF Moving
  <2> QED
    BY <2>1, <2>2 DEF Picture, Moving
<1> QED
  BY <1>1, <1>2

LEMMA UnfillKeeps == ASSUME PictureInv, Unfill PROVE PictureInv'
BY DEF PictureInv, LampTypeOK, InMode, Picture, Shown, Unfill, Step, Light

(* At each delay exactly the lamps of the mode are on (gpio.c 113-447).    *)
THEOREM LampsShowMode == Spec => []Picture
<1>1. Init => PictureInv
  BY PictureInit
<1>2. PictureInv /\ [Next]_vars => PictureInv'
  <2> SUFFICES ASSUME PictureInv, [Next]_vars PROVE PictureInv'
    OBVIOUS
  <2>1. CASE Test
    <3>1. CASE RxFlag = 1
      BY <2>1, <3>1, TakingKeeps DEF Test, Step
    <3>2. CASE RxFlag # 1
      BY <2>1, <3>2, TakingKeeps DEF Test, Step
    <3> QED
      BY <3>1, <3>2
  <2>2. CASE Take \/ Clear
    BY <2>2, TakingKeeps DEF Take, Clear, Step
  <2>3. CASE Interrupt \/ HostStep \/ UNCHANGED vars
    BY <2>3 DEF Interrupt, HostStep, vars, thread, PictureInv, LampTypeOK, InMode, Picture, Shown
  <2> QED
    BY <2>1, <2>2, <2>3, ShowAllKeeps, BlinkKeeps, FirstRoundKeeps, NextRoundKeeps,
       EndRoundsKeeps, UnfillKeeps DEF Next, Thread
<1>3. PictureInv => Picture
  BY DEF PictureInv
<1> QED
  BY <1>1, <1>2, <1>3, PTL DEF Spec

-----------------------------------------------------------------------------
(* The last whole command.                                                 *)

(* Where the command is, from the end of its frame until it is obeyed.     *)
LatestInv == /\ pc = "read" => RxFlag = 1
             /\ quiet => /\ RxFlag = 1 /\ pc # "clear" => RxBuffer = last
                         /\ RxFlag = 0 \/ pc = "clear" => mode = last

LEMMA LatestInit == ASSUME Init PROVE LatestInv
BY DEF Init, FrameInit, LatestInv

LEMMA LatestThread == ASSUME LatestInv, Thread PROVE LatestInv'
<1> USE DEF LatestInv, frameVars, Step
<1>1. CASE Test
  BY <1>1 DEF Test
<1>2. CASE Take
  BY <1>2 DEF Take
<1>3. CASE Clear
  BY <1>3 DEF Clear
<1>4. CASE ShowAll \/ Blink \/ FirstRound \/ NextRound \/ EndRounds \/ Unfill
  <2>1. UNCHANGED <<RxFlag, RxBuffer, last, mode, quiet>>
        /\ pc \notin {"read", "clear"} /\ pc' \notin {"read", "clear"}
    BY <1>4 DEF ShowAll, Blink, FirstRound, NextRound, EndRounds, Unfill
  <2> QED
    BY <2>1
<1> QED
  BY <1>1, <1>2, <1>3, <1>4 DEF Thread

LEMMA LatestInterrupt == ASSUME LatestInv, Interrupt PROVE LatestInv'
<1> DEFINE temp == Head(line)
<1> USE DEF LatestInv, Interrupt, thread
<1>1. CASE GetHead(temp) \/ GetLength(temp) \/ GetCS(temp)
  BY <1>1 DEF GetHead, GetLength, GetCS
<1>2. CASE GetData(temp)
  BY <1>2 DEF GetData
<1>3. CASE GetEnd(temp)
  <2>1. CASE temp = FrameEnd
    <3>1. (quiet' => pc # "clear") /\ RxFlag' = 1 /\ RxBuffer' = last' /\ pc' = pc
      BY <1>3, <2>1 DEF GetEnd
    <3> QED
      BY <3>1
  <2>2. CASE temp # FrameEnd
    <3>1. UNCHANGED <<quiet, RxFlag, RxBuffer, last, pc, mode>>
      BY <1>3, <2>2 DEF GetEnd
    <3> QED
      BY <3>1
  <2> QED
    BY <2>1, <2>2
<1> QED
  BY <1>1, <1>2, <1>3 DEF Receive

(* The last whole command is obeyed unless it came while the thread took   *)
(* the one before or was overwritten (gpio.c 969-973).                     *)
THEOREM LastCommandIsObeyed == Spec => []LatestObeyed
<1>1. Init => LatestInv
  BY LatestInit
<1>2. LatestInv /\ [Next]_vars => LatestInv'
  <2> SUFFICES ASSUME LatestInv, [Next]_vars PROVE LatestInv'
    OBVIOUS
  <2>1. CASE HostStep
    BY <2>1 DEF HostStep, Send, Lose, LatestInv, thread
  <2>2. CASE UNCHANGED vars
    BY <2>2 DEF vars, frameVars, thread, LatestInv
  <2> QED
    BY <2>1, <2>2, LatestThread, LatestInterrupt DEF Next
<1>3. LatestInv => LatestObeyed
  BY DEF LatestInv, LatestObeyed
<1> QED
  BY <1>1, <1>2, <1>3, PTL DEF Spec

-----------------------------------------------------------------------------
(* The bytes of the command line, for a host whose commands are not the    *)
(* head of a frame (the modes of gpio.c go up to 27).  With such a command *)
(* the automaton could take a lost frame's command for the head, and the   *)
(* byte after it for a length the buffer has no room for.                  *)

NoHeads == \A S \in CodeSets : FrameHead \notin S

(* What is on the line is the end of a frame.                              *)
LineInv ==
  /\ codes \in CodeSets
  /\ want \in Byte /\ hurt \in BOOLEAN
  /\ line \in Seq(Byte) /\ Len(line) <= 5
  /\ line # <<>> => want \in codes
  /\ \A j \in 1 .. Len(line) : line[j] = Frame(want)[j + 5 - Len(line)]

(* The automaton takes a byte for a length or for the first of the data    *)
(* only where a frame has it, or where a byte lost just before has put it. *)
PlaceInv ==
  /\ state \in {"Head", "Length", "Data", "CS", "End"}
  /\ length \in Byte /\ i \in 0 .. BufferSize - 1 /\ cs \in Byte
  /\ state = "Length" => \/ Len(line) = 4
                         \/ Len(line) = 3 /\ hurt /\ want \in 1 .. BufferSize
  /\ state = "Data" => /\ length \in 1 .. BufferSize /\ i < length
                       /\ i = 0 => \/ Len(line) = 3
                                   \/ Len(line) = 2 /\ hurt
  /\ state # "Data" => i = 0

(* What the buffer holds was sent, from the first byte of data on.         *)
SentInv ==
  /\ RxBuffer \in Byte /\ RxFlag \in {0, 1} /\ last \in Byte
  /\ state \in {"CS", "End"} \/ (state = "Data" /\ i > 0) \/ RxFlag = 1
     => RxBuffer \in codes
  /\ pc = "read" => RxFlag = 1
  /\ OnlySent

FrameInv == LineInv /\ PlaceInv /\ SentInv

LEMMA BytesOfFrame ==
  ASSUME NEW c
  PROVE  /\ Len(Frame(c)) = 5
         /\ Frame(c)[1] = FrameHead /\ Frame(c)[2] = 1
         /\ Frame(c)[3] = c /\ Frame(c)[4] = c /\ Frame(c)[5] = FrameEnd
BY DEF Frame

LEMMA XorIsByte == ASSUME NEW a, NEW b PROVE Xor(a, b) \in Byte
BY DEF Xor, Byte

LEMMA CodeIsByte == ASSUME LineInv, NEW c \in codes PROVE c \in Byte
BY LampAssumption DEF LineInv

LEMMA HeadAndTail ==
  ASSUME NEW S, NEW s \in Seq(S), s # <<>>
  PROVE  /\ Len(s) \in Nat \ {0}
         /\ Head(s) = s[1] /\ s[1] \in S
         /\ Tail(s) \in Seq(S) /\ Len(Tail(s)) = Len(s) - 1
         /\ \A j \in 1 .. Len(s) - 1 : Tail(s)[j] = s[j + 1]
<1>1. Len(s) \in Nat \ {0}
  OBVIOUS
<1> QED
  BY <1>1

(* The byte that comes next, and what is left when it is gone.             *)
LEMMA NextByte ==
  ASSUME LineInv, line # <<>>
  PROVE  /\ Len(line) \in 1 .. 5
         /\ Head(line) = Frame(want)[6 - Len(line)] /\ Head(line) \in Byte
         /\ Tail(line) \in Seq(Byte) /\ Len(Tail(line)) = Len(line) - 1
         /\ \A j \in 1 .. Len(line) - 1 :
              Tail(line)[j] = Frame(want)[j + 5 - (Len(line) - 1)]
<1>0. line \in Seq(Byte)
  BY DEF LineInv
<1>1. Len(line) \in 1 .. 5
  <2> DEFINE n == Len(line)
  <2>1. n \in Nat \ {0}
    BY <1>0, HeadAndTail
  <2>2. n <= 5
    BY DEF LineInv
  <2>3. \A x \in Nat \ {0} : x <= 5 => x \in 1 .. 5
    OBVIOUS
  <2> HIDE DEF n
  <2>4. n \in 1 .. 5
    BY <2>1, <2>2, <2>3
  <2> QED
    BY <2>4 DEF n
<1>2. Head(line) = line[1] /\ line[1] \in Byte
  BY <1>0, HeadAndTail
<1>3. /\ Tail(line) \in Seq(Byte) /\ Len(Tail(line)) = Len(line) - 1
      /\ \A j \in 1 .. Len(line) - 1 : Tail(line)[j] = line[j + 1]
  BY <1>0, HeadAndTail
<1>4. ASSUME NEW j \in 1 .. Len(line) - 1
      PROVE  Tail(line)[j] = Frame(want)[j + 5 - (Len(line) - 1)]
  <2>1. j + 1 \in 1 .. Len(line) /\ (j + 1) + 5 - Len(line) = j + 5 - (Len(line) - 1)
    BY <1>1
  <2>2. line[j + 1] = Frame(want)[(j + 1) + 5 - Len(line)]
    BY <2>1 DEF LineInv
  <2> QED
    BY <1>3, <2>1, <2>2
<1>5. line[1] = Frame(want)[1 + 5 - Len(line)] /\ 1 + 5 - Len(line) = 6 - Len(line)
  BY <1>1 DEF LineInv
<1> QED
  BY <1>1, <1>2, <1>3, <1>4, <1>5

LEMMA LineShrinks ==
  ASSUME LineInv, line # <<>>, line' = Tail(line), UNCHANGED <<codes, want>>,
         hurt' \in BOOLEAN
  PROVE  LineInv' /\ Len(line') = Len(line) - 1
<1>1. /\ Len(line) \in 1 .. 5
      /\ line' \in Seq(Byte) /\ Len(line') = Len(line) - 1
      /\ \A j \in 1 .. Len(line) - 1 : line'[j] = Frame(want)[j + 5 - (Len(line) - 1)]
  BY NextByte
<1>2. Frame(want)' = Frame(want)
  BY DEF Frame
<1>3. \A j \in 1 .. Len(line') : line'[j] = Frame(want)'[j + 5 - Len(line')]
  BY <1>1, <1>2
<1> QED
  BY <1>1, <1>3 DEF LineInv

LEMMA FrameInvInit == ASSUME Init PROVE FrameInv
<1> USE DEF Init, FrameInit
<1>1. LineInv
  <2>1. line \in Seq(Byte) /\ Len(line) = 0 /\ want \in Byte
    BY DEF Byte
  <2>2. Len(line) <= 5 /\ 1 .. Len(line) = {}
    <3>1. Len(line) = 0
      BY <2>1
    <3> QED
      BY <3>1
  <2>3. codes \in CodeSets /\ hurt \in BOOLEAN /\ line = <<>>
    OBVIOUS
  <2>4. \A j \in 1 .. Len(line) : line[j] = Frame(want)[j + 5 - Len(line)]
    BY <2>2
  <2> QED
    BY <2>1, <2>2, <2>3, <2>4 DEF LineInv
<1>2. PlaceInv
  BY LampAssumption DEF PlaceInv, Byte
<1>3. SentInv
  BY DEF SentInv, OnlySent, Byte
<1> QED
  BY <1>1, <1>2, <1>3 DEF FrameInv

LEMMA SendKeeps == ASSUME FrameInv, Send PROVE LineInv' /\ PlaceInv'
<1> USE DEF FrameInv, LineInv, Send
<1>1. want' \in Byte
  BY CodeIsByte
<1>2. line' \in Seq(Byte) /\ Len(line') = 5
  BY <1>1 DEF Frame, Byte, FrameHead, FrameEnd
<1>3. LineInv'
  <2>1. line' = Frame(want')
    OBVIOUS
  <2>2. ASSUME NEW j \in 1 .. Len(line')
        PROVE  line'[j] = Frame(want')[j + 5 - Len(line')]
    <3>1. j + 5 - Len(line') = j
      BY <1>2
    <3> QED
      BY <2>1, <3>1
  <2>3. codes' = codes /\ want' \in codes /\ hurt' \in BOOLEAN
    OBVIOUS
  <2>4. Len(line') <= 5
    <3>1. Len(line') = 5
      BY <1>2
    <3> QED
      BY <3>1
  <2>5. codes' \in CodeSets
    BY <2>3
  <2> QED
    BY <1>1, <1>2, <2>2, <2>3, <2>4, <2>5
<1>4. PlaceInv'
  BY DEF PlaceInv, automaton
<1> QED
  BY <1>3, <1>4

LEMMA LoseKeeps == ASSUME FrameInv, Lose PROVE LineInv' /\ PlaceInv'
<1> USE DEF FrameInv, Lose
<1>1. LineInv' /\ Len(line') = Len(line) - 1 /\ Len(line) \in Nat
  BY LineShrinks DEF LineInv
<1>2. PlaceInv'
  BY <1>1 DEF PlaceInv, automaton
<1> QED
  BY <1>1, <1>2

(* One byte into the automaton.                                            *)
LEMMA ByteKeeps ==
  ASSUME FrameInv, Receive, UNCHANGED thread, NoHeads
  PROVE  FrameInv'
<1> DEFINE temp == Head(line)
<1> USE DEF FrameInv, Receive
<1>1. LineInv' /\ Len(line') = Len(line) - 1
  BY LineShrinks DEF LineInv
<1>2. /\ Len(line) \in 1 .. 5 /\ temp = Frame(want)[6 - Len(line)] /\ temp \in Byte
      /\ want \in codes /\ want \in Byte /\ want # FrameHead
  BY NextByte DEF LineInv, NoHeads
<1>3. /\ Len(line) = 5 <=> temp = FrameHead
      /\ Len(line) = 4 => temp = 1
      /\ Len(line) \in {2, 3} => temp = want
  <2>1. Len(line) = 1 => temp = FrameEnd
    BY <1>2, BytesOfFrame
  <2>2. Len(line) = 2 => temp = want
    BY <1>2, BytesOfFrame
  <2>5. Len(line) = 3 => temp = want
    BY <1>2, BytesOfFrame
  <2>3. Len(line) = 4 => temp = 1
    BY <1>2, BytesOfFrame
  <2>4. Len(line) = 5 => temp = FrameHead
    BY <1>2, BytesOfFrame
  <2> HIDE DEF temp
  <2> QED
    BY <1>2, <2>1, <2>2, <2>3, <2>4, <2>5 DEF FrameHead, FrameEnd
<1> HIDE DEF temp
<1>4. GetHead(temp) \/ GetLength(temp) \/ GetData(temp) \/ GetCS(temp) \/ GetEnd(temp)
  BY DEF temp
<1>0. UNCHANGED <<codes, want, hurt>> /\ hurt \in BOOLEAN
  BY DEF LineInv
<1> USE DEF thread
<1> HIDE DEF Receive
<1>5. CASE GetHead(temp)
  <2>1. PlaceInv'
    <3>1. CASE temp = FrameHead
      <4>1. state' = "Length" /\ length' = 0 /\ i' = 0 /\ cs' = 0
        BY <1>5, <3>1 DEF GetHead
      <4>2. Len(line) = 5
        BY <1>3, <3>1
      <4>3. Len(line') = 4
        BY <1>1, <4>2
      <4> QED
        BY <4>1, <4>3, LampAssumption DEF PlaceInv, Byte
    <3>2. CASE temp # FrameHead
      BY <1>0, <1>5, <3>2 DEF GetHead, PlaceInv, automaton
    <3> QED
      BY <3>1, <3>2
  <2>2. SentInv'
    BY <1>0, <1>5 DEF GetHead, SentInv, OnlySent, automaton
  <2> QED
    BY <1>1, <2>1, <2>2
<1>6. CASE GetLength(temp)
  <2>1. PlaceInv'
    <3>1. length' = temp /\ state' = "Data" /\ i' = 0 /\ cs' = cs
      BY <1>6 DEF GetLength, PlaceInv
    <3>2. CASE Len(line) = 4
      BY <1>0, <1>1, <1>2, <1>3, <3>1, <3>2, LampAssumption DEF PlaceInv, Byte
    <3>3. CASE Len(line) = 3 /\ hurt /\ want \in 1 .. BufferSize
      BY <1>0, <1>1, <1>2, <1>3, <3>1, <3>3, LampAssumption DEF PlaceInv, Byte
    <3> QED
      BY <1>6, <3>2, <3>3 DEF GetLength, PlaceInv
  <2>2. SentInv'
    BY <1>0, <1>6 DEF GetLength, SentInv, PlaceInv, OnlySent
  <2> QED
    BY <1>1, <2>1, <2>2
<1>7. CASE GetData(temp)
  <2>1. i \in Nat /\ i < 255 /\ length \in Nat /\ length <= BufferSize
        /\ i < length /\ cs' \in Byte /\ BufferSize \in Nat
    BY <1>7, LampAssumption, XorIsByte DEF GetData, PlaceInv
  <2>2. i = 0 => temp \in codes
    BY <1>2, <1>3, <1>7 DEF GetData, PlaceInv
  <2>3. (i + 1) % 256 = i + 1
    BY <2>1
  <2>4. PlaceInv'
    BY <1>0, <1>7, <2>1, <2>3 DEF GetData, PlaceInv
  <2>5. RxBuffer' \in codes /\ RxBuffer' \in Byte
    BY <1>2, <1>7, <2>1, <2>2 DEF GetData, SentInv
  <2>6. SentInv'
    BY <1>0, <1>7, <2>5 DEF GetData, SentInv, OnlySent
  <2> QED
    BY <1>1, <2>4, <2>6
<1>8. CASE GetCS(temp)
  <2>1. PlaceInv'
    BY <1>0, <1>8 DEF GetCS, PlaceInv
  <2>2. SentInv'
    BY <1>0, <1>8 DEF GetCS, SentInv, OnlySent
  <2> QED
    BY <1>1, <2>1, <2>2
<1>9. CASE GetEnd(temp)
  <2>1. PlaceInv'
    BY <1>0, <1>9 DEF GetEnd, PlaceInv
  <2>2. SentInv'
    BY <1>0, <1>9 DEF GetEnd, SentInv, OnlySent
  <2> QED
    BY <1>1, <2>1, <2>2
<1> QED
  BY <1>4, <1>5, <1>6, <1>7, <1>8, <1>9

LEMMA ThreadKeepsFrame == ASSUME FrameInv, Thread PROVE FrameInv'
<1> USE DEF frameVars, Step
<1>1. UNCHANGED <<host, automaton, RxBuffer, last>> /\ RxFlag' \in {RxFlag, 0}
      /\ mode' \in {mode, RxBuffer}
  BY DEF Thread, Test, Take, Clear, ShowAll, Blink, FirstRound, NextRound, EndRounds, Unfill
<1>2. LineInv'
  BY <1>1 DEF FrameInv, LineInv, host, Frame
<1>3. PlaceInv'
  BY <1>1 DEF FrameInv, PlaceInv, host, automaton
<1>4. pc' = "read" => RxFlag' = 1
  BY DEF Thread, Test, Take, Clear, ShowAll, Blink, FirstRound, NextRound, EndRounds, Unfill
<1>5. OnlySent'
  <2>1. mode' # mode => pc = "read" /\ mode' = RxBuffer
    BY DEF Thread, Test, Take, Clear, ShowAll, Blink, FirstRound, NextRound, EndRounds, Unfill
  <2> QED
    BY <1>1, <2>1 DEF FrameInv, SentInv, OnlySent, host
<1>6. SentInv'
  BY <1>1, <1>4, <1>5 DEF FrameInv, SentInv, host, automaton
<1> QED
  BY <1>2, <1>3, <1>6 DEF FrameInv

LEMMA FrameInvStep == ASSUME FrameInv, [Next]_vars, NoHeads PROVE FrameInv'
<1>1. CASE HostStep
  <2>1. LineInv' /\ PlaceInv'
    BY <1>1, SendKeeps, LoseKeeps DEF HostStep
  <2>2. SentInv'
    BY <1>1 DEF HostStep, Send, Lose, automaton, thread, FrameInv, SentInv, OnlySent
  <2> QED
    BY <2>1, <2>2 DEF FrameInv
<1>2. CASE Interrupt
  BY <1>2, ByteKeeps DEF Interrupt
<1>3. CASE UNCHANGED vars
  BY <1>3 DEF vars, frameVars, host, automaton, thread, FrameInv, LineInv, PlaceInv, SentInv,
     OnlySent, Frame
<1> QED
  BY <1>1, <1>2, <1>3, ThreadKeepsFrame DEF Next

LEMMA FrameInvAlways == ASSUME NoHeads PROVE Spec => []FrameInv
<1>1. Init => FrameInv
  BY FrameInvInit
<1>2. FrameInv /\ [Next]_vars => FrameInv'
  BY FrameInvStep
<1> QED
  BY <1>1, <1>2, PTL DEF Spec

(* The thread obeys no command that was not sent, whatever bytes are lost  *)
(* and whenever it reads the buffer (canbus_middle.c 145-215, gpio.c       *)
(* 968-973).                                                               *)
THEOREM ObeysOnlyWhatWasSent == ASSUME NoHeads PROVE Spec => []OnlySent
<1>1. FrameInv => OnlySent
  BY DEF FrameInv, SentInv
<1> QED
  BY <1>1, FrameInvAlways, PTL

(* Types: above all, the index never leaves USART1_RxBuffer, and the loop  *)
(* variables of the modes stay in their range (canbus_middle.c 175,        *)
(* gpio.c 113-447).                                                        *)
THEOREM LampTyped == ASSUME NoHeads PROVE Spec => []TypeOK
<1> DEFINE Rest == /\ pc \in {"wait", "read", "clear", "show", "step", "full", "on", "dark"}
                   /\ num \in 0 .. 2 * Half + 1
                   /\ lit \in [Colours -> SUBSET Lamps]
                   /\ quiet \in BOOLEAN
<1>1. Init => Rest
  BY DEF Init
<1>2. Rest /\ [Next]_vars => Rest'
  <2> SUFFICES ASSUME Rest, [Next]_vars PROVE Rest'
    OBVIOUS
  <2>1. CASE NextRound
    <3>1. Rounds(Style(mode)) \in Nat /\ Rounds(Style(mode)) <= 2 * Half + 2
      BY DEF Rounds
    <3> QED
      BY <2>1, <3>1 DEF NextRound, Step, Light
  <2>2. CASE FirstRound
    BY <2>2 DEF FirstRound, Step, Fresh
  <2>3. CASE ShowAll \/ Blink \/ Unfill
    BY <2>3 DEF ShowAll, Blink, Unfill, Step, Fresh, Light
  <2>4. CASE Test \/ Take \/ Clear \/ EndRounds
    BY <2>4 DEF Test, Take, Clear, EndRounds, Step
  <2>5. CASE Interrupt
    <3>1. quiet' \in BOOLEAN
      BY <2>5 DEF Interrupt
    <3> QED
      BY <2>5, <3>1 DEF Interrupt, thread
  <2>6. CASE HostStep \/ UNCHANGED vars
    BY <2>6 DEF HostStep, vars, thread
  <2> QED
    BY <2>1, <2>2, <2>3, <2>4, <2>5, <2>6 DEF Next, Thread
<1>3. FrameInv /\ Rest => TypeOK
  <2>1. ASSUME FrameInv PROVE FrameTypeOK /\ mode \in Byte
    <3>1. /\ codes \in CodeSets /\ line \in Seq(Byte) /\ Len(line) <= 5
          /\ want \in Byte /\ hurt \in BOOLEAN
      BY <2>1 DEF FrameInv, LineInv
    <3>2. /\ state \in {"Head", "Length", "Data", "CS", "End"}
          /\ length \in Byte /\ i \in 0 .. BufferSize - 1 /\ cs \in Byte
      BY <2>1 DEF FrameInv, PlaceInv
    <3>3. RxBuffer \in Byte /\ RxFlag \in {0, 1} /\ last \in Byte
      BY <2>1 DEF FrameInv, SentInv
    <3>4. mode \in codes \union {255} /\ codes \subseteq Byte
      BY <2>1, <3>1, LampAssumption DEF FrameInv, SentInv, OnlySent
    <3>5. mode \in Byte
      BY <3>4 DEF Byte
    <3> QED
      BY <3>1, <3>2, <3>3, <3>5 DEF FrameTypeOK
  <2> QED
    BY <2>1 DEF TypeOK
<1> HIDE DEF Rest
<1> QED
  BY <1>1, <1>2, <1>3, FrameInvAlways, PTL DEF Spec
=============================================================================
