------------------------------ MODULE FrameLink ------------------------------
(***************************************************************************)
(* How the loader gets a command out of a stream of bytes: the ring of     *)
(* bytes (usdl_buf.c), the loops that read and clear it                    *)
(* (OTA_Periodic_Handle of ota_protocol.c for the UART,                    *)
(* CAN_OTA_Periodic_Handle of canbus_middle.c for the CAN bus), and the    *)
(* search for a frame, which is the same in both and in the application    *)
(* (can_ota_protocol.c).  A host sends one command at a time and repeats   *)
(* it until it is answered.                                                *)
(*                                                                         *)
(* The two links differ in two ways.  The UART's interrupt adds a byte to  *)
(* the ring between any two steps of the loop, even while the loop reads   *)
(* the ring with its bHead moved; the CAN loop takes one message per pass   *)
(* from the driver's ring (CanRing, LossyQueue) and adds its bytes itself. *)
(* And a timeout clears the byte ring of the UART, but for CAN the         *)
(* driver's ring.                                                          *)
(*                                                                         *)
(* A frame is <<HEAD, length, command ..., sum, TAIL>>, with one byte of   *)
(* length and bytes below Bytes; the rest of the header (identifiers) is   *)
(* part of the command.  The limits of the length and the sizes of the     *)
(* ring and the array are scaled with it, in the order of the code's: a    *)
(* frame has 8 to 1280 (UART) or 1460 (CAN) bytes, the ring 1024, of which *)
(* one stays free, and the array 2048.                                     *)
(***************************************************************************)
EXTENDS Naturals, SequencesExt

CONSTANTS
  Kinds,       \* the links: "uart", "can"
  Size,        \* RxBufSize
  ShotSize,    \* size of the array the ring is read into
  MinLen, MaxLen,  \* the limits of a frame's length
  HEAD, TAIL,  \* the bytes at its ends
  Bytes,       \* how many values a byte has
  Cmds,        \* the commands, sequences of bytes
  Chunk,       \* bytes in a CAN message
  LineSize,    \* messages in the driver's ring
  MaxFaults    \* bound on lost bytes, messages and answers, early timeouts

Byte  == 0 .. Bytes - 1
NoCmd == << >>

ASSUME LinkAssumption ==
  /\ Kinds \subseteq {"uart", "can"}
  /\ Size \in Nat \ {0} /\ ShotSize \in Nat /\ Size <= ShotSize
  /\ MinLen \in Nat /\ MaxLen \in Nat /\ 3 < MinLen
  /\ Bytes \in Nat \ {0} /\ {HEAD, TAIL} \subseteq Byte
  /\ \A c \in Cmds : c \in Seq(Byte) /\ Len(c) + 4 \in Byte
  /\ Chunk \in Nat \ {0} /\ LineSize \in Nat \ {0}
  /\ MaxFaults \in Nat

VARIABLES
  kind,        \* the link
  buf, bHead, bTail,  \* the ring of bytes: buf->Head, buf->Tail
  line,        \* messages in the driver's ring (CAN)
  pc,          \* where the loop is
  head,        \* a bHead in a register: ReadDataFromBuf restores it,
               \* stm32_uart_clear makes it the bTail
  k,           \* its loop variable
  shot, len,   \* what it reads, and how much
  i,           \* where the search is
  del,         \* info.del_len
  late,        \* the timeout has passed
  added,       \* bytes added since this pass measured the ring, up to Size
  want,        \* the command the host wants answered
  rest,        \* what is left to send of its frame
  quiet,       \* the loop has seen all that was sent
  faults,      \* how many faults there were
  done         \* the command executed last

ring == <<buf, bHead, bTail>>
read == <<head, k, shot, len>>
loop == <<pc, read, i, del, late>>
host == <<want, rest, faults>>
vars == <<kind, ring, line, loop, added, host, quiet, done>>

TypeOK ==
  /\ kind \in Kinds
  /\ buf \in [0 .. Size - 1 -> Byte]
  /\ bHead \in 0 .. Size - 1 /\ bTail \in 0 .. Size - 1
  /\ line \in Seq(Seq(Byte)) /\ Len(line) <= LineSize
  /\ pc \in {"idle", "measure", "copy", "scan", "delete", "wait", "clear"}
  /\ head \in 0 .. Size - 1
  /\ len \in 0 .. Size - 1 /\ k \in 0 .. len
  /\ shot \in [0 .. ShotSize - 1 -> Byte]
  /\ i \in Nat /\ del \in Nat
  /\ late \in BOOLEAN /\ quiet \in BOOLEAN
  /\ added \in 0 .. Size
  /\ want \in Cmds \union {NoCmd} /\ done \in Seq(Byte)
  /\ rest \in Seq(Byte)
  /\ faults \in 0 .. MaxFaults

Init ==
  /\ kind \in Kinds
  /\ buf = [j \in 0 .. Size - 1 |-> 0] /\ bHead = 0 /\ bTail = 0
  /\ line = << >>
  /\ pc = "idle" /\ head = 0 /\ k = 0 /\ len = 0
  /\ shot = [j \in 0 .. ShotSize - 1 |-> 0]
  /\ i = 0 /\ del = 0 /\ late = FALSE /\ added = 0
  /\ want = NoCmd /\ rest = << >> /\ faults = 0
  /\ quiet = TRUE /\ done = NoCmd

-----------------------------------------------------------------------------
(* The ring, usdl_buf.c.                                                   *)

Wrap_Forgotten(n) == n

Wrap(n) == n % Size

Lesser(a, b) == IF a < b THEN a ELSE b

(* GetLenFromBuf *)
Length(h, t) == (Size + t - h) % Size

(* AddByteToBuf: a full ring drops its oldest byte.                        *)
Added(r, b) ==
  LET t == Wrap(r.bTail + 1)
  IN  [buf   |-> [r.buf EXCEPT ![r.bTail] = b],
       bTail |-> t,
       bHead |-> IF t = r.bHead THEN Wrap(r.bHead + 1) ELSE r.bHead]

Now == [buf |-> buf, bHead |-> bHead, bTail |-> bTail]

(* AddDataToBuf: the ring after each of the bytes.                         *)
Adding(r, bytes) ==
  LET ringAt[n \in 0 .. Len(bytes)] ==
        IF n = 0 THEN r ELSE Added(ringAt[n - 1], bytes[n])
  IN  ringAt

Add(bytes) ==
  LET r == Adding(Now, bytes)[Len(bytes)]
  IN  /\ buf' = r.buf /\ bHead' = r.bHead /\ bTail' = r.bTail
      /\ added' = IF pc \in {"idle", "measure"} THEN 0 ELSE Lesser(added + Len(bytes), Size)

-----------------------------------------------------------------------------
(* The frame.                                                              *)

Get_Sum8(s) ==
  LET sum[j \in 0 .. Len(s)] == IF j = 0 THEN 0 ELSE sum[j - 1] + s[j]
  IN  sum[Len(s)] % Bytes

Frame(c) ==
  LET body == <<Len(c) + 4>> \o c
  IN  <<HEAD>> \o body \o <<Get_Sum8(body), TAIL>>

LengthAt(j) == shot[j + 1]

Legal(n) == MinLen <= n /\ n <= MaxLen

EndsWell_Unchecked(j) == TRUE

EndsWell(j) ==
  LET n == LengthAt(j)
  IN  shot[j + n - 1] = TAIL /\ shot[j + n - 2] = Get_Sum8([x \in 1 .. n - 3 |-> shot[j + x]])

(* The bytes from j to the end of what was read, as an unsigned number:    *)
(* past the end it is huge.                                                *)
AtLeast(j, n) == j > len \/ len - j >= n

(* Commands that a host can send without the link losing a byte of its     *)
(* own, however slow the loop is: their frames have a legal length, two of *)
(* them fit the ring of bytes, and one of them the driver's.               *)
Fits ==
  /\ NoCmd \notin Cmds
  /\ \A c \in Cmds : /\ Legal(Len(Frame(c)))
                     /\ "can" \in Kinds => Len(Frame(c)) <= Chunk * LineSize
  /\ \A c, d \in Cmds : Len(Frame(c)) + Len(Frame(d)) < Size

-----------------------------------------------------------------------------
(* The loop.                                                               *)

Goto(from, to) == pc = from /\ pc' = to

NoBytes == [j \in 0 .. ShotSize - 1 |-> 0]

(* The end of a pass: its local variables are gone.                        *)
Return(from) == /\ Goto(from, "idle")
                /\ head' = 0 /\ k' = 0 /\ len' = 0 /\ shot' = NoBytes
                /\ i' = 0 /\ del' = 0 /\ added' = 0

(* A pass for CAN begins with a message from the driver's ring.            *)
Receive ==
  /\ Goto("idle", "measure")
  /\ IF line # << >>
     THEN Add(line[1]) /\ line' = Tail(line)
     ELSE UNCHANGED <<ring, added, line>>
  /\ UNCHANGED <<kind, read, i, del, late, host, quiet, done>>

(* ReadDataFromBuf works on the shared bHead and puts it back.             *)
Measure ==
  /\ IF bHead = bTail
     THEN Return("measure") /\ late' = FALSE /\ quiet' = (line = << >>)
     ELSE /\ Goto("measure", "copy")
          /\ len' = Length(bHead, bTail) /\ head' = bHead
          /\ UNCHANGED <<k, shot, i, del, late, added, quiet>>
  /\ UNCHANGED <<kind, ring, line, host, done>>

CopyByte ==
  /\ pc = "copy" /\ k < len
  /\ IF bHead # bTail
     THEN shot' = [shot EXCEPT ![k] = buf[bHead]] /\ bHead' = Wrap(bHead + 1)
     ELSE UNCHANGED <<shot, bHead>>
  /\ k' = k + 1
  /\ UNCHANGED <<kind, buf, bTail, line, pc, head, len, i, del, late, added, host, quiet, done>>

Copied_KeepsHead ==
  /\ k = len
  /\ Goto("copy", IF len >= MinLen THEN "scan" ELSE "wait")
  /\ UNCHANGED <<kind, ring, line, read, i, del, late, added, host, quiet, done>>

Copied ==
  /\ k = len
  /\ Goto("copy", IF len >= MinLen THEN "scan" ELSE "wait")
  /\ bHead' = head
  /\ UNCHANGED <<kind, buf, bTail, line, read, i, del, late, added, host, quiet, done>>

-----------------------------------------------------------------------------
(* The search for a frame: can500_protocol_anylise, OTA_Protocol_Anylise.  *)

Scanning == /\ pc = "scan"
            /\ UNCHANGED <<kind, ring, line, read, late, added, quiet>>

Continue(j) == i' = j /\ UNCHANGED <<pc, del, host, done>>

Reject(j) == /\ i' = j /\ del' = j
             /\ pc' = "delete"
             /\ UNCHANGED <<host, done>>

(* The for loop stops at the next head, or at the end of what was read.    *)
Stops(j) == /\ j > i /\ (j < len => shot[j] = HEAD)
            /\ \A x \in i + 1 .. j - 1 : x < len /\ shot[x] # HEAD

Search_On ==
  /\ Scanning
  /\ shot[i] # HEAD
  /\ \E j \in i + 1 .. i + ShotSize : Stops(j) /\ Continue(j)

Search ==
  /\ Scanning
  /\ shot[i] # HEAD
  /\ \E j \in i + 1 .. i + ShotSize :
       Stops(j) /\ IF AtLeast(j, MinLen) THEN Continue(j) ELSE Reject(j)

SkipLength ==
  /\ Scanning
  /\ shot[i] = HEAD /\ ~Legal(LengthAt(i))
  /\ Continue(i + 1)

(* Not all of the frame is there: wait for the rest, or first delete what  *)
(* comes before it.                                                        *)
Incomplete ==
  /\ Scanning
  /\ shot[i] = HEAD /\ Legal(LengthAt(i)) /\ ~AtLeast(i, LengthAt(i))
  /\ IF i = 0 THEN pc' = "wait" /\ UNCHANGED <<i, del, host, done>>
              ELSE Reject(i)

Complete == /\ shot[i] = HEAD /\ Legal(LengthAt(i)) /\ AtLeast(i, LengthAt(i))

SkipFrame_Whole ==
  /\ Scanning
  /\ Complete /\ ~EndsWell(i)
  /\ Continue(i + LengthAt(i))

SkipFrame ==
  /\ Scanning
  /\ Complete /\ ~EndsWell(i)
  /\ Continue(i + 1)

CmdAt(j) == [x \in 1 .. LengthAt(j) - 4 |-> shot[j + 1 + x]]

(* The command is executed and answered; the answer may get lost.          *)
Accept ==
  /\ Scanning
  /\ Complete /\ EndsWell(i)
  /\ del' = i + LengthAt(i)
  /\ pc' = "delete"
  /\ done' = CmdAt(i)
  /\ \/ /\ want' = (IF want = done' THEN NoCmd ELSE want)
        /\ UNCHANGED faults
     \/ /\ want = done' /\ faults < MaxFaults
        /\ faults' = faults + 1
        /\ UNCHANGED want
  /\ UNCHANGED <<i, rest>>

Anylise == Search \/ SkipLength \/ Incomplete \/ SkipFrame \/ Accept

-----------------------------------------------------------------------------
(* After the search.  DelDataFromBuf deletes what was judged, from the     *)
(* ring as it is now.                                                      *)

Delete_Nothing ==
  /\ Return("delete")
  /\ late' = FALSE
  /\ UNCHANGED <<kind, ring, line, host, quiet, done>>

Delete ==
  /\ Return("delete")
  /\ bHead' = Wrap(bHead + Lesser(del, Length(bHead, bTail)))
  /\ late' = FALSE
  /\ UNCHANGED <<kind, buf, bTail, line, host, quiet, done>>

(* Waiting: a timeout clears the driver's ring of messages (CAN), or the   *)
(* ring of bytes (UART), for which it loads the head.                      *)
Wait ==
  /\ IF late /\ kind = "uart"
     THEN /\ Goto("wait", "clear") /\ head' = bHead
          /\ UNCHANGED <<k, shot, len, i, del, late, added, quiet, line>>
     ELSE /\ Return("wait") /\ late' = FALSE
          /\ line' = IF late THEN << >> ELSE line
          /\ quiet' = IF late THEN quiet ELSE len = Length(bHead, bTail) /\ line = << >>
  /\ UNCHANGED <<kind, ring, host, done>>

(* stm32_uart_clear stores the head it has loaded as the tail.  A byte that*)
(* came in between goes with the rest; if the ring was full, that byte has *)
(* moved the head on, and the ring stays full of what was to be cleared.   *)
Clear ==
  /\ Return("clear")
  /\ bTail' = head
  /\ late' = FALSE
  /\ UNCHANGED <<kind, buf, bHead, line, host, quiet, done>>

Loop == Receive \/ Measure \/ CopyByte \/ Copied \/ Anylise \/ Delete \/ Wait \/ Clear

-----------------------------------------------------------------------------
(* The bytes that arrive, the time that passes, and the host.              *)

Fault == faults < MaxFaults /\ faults' = faults + 1

(* The interrupt of the UART.                                              *)
Interrupt ==
  /\ kind = "uart" /\ rest # << >>
  /\ \/ Add(<<rest[1]>>) /\ quiet' = FALSE /\ UNCHANGED faults
     \/ Fault /\ UNCHANGED <<ring, added, quiet>>
  /\ rest' = Tail(rest)
  /\ UNCHANGED <<kind, line, loop, want, done>>

(* A message of at most Chunk bytes; a full ring drops its oldest.         *)
Message ==
  /\ kind = "can" /\ rest # << >>
  /\ LET n == Lesser(Chunk, Len(rest))
     IN  /\ \/ /\ line' = Append(IF Len(line) = LineSize THEN Tail(line) ELSE line,
                                 SubSeq(rest, 1, n))
               /\ quiet' = FALSE
               /\ UNCHANGED faults
            \/ Fault /\ UNCHANGED <<line, quiet>>
         /\ rest' = SubSeq(rest, n + 1, Len(rest))
  /\ UNCHANGED <<kind, ring, loop, added, want, done>>

(* Nothing is on its way, and the loop has seen all there is.              *)
Settled == quiet /\ rest = << >>

(* The timeout runs while a frame is not complete: 20 s for the UART, 1 s  *)
(* for CAN.  A frame on its way is caught by it at most MaxFaults times.   *)
Expire ==
  /\ ~late /\ bHead # bTail
  /\ late' = TRUE
  /\ \/ Settled /\ UNCHANGED faults
     \/ ~Settled /\ Fault
  /\ UNCHANGED <<kind, ring, line, pc, read, i, del, added, want, rest, quiet, done>>

Ask(c) ==
  /\ want = NoCmd /\ rest = << >> /\ ~late
  /\ want' = c /\ rest' = Frame(c)
  /\ UNCHANGED <<kind, ring, line, loop, added, faults, quiet, done>>

(* The host's patience is longer than the loop needs for what it was sent, *)
(* and the loop acts on a timeout before more arrives.                     *)
Repeat ==
  /\ want # NoCmd /\ Settled /\ ~late
  /\ rest' = Frame(want)
  /\ UNCHANGED <<kind, ring, line, loop, added, want, faults, quiet, done>>

Send == Interrupt \/ Message

Next == Loop \/ Send \/ Expire \/ (\E c \in Cmds : Ask(c)) \/ Repeat

(* The loop runs, bytes travel, time passes, the host does not give up.    *)
Spec == Init /\ [][Next]_vars

FairSpec == /\ Spec
            /\ WF_vars(Loop) /\ WF_vars(Send)
            /\ WF_vars(Expire /\ Settled) /\ SF_vars(Repeat)

-----------------------------------------------------------------------------
(* Properties.                                                             *)

(* The search does not leave what was read, nor does the length it takes   *)
(* from behind a head: the difference len - i that decides if it goes on   *)
(* does not wrap, and no old byte is judged (canbus_middle.c 572, 586-595).*)
(* It takes commands without long runs of heads: a run of MinLen of them   *)
(* at the end of what was read would lead the search out.                  *)
ScanInBounds == pc = "scan" => i < len /\ (shot[i] = HEAD => i + 1 < len)

(* What the search skips and deletes holds no whole frame, wherever false  *)
(* heads, lengths and tails lie in it (canbus_middle.c 562-621).           *)
WholeAt(j) == /\ shot[j] = HEAD /\ Legal(LengthAt(j))
              /\ j + LengthAt(j) <= len /\ EndsWell(j)

GoodFrameKept == pc \in {"scan", "delete"} =>
  \A j \in 0 .. i - 1 : ~WholeAt(j)

(* What is deleted from the ring is what was judged, though the interrupt  *)
(* has gone on adding, unless it added more than there was room for        *)
(* (ota_protocol.c 411-422, usdl_buf.c 165-172).                           *)
DeletesJudged == pc = "delete" /\ len + added < Size =>
  /\ del <= Length(bHead, bTail)
  /\ \A j \in 0 .. del - 1 : buf[Wrap(bHead + j)] = shot[j]

(* Nothing is executed that was not sent: fragments never pass for a frame *)
(* (canbus_middle.c 611-612).                                              *)
OnlySent == done \in Cmds \union {NoCmd}

(* Until something is lost, the only judgement the loop comes to is that   *)
(* of the command it is asked for: it executes that, and deletes its frame,*)
(* however the frame arrives in pieces and whenever the loop looks; it     *)
(* rejects nothing, and executes nothing a second time (canbus_middle.c    *)
(* 576-581, 610-622, ota_protocol.c 411-422).                              *)
Obeys == pc = "scan" /\ pc' = "delete" =>
  want # NoCmd /\ done' = want /\ del' = Len(Frame(want))

ObeysAsked == [][faults = 0 => Obeys]_vars

(* Until something is lost, a command is answered at its first try: when   *)
(* nothing of it is on its way and the loop has seen all there is, the host*)
(* is not left waiting (canbus_middle.c 594-595, 610-622, 931-945).        *)
FirstTry == faults = 0 /\ Settled => want = NoCmd

(* A host that repeats its command is answered, whatever was lost, left in *)
(* the ring or cleared by a timeout (ota_protocol.c 425-433,               *)
(* canbus_middle.c 939-944).                                               *)
Answered == want # NoCmd ~> want = NoCmd
=============================================================================
