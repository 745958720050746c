------------------------------ MODULE LampFrame ------------------------------
(***************************************************************************)
(* The command line of the lamps: a host sends frames FE 01 XX CS BE on    *)
(* USART1, bytes may get lost, and the receive interrupt                   *)
(* (USART1_IRQHandler_Callback, bsp/BMLG_LW/app/canbus_middle.c) puts them *)
(* together, one byte per interrupt.  Lamp adds the thread that obeys.     *)
(*                                                                         *)
(* Of USART1_RxBuffer only the first byte is ever read and only that is    *)
(* kept; the index that writes it is.  The host waits for no answer, as    *)
(* there is none, and sends the frames of a behaviour from one set of      *)
(* commands.                                                               *)
(***************************************************************************)
EXTENDS Naturals, Sequences

CONSTANTS
  CodeSets,    \* the sets of commands XX a host may use
  BufferSize   \* bytes of USART1_RxBuffer

Byte == 0 .. 255

ASSUME LampAssumption == /\ \A S \in CodeSets : S \subseteq Byte
                         /\ BufferSize \in 1 .. 255

FrameHead == 254   \* UART1_Frame_Head
FrameEnd  == 190   \* UART1_Frame_End

Bit(a, k) == (a \div 2^k) % 2

(* The exclusive or of two bytes.                                          *)
Xor(a, b) ==
  LET d(k) == IF Bit(a, k) = Bit(b, k) THEN 0 ELSE 2^k
  IN  d(0) + d(1) + d(2) + d(3) + d(4) + d(5) + d(6) + d(7)

VARIABLES
  codes,      \* the commands of this host
  line,       \* the bytes of the frame under way that have not arrived yet
  want,       \* the command it carries
  hurt,       \* it has lost a byte
  state, length, i, cs,   \* the static variables of the callback
  RxBuffer,   \* USART1_RxBuffer[0]
  RxFlag,     \* UART1_RxFlag
  last        \* the command of the last whole frame, 255 for none

host      == <<codes, line, want, hurt>>
automaton == <<state, length, i, cs>>
frameVars == <<host, automaton, RxBuffer, RxFlag, last>>

FrameTypeOK ==
  /\ codes \in CodeSets
  /\ line \in Seq(Byte) /\ Len(line) <= 5
  /\ want \in Byte /\ hurt \in BOOLEAN
  /\ state \in {"Head", "Length", "Data", "CS", "End"}
  /\ length \in Byte /\ i \in 0 .. BufferSize - 1 /\ cs \in Byte
  /\ RxBuffer \in Byte /\ RxFlag \in {0, 1} /\ last \in Byte

FrameInit ==
  /\ codes \in CodeSets
  /\ line = <<>> /\ want = 255 /\ hurt = FALSE
  /\ state = "Head" /\ length = 0 /\ i = 0 /\ cs = 0
  /\ RxBuffer = 0 /\ RxFlag = 0 /\ last = 255

-----------------------------------------------------------------------------
(* The host and the line.                                                  *)

Frame(c) == <<FrameHead, 1, c, c, FrameEnd>>

Send ==
  /\ line = <<>>
  /\ want' \in codes
  /\ line' = Frame(want')
  /\ hurt' = FALSE
  /\ UNCHANGED <<codes, automaton, RxBuffer, RxFlag, last>>

(* A frame loses at most one byte, and the byte of the length only if the  *)
(* command, which is then taken for it, is a length the buffer has room    *)
(* for: the callback does not test that (175).                             *)
Lose ==
  /\ line # <<>> /\ ~hurt
  /\ Len(line) = 4 => want \in 1 .. BufferSize
  /\ line' = Tail(line)
  /\ hurt' = TRUE
  /\ UNCHANGED <<codes, want, automaton, RxBuffer, RxFlag, last>>

-----------------------------------------------------------------------------
(* USART1_IRQHandler_Callback, one operator per state.                     *)

GetHead_Any(temp) ==
  /\ state = "Head"
  /\ state' = "Length" /\ length' = 0 /\ i' = 0 /\ cs' = 0
  /\ UNCHANGED <<RxBuffer, RxFlag, last>>

GetHead(temp) ==
  /\ state = "Head"
  /\ IF temp = FrameHead
     THEN state' = "Length" /\ length' = 0 /\ i' = 0 /\ cs' = 0
     ELSE UNCHANGED automaton
  /\ UNCHANGED <<RxBuffer, RxFlag, last>>

GetLength(temp) ==
  /\ state = "Length"
  /\ length' = temp
  /\ state' = "Data"
  /\ UNCHANGED <<i, cs, RxBuffer, RxFlag, last>>

GetData_OneMore(temp) ==
  /\ state = "Data"
  /\ RxBuffer' = IF i = 0 THEN temp ELSE RxBuffer
  /\ cs' = Xor(cs, temp)
  /\ IF i = length
     THEN i' = 0 /\ state' = "CS"
     ELSE i' = (i + 1) % 256 /\ UNCHANGED state
  /\ UNCHANGED <<length, RxFlag, last>>

GetData(temp) ==
  /\ state = "Data"
  /\ RxBuffer' = IF i = 0 THEN temp ELSE RxBuffer
  /\ cs' = Xor(cs, temp)
  /\ IF i + 1 = length
     THEN i' = 0 /\ state' = "CS"
     ELSE i' = (i + 1) % 256 /\ UNCHANGED state
  /\ UNCHANGED <<length, RxFlag, last>>

GetCS_Waits(temp) ==
  /\ state = "CS"
  /\ state' = IF temp = cs THEN "End" ELSE "CS"
  /\ UNCHANGED <<length, i, cs, RxBuffer, RxFlag, last>>

GetCS(temp) ==
  /\ state = "CS"
  /\ state' = IF temp = cs THEN "End" ELSE "Head"
  /\ UNCHANGED <<length, i, cs, RxBuffer, RxFlag, last>>

GetEnd(temp) ==
  /\ state = "End"
  /\ state' = "Head"
  /\ IF temp = FrameEnd
     THEN RxFlag' = 1 /\ last' = RxBuffer
     ELSE UNCHANGED <<RxFlag, last>>
  /\ UNCHANGED <<length, i, cs, RxBuffer>>

Receive ==
  /\ line # <<>>
  /\ line' = Tail(line)
  /\ UNCHANGED <<codes, want, hurt>>
  /\ LET temp == Head(line)
     IN  \/ GetHead(temp) \/ GetLength(temp) \/ GetData(temp)
         \/ GetCS(temp) \/ GetEnd(temp)
=============================================================================
