--------------------------------- MODULE Lamp ---------------------------------
(***************************************************************************)
(* The lamps: LEDcontrol_thread_entry and the twinkle modes of             *)
(* bsp/BMLG_LW/app/gpio.c, with the interrupt of LampFrame between any two *)
(* steps of the thread.                                                    *)
(*                                                                         *)
(* The thread takes a command in three steps (test the flag, read the      *)
(* buffer, clear the flag) and then runs its twinkle mode to the end, from *)
(* one rt_thread_delay to the next: a step of the model is what lies       *)
(* between two delays.  There are 2 * Half + 1 lamps of each colour (19,   *)
(* Half = 9, in the code).  Led_ModeSelect of a number that is no lamp     *)
(* (19, or 255 for 0 - 1) changes none; that it delays is left out, as are *)
(* the lengths of the delays.                                              *)
(***************************************************************************)
EXTENDS LampFrame

CONSTANT Half   \* lamps on each side of the middle one

ASSUME HalfAssumption == Half \in Nat \ {0}

Lamps   == 0 .. 2 * Half
Colours == {"red", "orange"}

(* The twinkle modes: what a command does, and to which colours.           *)
Style(c) ==
  CASE c = 0           -> "off"
    [] c = 1           -> "on"
    [] c \in 2 .. 4    -> "blink"
    [] c \in 5 .. 7    -> "fill"
    [] c \in 8 .. 10   -> "scan"
    [] c \in 11 .. 13  -> "spread"
    [] c \in 14 .. 16  -> "ripple"
    [] c \in {26, 27}  -> "add"
    [] OTHER           -> "none"

Paint(c) ==
  CASE c \in {2, 5, 8, 11, 14, 26} -> {"red"}
    [] c \in {3, 6, 9, 12, 15, 27} -> {"orange"}
    [] OTHER                       -> Colours

VARIABLES
  pc,     \* where the thread is
  mode,   \* LED_Twinkle_Mode
  num,    \* the loop variable of the twinkle modes
  lit,    \* the lamps that are on, of each colour
  quiet   \* the last whole frame came when the thread was not taking one,
          \* and until the thread took it no other frame touched the buffer

thread == <<pc, mode, num, lit>>
vars   == <<frameVars, thread, quiet>>

TypeOK ==
  /\ FrameTypeOK
  /\ pc \in {"wait", "read", "clear", "show", "step", "full", "on", "dark"}
  /\ mode \in Byte
  /\ num \in 0 .. 2 * Half + 1
  /\ lit \in [Colours -> SUBSET Lamps]
  /\ quiet \in BOOLEAN

Init ==
  /\ FrameInit
  /\ pc = "wait" /\ mode = 255 /\ num = 0
  /\ lit = [c \in Colours |-> {}]
  /\ quiet = TRUE

-----------------------------------------------------------------------------
(* Lamps on and off: the colours of the mode, or all of them.              *)

Light(on, off) ==
  lit' = [c \in Colours |-> IF c \in Paint(mode)
                            THEN ((lit[c] \union on) \ off) \intersect Lamps
                            ELSE lit[c]]

Fresh_Keep(on) ==
  lit' = [c \in Colours |-> IF c \in Paint(mode) THEN on \intersect Lamps ELSE lit[c]]

(* twinkle_modeoff, then the first picture of the mode.                    *)
Fresh(on) ==
  lit' = [c \in Colours |-> IF c \in Paint(mode) THEN on \intersect Lamps ELSE {}]

Step(from, to) == pc = from /\ pc' = to

-----------------------------------------------------------------------------
(* The head of the loop (968-973).                                         *)

Test ==
  /\ Step("wait", IF RxFlag = 1 THEN "read" ELSE "show")
  /\ UNCHANGED <<frameVars, mode, num, lit, quiet>>

Take ==
  /\ Step("read", "clear")
  /\ mode' = RxBuffer
  /\ UNCHANGED <<frameVars, num, lit, quiet>>

Clear ==
  /\ Step("clear", "show")
  /\ RxFlag' = 0
  /\ UNCHANGED <<host, automaton, RxBuffer, last, mode, num, lit, quiet>>

-----------------------------------------------------------------------------
(* The switch (974-1088) and the twinkle modes.                            *)

ShowAll_ClearsFlag ==
  /\ Step("show", "wait")
  /\ \/ Style(mode) = "off"  /\ Fresh({})
     \/ Style(mode) = "on"   /\ Light(Lamps, {})
     \/ Style(mode) = "add"  /\ Light(Lamps, {})
     \/ Style(mode) = "none" /\ UNCHANGED lit
  /\ RxFlag' = 0
  /\ UNCHANGED <<host, automaton, RxBuffer, last, mode, num, quiet>>

ShowAll ==
  /\ Step("show", "wait")
  /\ \/ Style(mode) = "off"  /\ Fresh({})
     \/ Style(mode) = "on"   /\ Light(Lamps, {})
     \/ Style(mode) = "add"  /\ Light(Lamps, {})
     \/ Style(mode) = "none" /\ UNCHANGED lit
  /\ UNCHANGED <<frameVars, mode, num, quiet>>

Blink ==
  /\ \/ Style(mode) = "blink" /\ Step("show", "on") /\ Fresh(Lamps)
     \/ Step("on", "dark") /\ Light({}, Lamps)
     \/ Step("dark", "wait") /\ UNCHANGED lit
  /\ UNCHANGED <<frameVars, mode, num, quiet>>

(* What the loop body switches on and off in round n, and the number of    *)
(* rounds.                                                                 *)
OnAt(s, n)  == IF s \in {"fill", "scan"} THEN {n} ELSE {Half + n, Half - n}
OffAt(s, n) == CASE s = "scan"   -> {n - 1}
                 [] s = "ripple" -> {Half + n - 1, Half - n + 1}
                 [] OTHER        -> {}
Rounds(s)   == CASE s = "fill" -> 2 * Half + 1
                 [] s = "scan" -> 2 * Half + 2
                 [] OTHER      -> Half + 1

Moving == {"fill", "scan", "spread", "ripple"}

FirstRound ==
  /\ Style(mode) \in Moving
  /\ Step("show", "step")
  /\ num' = 0
  /\ Fresh(OnAt(Style(mode), 0) \ OffAt(Style(mode), 0))
  /\ UNCHANGED <<frameVars, mode, quiet>>

NextRound ==
  /\ Step("step", "step")
  /\ num + 1 < Rounds(Style(mode))
  /\ num' = num + 1
  /\ Light(OnAt(Style(mode), num'), OffAt(Style(mode), num'))
  /\ UNCHANGED <<frameVars, mode, quiet>>

(* After the last round a line that was filled stays for a delay and goes  *)
(* off; the other modes end.                                               *)
EndRounds ==
  /\ num + 1 = Rounds(Style(mode))
  /\ Step("step", IF Style(mode) = "fill" THEN "full" ELSE "wait")
  /\ UNCHANGED <<frameVars, mode, num, lit, quiet>>

Unfill ==
  /\ Step("full", "wait")
  /\ Light({}, Lamps)
  /\ UNCHANGED <<frameVars, mode, num, quiet>>

Thread == Test \/ Take \/ Clear \/ ShowAll \/ Blink
          \/ FirstRound \/ NextRound \/ EndRounds \/ Unfill

-----------------------------------------------------------------------------
(* The interrupt, which may come between any two steps of the thread.      *)

Interrupt ==
  /\ Receive
  /\ quiet' = CASE state = "End" /\ state' = "Head" /\ Head(line) = FrameEnd
                                               -> pc # "clear"
                [] state = "Data" /\ RxFlag = 1 -> quiet /\ pc = "clear"
                [] OTHER                       -> quiet
  /\ UNCHANGED thread

HostStep == (Send \/ Lose) /\ UNCHANGED <<thread, quiet>>

Next == Thread \/ Interrupt \/ HostStep

Spec == Init /\ [][Next]_vars

(* The thread has priority 14 over the rest of the application, which      *)
(* sleeps most of the time; what the host has sent arrives, and it sends   *)
(* again.                                                                  *)
FairSpec == Spec /\ WF_vars(Thread) /\ WF_vars(Interrupt)
                 /\ WF_vars(Send /\ UNCHANGED <<thread, quiet>>)

-----------------------------------------------------------------------------
(* Properties.                                                             *)

(* The lamps a mode shows at a delay.                                      *)
Shown(s, n) ==
  CASE pc = "on"     -> Lamps
    [] pc = "full"   -> Lamps
    [] pc = "dark"   -> {}
    [] s = "fill"    -> IF pc = "step" THEN 0 .. n ELSE {}
    [] s = "scan"    -> IF pc = "step" THEN {n} \intersect Lamps ELSE {}
    [] s = "spread"  -> IF pc = "step" THEN Half - n .. Half + n ELSE Lamps
    [] s = "ripple"  -> IF pc = "step" THEN {Half - n, Half + n} ELSE {0, 2 * Half}
    [] s \in {"on", "add"} -> Lamps
    [] OTHER         -> {}

(* At every delay of a mode exactly the lamps it is meant to show are on,  *)
(* whatever the mode before it left behind (the comments at gpio.c 110-440 *)
(* say what each mode shows).  "add" only adds its colour (26, 27), and an *)
(* unknown command leaves the lamps as they are.                           *)
Picture ==
  /\ pc \in {"wait", "step", "full", "on", "dark"}
  /\ Style(mode) # "none"
  => \A c \in Colours :
       IF c \in Paint(mode) THEN lit[c] = Shown(Style(mode), num)
                            ELSE Style(mode) # "add" => lit[c] = {}

(* The thread obeys no command that was not sent, although the bytes of a  *)
(* frame may be lost and the buffer is written while a frame waits in it   *)
(* (canbus_middle.c 175, gpio.c 969-972).                                  *)
OnlySent == mode \in codes \union {255}

(* When the thread has taken what there was, it shows the last whole       *)
(* command, unless that came while it took the one before it or was        *)
(* overwritten: UART1_RxFlag is cleared after the buffer is read, and the  *)
(* buffer is filled before the flag is set (gpio.c 969-973,                *)
(* canbus_middle.c 175, 202).                                              *)
LatestObeyed == quiet /\ RxFlag = 0 /\ pc # "clear" => mode = last

(* A host that repeats its command is obeyed for good, once no more bytes  *)
(* are lost: the automaton comes back to the head of a frame from wherever *)
(* a lost byte has left it, and no frame that slips through the three      *)
(* steps of the thread is lost twice.                                      *)
Obeyed == <>[][~Lose]_vars /\ <>[][want' = want]_vars => <>[](mode = want)
=============================================================================
