------------------------------- MODULE Identity -------------------------------
(***************************************************************************)
(* Device identifiers: the parameter page both programs keep (iap_if.c),   *)
(* its life under power losses, and the commands with which a host on the  *)
(* CAN bus, or a technician on the loader's UART, assigns identifiers to   *)
(* the devices of one bus (canbus_middle.c and ota_protocol.c of the       *)
(* loader, can_ota_protocol.c, can_search_protocol.c, manage_id.c and      *)
(* param.c of the application).                                            *)
(*                                                                         *)
(* The page is erased and then programmed from its start: first the flag   *)
(* and half of the chip's unique number, then the rest of the number, last *)
(* the identifier.  An erased identifier reads 0xFFFF (Blank), which makes *)
(* a device obey commands for any identifier.  The chip number of a device *)
(* is the device itself; what the model keeps of the copy in the page is   *)
(* whether it is whole.  An erase that is cut short leaves the old page or *)
(* one without its flag.                                                   *)
(*                                                                         *)
(* Reading commands and answers matter only where the host learns from     *)
(* them; the host sends one command at a time.  Its restraint (FreeFor)    *)
(* is an assumption about the environment, named where it is used.         *)
(***************************************************************************)
EXTENDS Naturals, FiniteSets

CONSTANTS
  Devices,  \* those on the bus, by their chip numbers
  IDs,      \* identifiers
  Board,    \* the identifier compiled into each device's application
  Blank,    \* 0xFFFF
  None      \* no command

AnyID    == IDs \union {Blank}
Record   == [whole : BOOLEAN, id : AnyID]
Commands == [op : {"set"}, uuid : Devices, to : AnyID, id : IDs]
              \union [op : {"write"}, to : AnyID, id : IDs]
              \union [op : {"save", "restart", "default"}, to : AnyID]

ASSUME IdAssumption ==
  /\ Blank \notin IDs /\ None \notin Commands
  /\ Board \in [Devices -> IDs]
  /\ \A d, e \in Devices : Board[d] = Board[e] => d = e

VARIABLES
  prog,  \* the program each device runs
  pc,    \* where it is
  then,  \* what comes after the save under way
  page,  \* its parameter page: how much is programmed, and the identifier
  ram,   \* iap_param: is the chip number whole, and the identifier
  cmd,   \* the host's command
  todo,  \* the devices it has not reached yet
  may    \* the identifiers each device may have in RAM or page, as far as
         \* the host knows, beside its board's

device == <<prog, pc, then, page, ram>>
bus    == <<cmd, todo>>
vars   == <<device, bus, may>>

TypeOK ==
  /\ prog \in [Devices -> {"loader", "app"}]
  /\ pc \in [Devices -> {"off", "load", "erase", "program", "run"}]
  /\ then \in [Devices -> {"load", "run", "ack"}]
  /\ page \in [Devices -> [words : 0 .. 3, whole : BOOLEAN, id : AnyID]]
  /\ ram \in [Devices -> Record]
  /\ cmd \in Commands \union {None}
  /\ todo \subseteq Devices
  /\ (todo = {} <=> cmd = None)
  /\ may \in [Devices -> SUBSET AnyID]

Erased == [words |-> 0, whole |-> FALSE, id |-> Blank]
Default == [whole |-> TRUE, id |-> Blank]

Init ==
  /\ prog = [d \in Devices |-> "loader"]
  /\ pc   = [d \in Devices |-> "off"]
  /\ then = [d \in Devices |-> "load"]
  /\ page = [d \in Devices |-> Erased]
  /\ ram  = [d \in Devices |-> Default]
  /\ cmd = None /\ todo = {}
  /\ may   = [d \in Devices |-> {Blank}]

Set(f, d, v) == f' = [f EXCEPT ![d] = v]

-----------------------------------------------------------------------------
(* Reset and power.  Which program runs is decided by the mode flag        *)
(* (IapBoot); RAM is lost.                                                 *)

PowerOn(d) ==
  /\ pc[d] = "off"
  /\ \E p \in {"loader", "app"} : Set(prog, d, p)
  /\ Set(pc, d, "load")
  /\ UNCHANGED <<then, page, ram, bus, may>>

Halt(d) ==
  /\ Set(prog, d, "loader") /\ Set(pc, d, "off") /\ Set(then, d, "load")
  /\ Set(ram, d, Default)

PowerLoss(d) ==
  /\ pc[d] # "off"
  /\ Halt(d)
  /\ \/ UNCHANGED page
     \/ pc[d] = "erase" /\ Set(page, d, Erased)
  /\ UNCHANGED <<bus, may>>

-----------------------------------------------------------------------------
(* iap_param_save, and the load at start-up.                               *)

(* Programming goes on from an erased page, one part after the other.      *)
Programmed(p, r) ==
  [words |-> p.words + 1,
   whole |-> IF p.words = 1 THEN r.whole ELSE p.whole,
   id    |-> IF p.words = 2 THEN r.id ELSE p.id]

(* Flash_Read of the page into iap_param.                                  *)
ReadBack(p) == [whole |-> p.whole, id |-> p.id]

(* device_id_set: the application overrides the identifier.                *)
Started(d, r) == IF prog[d] = "app" THEN [r EXCEPT !.id = Board[d]] ELSE r

StartSave(d, r, next) ==
  /\ Set(pc, d, "erase")
  /\ Set(then, d, next)
  /\ Set(ram, d, r)

(* A page without its flag is saved anew with the defaults, and read back. *)
Load(d) ==
  /\ pc[d] = "load"
  /\ IF page[d].words = 0
     THEN StartSave(d, Default, "load")
     ELSE /\ Set(pc, d, "run")
          /\ Set(ram, d, Started(d, ReadBack(page[d])))
          /\ UNCHANGED then
  /\ UNCHANGED <<prog, page, bus, may>>

Erase(d) ==
  /\ pc[d] = "erase"
  /\ Set(pc, d, "program")
  /\ Set(page, d, Erased)
  /\ UNCHANGED <<prog, then, ram, bus, may>>

(* Mutant: one part too many. *)
Program_OneMore(d) ==
  /\ pc[d] = "program" /\ page[d].words <= 3
  /\ Set(page, d, Programmed(page[d], ram[d]))
  /\ UNCHANGED <<prog, pc, then, ram, bus, may>>

Program(d) ==
  /\ pc[d] = "program" /\ page[d].words < 3
  /\ Set(page, d, Programmed(page[d], ram[d]))
  /\ UNCHANGED <<prog, pc, then, ram, bus, may>>

(* The acknowledgement of a save carries the identifier saved.  A host     *)
(* that knows the holder of it knows then what that device holds, and that *)
(* its page is whole; the answer may get lost.                             *)
Holder(u, x) == x \in may[u] \union {Board[u]}

Learn(x) == may' = [u \in Devices |-> IF Holder(u, x) THEN {x} \ {Board[u]} ELSE may[u]]

(* Mutant: acknowledged as soon as the page is erased. *)
Saved_Early(d) ==
  /\ pc[d] = "program"
  /\ Set(pc, d, IF then[d] = "load" THEN "load" ELSE "run")
  /\ Set(then, d, "load")
  /\ \/ UNCHANGED may
     \/ then[d] = "ack" /\ ram[d].id # Blank /\ Learn(ram[d].id)
  /\ UNCHANGED <<prog, page, ram, bus>>

Saved(d) ==
  /\ pc[d] = "program" /\ page[d].words = 3
  /\ Set(pc, d, IF then[d] = "load" THEN "load" ELSE "run")
  /\ Set(then, d, "load")
  /\ \/ UNCHANGED may
     \/ then[d] = "ack" /\ ram[d].id # Blank /\ Learn(ram[d].id)
  /\ UNCHANGED <<prog, page, ram, bus>>

-----------------------------------------------------------------------------
(* The host.  It gives an identifier to a device only if no other may hold *)
(* it or have it compiled in, and moves on when all have answered.         *)

FreeFor(u, i) == \A e \in Devices \ {u} : ~Holder(e, i)

(* The devices that may obey a command for x.                              *)
Listens(u, x) == Holder(u, x) \/ Blank \in may[u]

HostIdle == cmd = None /\ \A d \in Devices : then[d] # "ack"

SendTo(m) ==
  /\ HostIdle
  /\ \E u \in Devices : Listens(u, m.to)
  /\ cmd' = m
  /\ todo' = Devices
  /\ UNCHANGED device

MayBe(u, x) == Set(may, u, (may[u] \union {x}) \ {Board[u]})

SendSet ==
  \E u \in Devices, x \in AnyID, i \in IDs :
    /\ FreeFor(u, i)
    /\ SendTo([op |-> "set", uuid |-> u, to |-> x, id |-> i])
    /\ MayBe(u, i)

(* Only the application obeys a write, and it has no chip number to check: *)
(* it is safe for the holder of an identifier only.                        *)
SendWrite ==
  \E u \in Devices, x \in IDs, i \in IDs :
    /\ FreeFor(u, i) /\ Holder(u, x)
    /\ SendTo([op |-> "write", to |-> x, id |-> i])
    /\ MayBe(u, i)

(* A save that is cut short leaves a blank identifier, a default sets it.  *)
SendRewrite ==
  \E o \in {"save", "default"}, x \in AnyID :
    /\ SendTo([op |-> o, to |-> x])
    /\ may' = [u \in Devices |-> IF Listens(u, x) THEN may[u] \union {Blank} ELSE may[u]]

SendRestart ==
  \E x \in AnyID : SendTo([op |-> "restart", to |-> x]) /\ UNCHANGED may

-----------------------------------------------------------------------------
(* can500_protocol_anylise: the identifier test (632), the switch.         *)

Obeys(d) == ram[d].id = cmd.to \/ ram[d].id = Blank

Stay == UNCHANGED <<prog, pc, then, page>>

(* Mutant: the chip number is not compared. *)
DoSet_Anyone(d) ==
  /\ cmd.op = "set"
  /\ IF ram[d].whole THEN Set(ram, d, [ram[d] EXCEPT !.id = cmd.id])
                     ELSE UNCHANGED ram
  /\ Stay

(* CAN_Device_Paramset_Search_SetID: all six words of the number must fit. *)
DoSet(d) ==
  /\ cmd.op = "set"
  /\ IF cmd.uuid = d /\ ram[d].whole THEN Set(ram, d, [ram[d] EXCEPT !.id = cmd.id])
                                     ELSE UNCHANGED ram
  /\ Stay

(* CAN_Paramset_Receive_Analyse: empty in the loader.                      *)
DoWrite(d) ==
  /\ cmd.op = "write"
  /\ IF prog[d] = "app" THEN Set(ram, d, [ram[d] EXCEPT !.id = cmd.id])
                        ELSE UNCHANGED ram
  /\ Stay

DoSave(d) ==
  /\ cmd.op = "save"
  /\ StartSave(d, ram[d], "ack")
  /\ UNCHANGED <<prog, page>>

DoRestart(d) ==
  /\ cmd.op = "restart"
  /\ Halt(d)
  /\ UNCHANGED page

(* The loader acknowledges first and saves then; the application restores  *)
(* only the parameters in its own page.                                    *)
DoDefault(d) ==
  /\ cmd.op = "default"
  /\ IF prog[d] = "loader" THEN StartSave(d, Default, "run")
                           ELSE UNCHANGED <<pc, then, ram>>
  /\ UNCHANGED <<prog, page>>

Answered(d) ==
  /\ d \in todo
  /\ todo' = todo \ {d}
  /\ cmd' = IF todo' = {} THEN None ELSE cmd

Handle(d) ==
  /\ pc[d] = "run"
  /\ Answered(d)
  /\ IF Obeys(d)
     THEN DoSet(d) \/ DoWrite(d) \/ DoSave(d) \/ DoRestart(d) \/ DoDefault(d)
     ELSE UNCHANGED device
  /\ UNCHANGED may

(* A device that is off, starting or overrun does not see the command.     *)
Miss(d) ==
  /\ Answered(d)
  /\ UNCHANGED <<device, may>>

(* The technician writes an identifier over the loader's UART, without a   *)
(* test of any kind (iap_param_analysis); with the host's restraint, and   *)
(* not while a command is on its way.                                      *)
UartWrite(d) ==
  /\ cmd = None /\ pc[d] = "run" /\ prog[d] = "loader"
  /\ \E i \in IDs : /\ FreeFor(d, i)
                    /\ Set(ram, d, [ram[d] EXCEPT !.id = i])
                    /\ MayBe(d, i)
  /\ UNCHANGED <<prog, pc, then, page, bus>>

(* The technician saves what RAM holds, without an answer.  (His restart is*)
(* a power loss in "run".)                                                 *)
UartSave(d) ==
  /\ cmd = None /\ pc[d] = "run" /\ prog[d] = "loader"
  /\ StartSave(d, ram[d], "run")
  /\ MayBe(d, Blank)
  /\ UNCHANGED <<prog, page, bus>>

Device(d) == \/ PowerOn(d) \/ Load(d) \/ Erase(d) \/ Program(d) \/ Saved(d)
             \/ Handle(d)

Next == \/ SendSet \/ SendWrite \/ SendRewrite \/ SendRestart
        \/ \E d \in Devices : \/ Device(d) \/ PowerLoss(d) \/ Miss(d)
                             \/ UartWrite(d) \/ UartSave(d)

Spec == Init /\ [][Next]_vars

-----------------------------------------------------------------------------
(* Properties.                                                             *)

(* What a device may come to answer to: the identifier in RAM while it     *)
(* works with it, and the one in its page.                                 *)
Holds(d) == (IF pc[d] \in {"run", "erase", "program"} THEN {ram[d].id} ELSE {})
              \union {page[d].id}

(* The host is never wrong about who may answer to an identifier, though   *)
(* saves are cut short, answers lost, and pages fall back to older or      *)
(* blank identifiers; what a device has acknowledged as saved it keeps,    *)
(* until the next command to save (iap_if.c 189-223, canbus_middle.c       *)
(* 728-736).                                                               *)
HostKnows == \A d \in Devices : Holds(d) \subseteq may[d] \union {Board[d]}

(* So no two devices ever answer to one identifier, not even after an      *)
(* identifier that one of them has given up is used again (canbus_middle.c *)
(* 518-521, 632).                                                          *)
UniqueIDs == \A d, e \in Devices :
  d # e /\ pc[d] = "run" /\ pc[e] = "run" => ram[d].id # ram[e].id \/ ram[d].id = Blank
=============================================================================
