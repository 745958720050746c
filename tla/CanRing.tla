------------------------------- MODULE CanRing -------------------------------
(***************************************************************************)
(* The receive ring of the CAN driver, drv_can.c of both programs: the     *)
(* interrupt adds a message and, when the ring is full, moves the read     *)
(* index to drop the oldest; stm32_CAN_recv and stm32_CAN_clear, called    *)
(* from the loader's loop (canbus_middle.c) or the application's CAN       *)
(* thread, move the same index without a lock.                             *)
(*                                                                         *)
(* stm32_CAN_recv is as many actions as it has accesses to the shared      *)
(* index, with its memcpy in two halves; the interrupt is one action,      *)
(* between any two of them.  The compiler may keep the index it tested in  *)
(* a register or load it again for the increment, as it is not volatile.   *)
(* Nothing is lost by the test being one action: an interrupt between its  *)
(* two loads acts like one before or after it, or makes it fail.           *)
(*                                                                         *)
(* Message n is the n-th to arrive.  MaxBurst bounds the interrupts that   *)
(* fall within one call: one in the loader, where a call is much shorter   *)
(* than a message on the bus, several in the application, whose CAN thread *)
(* has priority 15 and is preempted.                                       *)
(***************************************************************************)
EXTENDS Naturals

CONSTANTS
  Size,         \* CAN_RX_BUFFER_SIZE
  MaxArrivals,  \* bound on the messages of a behaviour
  MaxBurst      \* bound on the interrupts within a call

ASSUME RingAssumption == /\ Size \in Nat /\ Size >= 2
                         /\ MaxArrivals \in Nat
                         /\ MaxBurst \in Nat

Slots == 0 .. Size - 1

Wrap(i) == i % Size

(* How many steps ahead of slot i slot j is.                               *)
Dist(i, j) == IF i <= j THEN j - i ELSE j + Size - i

VARIABLES
  ring,     \* CANRxBuf: the message in each slot, 0 for none
  Read,     \* CanRx_Read; equal to Size between its ++ and its %=
  Write,    \* CanRx_Write
  pc,       \* where the caller is
  r,        \* its register: the index tested, then incremented
  got,      \* the two halves of the message it copies
  burst,    \* the interrupts since the call began
  arrived,  \* how many messages came in
  last      \* the message handed out last, 0 for none

index  == <<Read, Write>>
caller == <<pc, r, got>>
vars   == <<ring, index, caller, burst, arrived, last>>

Init == /\ ring = [s \in Slots |-> 0]
        /\ Read = 0 /\ Write = 0
        /\ pc = "idle" /\ r = 0 /\ got = <<0, 0>>
        /\ burst = 0 /\ arrived = 0 /\ last = 0

-----------------------------------------------------------------------------
(* stm32_CAN_recv.                                                         *)

Step(from, to) == pc = from /\ pc' \in to

Test_NoCheck ==
  /\ Step("idle", {"reload", "store"})
  /\ r' = Read
  /\ burst' = 0
  /\ UNCHANGED <<ring, index, got, arrived, last>>

Test_Below ==
  /\ Read < Write
  /\ Step("idle", {"reload", "store"})
  /\ r' = Read
  /\ burst' = 0
  /\ UNCHANGED <<ring, index, got, arrived, last>>

(* A call that finds the ring empty changes nothing.                       *)
Test ==
  /\ Read # Write
  /\ Step("idle", {"reload", "store"})
  /\ r' = Read
  /\ burst' = 0
  /\ UNCHANGED <<ring, index, got, arrived, last>>

Reload ==
  /\ Step("reload", {"store"})
  /\ r' = Read
  /\ UNCHANGED <<ring, index, got, burst, arrived, last>>

Increment ==
  /\ Step("store", {"copy1"})
  /\ Read' = r + 1
  /\ UNCHANGED <<ring, Write, r, got, burst, arrived, last>>

CopyHalf(h, from, to) ==
  /\ Step(from, {to})
  /\ got' = [got EXCEPT ![h] = ring[r]]
  /\ UNCHANGED <<ring, index, r, burst, arrived, last>>

(* The load of the %=.                                                     *)
LoadRead ==
  /\ Step("load", {"wrap"})
  /\ r' = Read
  /\ UNCHANGED <<ring, index, got, burst, arrived, last>>

WrapRead ==
  /\ Step("wrap", {"idle"})
  /\ Read' = Wrap(r)
  /\ last' = got[2]
  /\ UNCHANGED <<ring, Write, r, got, burst, arrived>>

Recv == \/ Test \/ Reload \/ Increment
        \/ CopyHalf(1, "copy1", "copy2") \/ CopyHalf(2, "copy2", "load")
        \/ LoadRead \/ WrapRead

-----------------------------------------------------------------------------
(* stm32_CAN_clear, called once at start-up and after a timeout.           *)

LoadWrite ==
  /\ Step("idle", {"clear"})
  /\ r' = Write
  /\ burst' = 0
  /\ UNCHANGED <<ring, index, got, arrived, last>>

StoreRead ==
  /\ Step("clear", {"idle"})
  /\ Read' = r
  /\ UNCHANGED <<ring, Write, r, got, burst, arrived, last>>

-----------------------------------------------------------------------------
(* The receive interrupt.                                                  *)

Interrupt_NoDrop ==
  /\ arrived < MaxArrivals
  /\ pc = "idle" \/ burst < MaxBurst
  /\ arrived' = arrived + 1
  /\ ring' = [ring EXCEPT ![Write] = arrived']
  /\ Write' = Wrap(Write + 1)
  /\ burst' = IF pc = "idle" THEN 0 ELSE burst + 1
  /\ UNCHANGED <<Read, caller, last>>

Interrupt_NoWrap ==
  /\ arrived < MaxArrivals
  /\ pc = "idle" \/ burst < MaxBurst
  /\ arrived' = arrived + 1
  /\ ring' = [ring EXCEPT ![Write] = arrived']
  /\ Write' = Wrap(Write + 1)
  /\ Read' = IF Write' = Read THEN Read + 1 ELSE Read
  /\ burst' = IF pc = "idle" THEN 0 ELSE burst + 1
  /\ UNCHANGED <<caller, last>>

Interrupt ==
  /\ arrived < MaxArrivals
  /\ pc = "idle" \/ burst < MaxBurst
  /\ arrived' = arrived + 1
  /\ ring' = [ring EXCEPT ![Write] = arrived']
  /\ Write' = Wrap(Write + 1)
  /\ Read' = IF Write' = Read THEN Wrap(Read + 1) ELSE Read
  /\ burst' = IF pc = "idle" THEN 0 ELSE burst + 1
  /\ UNCHANGED <<caller, last>>

Next == Recv \/ LoadWrite \/ StoreRead \/ Interrupt

Spec == Init /\ [][Next]_vars

(* The loop calls stm32_CAN_recv again and again, and a call goes on after *)
(* an interrupt.                                                           *)
FairSpec == Spec /\ WF_vars(Recv \/ StoreRead)

-----------------------------------------------------------------------------
(* Properties.                                                             *)

(* The caller has committed itself to a message, that in slot Mine.        *)
Claimed == pc \in {"store", "copy1", "copy2", "load", "wrap"}

Mine == IF pc = "wrap" THEN r - 1 ELSE r

(* The slot of the oldest message that still waits, and how many wait.     *)
First == IF Claimed THEN Wrap(Mine + 1) ELSE IF pc = "clear" THEN r ELSE Read

Waiting == Dist(First, Write)

TypeOK == /\ ring \in [Slots -> Nat]
          /\ Read \in 0 .. Size /\ Write \in Slots
          /\ pc \in {"idle", "reload", "store", "copy1", "copy2", "load", "wrap",
                     "clear"}
          /\ r \in 0 .. Size
          /\ got \in [{1, 2} -> Nat]
          /\ burst \in Nat /\ arrived \in Nat /\ last \in Nat

(* Read is Size only between the ++ and the %= of its owner, and the       *)
(* interrupt moves it in a call only while the message of the call is      *)
(* still the oldest (drv_can.c 220-221, 358-362).                          *)
IndexInv == /\ pc \in {"idle", "reload", "clear"} => Read \in Slots
            /\ pc \in {"store", "clear"} => r \in Slots
            /\ pc = "reload" => Read # Write
            /\ pc = "clear" /\ burst = 0 => r = Write
            /\ Claimed => Mine \in Slots
            /\ pc = "store" => Read = r \/ (burst > 0 /\ Read = Wrap(r + 1))
            /\ pc \in {"copy1", "copy2", "load", "wrap"} => Read = Mine + 1

(* What waits is the latest messages, in the order they came.              *)
ContentInv == /\ Waiting <= arrived
              /\ \A s \in Slots : LET d == Dist(s, Write)
                                  IN  d \in 1 .. Waiting => ring[s] = arrived + 1 - d

(* The message of the call comes after the one before it and before all    *)
(* that wait, and its slot is not written while it is copied.              *)
CallInv == /\ last + Waiting <= arrived
           /\ Claimed => /\ last < ring[Mine]
                         /\ ring[Mine] + Waiting <= arrived
                         /\ burst = 0 => Mine # Write
           /\ pc \in {"copy2", "load", "wrap"} => got[1] = ring[Mine]
           /\ pc \in {"load", "wrap"} => got[2] = ring[Mine]

RingInv == TypeOK /\ IndexInv /\ ContentInv /\ CallInv

(* stm32_CAN_recv receives one message, as its comment says (drv_can.c of  *)
(* the application 297), not parts of two.                                 *)
WholeMessage == pc = "wrap" => got[1] = got[2]

(* It hands out whole messages, each later than the one before it: none is *)
(* torn, repeated or overtaken (drv_can.c 215-221).                        *)
InOrder == WholeMessage /\ (pc = "wrap" => last < got[1])

(* The ring is a queue of Size - 1 messages that loses its oldest message  *)
(* only when it is full (drv_can.c 354-362), or all when it is cleared.    *)
Queue == [j \in 1 .. Waiting |-> ring[Wrap(First + j - 1)]]

Abstract == INSTANCE LossyQueue WITH Capacity <- Size - 1,
                                     queue <- Queue,
                                     taken <- IF Claimed THEN ring[Mine] ELSE last

ImplementsQueue == Abstract!Spec

(* Once the bus is quiet the loop empties the ring (canbus_middle.c        *)
(* 882-916): the indices never keep it from what waits.                    *)
Drained == arrived = MaxArrivals ~> pc = "idle" /\ Read = Write
=============================================================================
